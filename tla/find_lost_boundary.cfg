\* The same query for a key on the boundary of two ranges.
CONSTANTS
    MaxCode = 15
    ShardNum = 2
    Key <- BoundaryKey
    Bound <- BoundaryBound
    MaxMem = 2
    MaxWrite = 2
    MaxFile = 2
SPECIFICATION Spec
INVARIANTS
    QueryAnswers
