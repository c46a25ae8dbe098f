\* The same query over two layers.
CONSTANTS
    MaxCode = 15
    ShardNum = 2
    Key <- LayeredKey
    Bound <- LayeredBound
    MaxMem = 2
    MaxWrite = 2
    MaxFile = 2
SPECIFICATION Spec
INVARIANTS
    QueryAnswers
