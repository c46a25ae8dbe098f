\* Three keys and three children with any contents: versions of one key in two
\* and in three children, empty children, and keys only one child has.
CONSTANTS
    Key = {0, 1, 2}
    Child = {1, 2, 3}
    None = None
SPECIFICATION FairSpec
INVARIANTS
    TypeOK
    HeapMirrors
    ChildrenAhead
PROPERTIES
    IsOrderedStream
