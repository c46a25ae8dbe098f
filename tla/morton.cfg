\* Coordinates of three bits, boxes with corners at four coordinates of each axis
\* (every order of the corners), flat, long and cubic ones.
CONSTANTS
    Bits = 3
    SplitBy2 <- SplitBits
    MaxCoord = 7
    Corner = {0, 2, 5, 7}
    LeafVolume = 8
    MaxDepth = 2
SPECIFICATION FairSpec
INVARIANTS
    TypeOK
    NothingLost
    BoxCovered
    RangesApart
    EndsInBox
    StackBounded
PROPERTIES
    GeneratorEnds
\* The function is called once.
CHECK_DEADLOCK FALSE
