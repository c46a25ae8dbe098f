\* Two shards, one caller of CompactAll; a threshold of two readers and room for
\* one more that a flush may add during a merge.
CONSTANTS
    ShardNum = 2
    Caller = {caller}
    Threshold = 2
    MaxList = 3
SPECIFICATION FairSpec
INVARIANTS
    TypeOK
    ShutdownIsPrompt
    NobodyInside
PROPERTIES
    DestructorReturns
    BacklogHeeded
\* A destroyed engine does nothing any more.
CHECK_DEADLOCK FALSE
