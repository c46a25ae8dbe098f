\* Three keys, three levels, blocks of one to two entries.
CONSTANTS
    Key = {1, 2, 3}
    short = short
    long = long
    Value = {short, long}
    Tombstone = tombstone
    MaxNode = 3
    MaxLevel = 3
    SizeOf <- MCSizeOf
    BlockSize = 2
SPECIFICATION Spec
INVARIANTS
    TypeOK
    LevelsLinked
    MemTableReads
    GetLosesOnlyBadBlocks
    ScanLosesOnlyBadBlocks
PROPERTIES
    FlushIsAtomic
\* One flush: a scan of its file may be the last thing that happens.
CHECK_DEADLOCK FALSE
