\* One compaction thread beside the writers; flushes run before and after the
\* increment of the counter that compaction performs without the lock.
CONSTANTS
    Key = {k1, k2}
    Compactor = {c1}
    MaxMem = 2
    MaxWrite = 4
    MaxFile = 5
    MaxCrash = 0
    Overlap = {"snapshot", "build"}
    PeerRace = TRUE
    CrashPoint = {}
    DiskFault = {"compact"}
SPECIFICATION FairSpec
INVARIANTS
    TypeOK
    IteratorFresh
    WalMirrorsMemTable
    ReadInv
PROPERTIES
    ReadsMoveForward
    NoGarbageForever
    EveryCallReturns
\* Clients may stop calling: a state without a successor is a quiet engine.
CHECK_DEADLOCK FALSE
