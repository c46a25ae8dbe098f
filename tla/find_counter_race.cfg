\* Flushes run while a compaction increments the counter without the lock.
CONSTANTS
    Key = {k1, k2}
    Compactor = {c1}
    MaxMem = 2
    MaxWrite = 4
    MaxFile = 5
    MaxCrash = 0
    Overlap = {"snapshot", "counter", "build"}
    PeerRace = TRUE
    CrashPoint = {}
    DiskFault = {}
SPECIFICATION Spec
SYMMETRY KeySymmetry
INVARIANTS
    ActiveWalLinked
\* Clients may stop calling: a state without a successor is a quiet engine.
CHECK_DEADLOCK FALSE
