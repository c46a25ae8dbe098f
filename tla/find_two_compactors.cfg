\* Two threads in Compact at once and flushes beside them.
CONSTANTS
    Key = {k1, k2}
    Compactor = {c1, c2}
    MaxMem = 1
    MaxWrite = 3
    MaxFile = 7
    MaxCrash = 0
    Overlap = {"snapshot", "build"}
    PeerRace = FALSE
    CrashPoint = {}
    DiskFault = {}
SPECIFICATION Spec
SYMMETRY KeySymmetry
INVARIANTS
    IteratorFresh
\* Clients may stop calling: a state without a successor is a quiet engine.
CHECK_DEADLOCK FALSE
