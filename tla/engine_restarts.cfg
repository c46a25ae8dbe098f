\* Three restarts, orderly or between two writes, and no compaction.
CONSTANTS
    Key = {k1, k2}
    Compactor = {}
    MaxMem = 2
    MaxWrite = 4
    MaxFile = 5
    MaxCrash = 3
    Overlap = {}
    PeerRace = TRUE
    CrashPoint = {"append"}
    DiskFault = {}
SPECIFICATION Spec
SYMMETRY KeySymmetry
INVARIANTS
    CrashNowIsSafe
PROPERTIES
    ImplementsMap
\* Clients may stop calling: a state without a successor is a quiet engine.
CHECK_DEADLOCK FALSE
