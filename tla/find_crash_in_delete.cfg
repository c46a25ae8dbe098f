\* A crash while a compaction deletes its input files.
CONSTANTS
    Key = {k1, k2}
    Compactor = {c1}
    MaxMem = 2
    MaxWrite = 4
    MaxFile = 5
    MaxCrash = 0
    Overlap = {}
    PeerRace = TRUE
    CrashPoint = {}
    DiskFault = {}
SPECIFICATION Spec
SYMMETRY KeySymmetry
INVARIANTS
    CrashNowIsSafe
\* Clients may stop calling: a state without a successor is a quiet engine.
CHECK_DEADLOCK FALSE
