\* Two threads in Compact at once that may increment the counter together; no flush
\* beside them.
CONSTANTS
    Key = {k1, k2}
    Compactor = {c1, c2}
    MaxMem = 2
    MaxWrite = 4
    MaxFile = 7
    MaxCrash = 0
    Overlap = {}
    PeerRace = TRUE
    CrashPoint = {}
    DiskFault = {}
SPECIFICATION Spec
SYMMETRY KeySymmetry
INVARIANTS
    FreshFile
\* Clients may stop calling: a state without a successor is a quiet engine.
CHECK_DEADLOCK FALSE
