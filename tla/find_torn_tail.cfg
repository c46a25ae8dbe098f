\* Two crashes, the first inside Append; no compaction.
CONSTANTS
    Key = {k1, k2}
    Compactor = {}
    MaxMem = 2
    MaxWrite = 4
    MaxFile = 5
    MaxCrash = 2
    Overlap = {}
    PeerRace = TRUE
    CrashPoint = {"torn"}
    DiskFault = {}
SPECIFICATION Spec
SYMMETRY KeySymmetry
INVARIANTS
    IteratorFresh
\* Clients may stop calling: a state without a successor is a quiet engine.
CHECK_DEADLOCK FALSE
