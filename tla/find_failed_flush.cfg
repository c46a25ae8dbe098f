\* The SSTable file of a flush cannot be written.
CONSTANTS
    Key = {k1, k2}
    Compactor = {}
    MaxMem = 2
    MaxWrite = 4
    MaxFile = 5
    MaxCrash = 0
    Overlap = {}
    PeerRace = TRUE
    CrashPoint = {}
    DiskFault = {"flush"}
SPECIFICATION Spec
SYMMETRY KeySymmetry
INVARIANTS
    GetFresh
\* Clients may stop calling: a state without a successor is a quiet engine.
CHECK_DEADLOCK FALSE
