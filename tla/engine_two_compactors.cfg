\* Two threads in Compact at once that increment the counter one after the other, whose
\* files may fail to be written or opened, and no flush while one of them is in Compact.
CONSTANTS
    Key = {k1, k2}
    Compactor = {c1, c2}
    MaxMem = 2
    MaxWrite = 4
    MaxFile = 7
    MaxCrash = 0
    Overlap = {}
    PeerRace = FALSE
    CrashPoint = {}
    DiskFault = {"compact", "open"}
SPECIFICATION Spec
SYMMETRY KeySymmetry
INVARIANTS
    GetFresh
    PeerInv
\* Clients may stop calling: a state without a successor is a quiet engine.
CHECK_DEADLOCK FALSE
