\* The merged file is whole but cannot be opened; one orderly restart.
CONSTANTS
    Key = {k1, k2}
    Compactor = {c1}
    MaxMem = 2
    MaxWrite = 4
    MaxFile = 6
    MaxCrash = 1
    Overlap = {}
    PeerRace = TRUE
    CrashPoint = {}
    DiskFault = {"open"}
SPECIFICATION Spec
SYMMETRY KeySymmetry
INVARIANTS
    IteratorFresh
\* Clients may stop calling: a state without a successor is a quiet engine.
CHECK_DEADLOCK FALSE
