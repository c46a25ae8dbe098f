\* A compaction that uses up a number, then two orderly restarts; no crash inside an
\* operation.
CONSTANTS
    Key = {k1, k2}
    Compactor = {c1}
    MaxMem = 2
    MaxWrite = 4
    MaxFile = 5
    MaxCrash = 2
    Overlap = {}
    PeerRace = TRUE
    CrashPoint = {}
    DiskFault = {}
SPECIFICATION Spec
SYMMETRY KeySymmetry
INVARIANTS
    IteratorFresh
\* Clients may stop calling: a state without a successor is a quiet engine.
CHECK_DEADLOCK FALSE
