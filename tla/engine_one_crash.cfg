\* One crash in any step of a write, a flush or a compaction that has not begun
\* to delete files; flushes do not run before the compaction has its number.
CONSTANTS
    Key = {k1, k2}
    Compactor = {c1}
    MaxMem = 2
    MaxWrite = 4
    MaxFile = 5
    MaxCrash = 1
    Overlap = {"build"}
    PeerRace = TRUE
    CrashPoint = {"append", "torn", "flush", "compact"}
    DiskFault = {"compact"}
SPECIFICATION Spec
SYMMETRY KeySymmetry
INVARIANTS
    FreshFile
    NumberedByAge
    ActiveWalLinked
PROPERTIES
    ImplementsMap
\* Clients may stop calling: a state without a successor is a quiet engine.
CHECK_DEADLOCK FALSE
