\* One key: commits, compactions and reopenings with every fault, and two crashes anywhere.
CONSTANTS
    Keys = {k1}
    Values = {v1, v2}
    None = None
    MaxTransactions = 2
    MaxCrashes = 2
    Faults = {"torn", "io", "restore", "scan"}
SPECIFICATION Spec
SYMMETRY ValueSymmetry
INVARIANTS
    ServesCommitted
    IndexesRecovered
    NoDanglingPointers
    GenerationsDistinct
    OpenFailsOnly
    FailedRecoveredOnly
CHECK_DEADLOCK FALSE
