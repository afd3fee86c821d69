\* The comment at the torn end of the WAL in ReadAllRecords.
CONSTANTS
    Keys = {k1}
    Values = {v1, v2}
    None = None
    MaxTransactions = 2
    MaxCrashes = 2
    Faults = {"torn", "io", "restore", "scan"}
SPECIFICATION Spec
SYMMETRY ValueSymmetry
INVARIANT TornEndTolerated
CHECK_DEADLOCK FALSE
