\* Two tables, up to three schema changes, two rows and three sessions.
CONSTANTS
    t1 = t1
    t2 = t2
    Tables <- MCTables
    MaxRows = 2
    MaxChanges = 3
    MaxSessions = 3
SPECIFICATION Spec
SYMMETRY MCSymmetry
INVARIANTS
    TableLostOnly
    TableBackOnly
    RowsWrongOnly
CHECK_DEADLOCK FALSE
