\* Safety, with every invocation the API allows, nested maintenance included:
\* a callback that drops a table waits for itself, so the system may stop.
SPECIFICATION Spec
CONSTANTS
    c1 = c1  c2 = c2  c3 = c3
    g1 = g1  g2 = g2
    Calls = {c1, c2, c3}
    Goroutines = {g1, g2}
    NoCall = NoCall
    NoGoroutine = NoGoroutine
    TopLevel <- AnyTopLevel
    Nested <- AnyNested
SYMMETRY CallSymmetry
INVARIANTS
    TypeOK
    TokenConserved
    OwnerRecorded
    ClosedIsQuiet
    DeadlockOnlyNested
PROPERTY ImplementsSerialWriter
CHECK_DEADLOCK FALSE
