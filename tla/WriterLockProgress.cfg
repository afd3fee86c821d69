\* Liveness under the documented guidelines.
SPECIFICATION FairSpec
CONSTANTS
    c1 = c1  c2 = c2  c3 = c3
    g1 = g1  g2 = g2
    Calls = {c1, c2, c3}
    Goroutines = {g1, g2}
    NoCall = NoCall
    NoGoroutine = NoGoroutine
    TopLevel <- GuidedTopLevel
    Nested <- GuidedNested
PROPERTY CallsReturn
