\* Two keys changed by one transaction.
SPECIFICATION Spec
CONSTANTS
    k1 = k1  k2 = k2
    e1 = e1
    s1 = s1  s2 = s2
    Keys = {k1, k2}
    UValues = {e1}
    SValues = {s1, s2}
    Nil = Nil
    NoRecord = NoRecord
INVARIANT SnapshotReads
