SPECIFICATION Spec
CONSTANTS
    k1 = k1  k2 = k2  k3 = k3
    e1 = e1  e2 = e2
    s1 = s1  s2 = s2
    Keys = {k1, k2, k3}
    UValues = {e1, e2}
    SValues = {s1, s2}
    Nil = Nil
    NoRecord = NoRecord
SYMMETRY ValueSymmetry
INVARIANTS
    TypeOK
    QueriesSeeOwnWrites
    ExistenceIsExact
    FindMissesOnlyReinserted
    CommitAppliesAll
    SecondaryCoherent
    UniqueSound
    ReadersSeeOldOrNew
