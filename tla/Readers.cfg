\* Two records, two reads at a time, two writes: a read may last over a commit and meet
\* its page taken by the next write, and one read may meet what another has done.
CONSTANTS
    Keys = {k1, k2}
    Readers = {r1, r2}
    MaxWrites = 2
SYMMETRY Symmetry
SPECIFICATION Spec
INVARIANTS
    
    MissingOnly
    ErrorOnly
    WritesArrive
CHECK_DEADLOCK FALSE
