\* Trees of five, nine or ten entries, the tenth with a long key, and up to three levels,
\* changed by up to three operations, in the same transaction and up to three more.
CONSTANTS
    Keys <- MCKeys
    Load <- MCLoad
    LoadSizes = {5, 9, 10}
    Size <- MCSize
    LeafCapacity = 3
    NodeCapacity = 2
    MergeLimit = 2
    MaxGeneration = 4
    MaxOperations = 3
SPECIFICATION Spec
INVARIANTS
    FindExact
    PagesAccounted
    Balanced
    ScanExact
    ConfusedOnly
    FailsOnly
CHECK_DEADLOCK FALSE
