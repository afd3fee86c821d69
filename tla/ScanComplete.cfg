\* A tree of four leaves and one more transaction.
CONSTANTS
    Keys <- MCKeys
    Load <- MCLoad
    LoadSizes = {9}
    Size <- MCSize
    LeafCapacity = 3
    NodeCapacity = 2
    MergeLimit = 2
    MaxGeneration = 2
    MaxOperations = 1
SPECIFICATION Spec
INVARIANT ScanComplete
CHECK_DEADLOCK FALSE
