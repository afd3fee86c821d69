\* A primary and a secondary index, four transactions, two crashes; one free page
\* fits in the catalog.
CONSTANTS
    primary = primary
    secondary = secondary
    Names <- MCNames
    Primary = primary
    MaxFree = 1
    MaxTransactions = 4
    MaxCrashes = 2
SPECIFICATION Spec
INVARIANTS
    PagesOwned
    NextLostOnly
    UnopenableOnly
PROPERTY ImplementsAtomic
CHECK_DEADLOCK FALSE
