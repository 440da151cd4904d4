CONSTANTS
    Supplies <- MCSupplies
    Files <- MCFilesStale
    WdGarbage <- MCWdZero
    Garbage <- MCGarbage
    NULL = NULL
    Junk = Junk
SPECIFICATION Spec
INVARIANTS
    CapacityFromCurrentFile
