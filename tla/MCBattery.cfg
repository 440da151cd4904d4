CONSTANTS
    Supplies <- MCSupplies
    Files <- MCFiles
    WdGarbage <- MCWdGarbage
    Garbage <- MCGarbage
    NULL = NULL
    Junk = Junk
SPECIFICATION Spec
INVARIANTS
    TypeOK
    UsableStatus
