CONSTANTS
    Files <- MCFiles
    Heap <- MCHeap
    KeyOrder <- MCKeyOrder
    Digits <- MCDigits
    DefColor <- MCDefColor

SPECIFICATION Spec

INVARIANTS
    TypeOK
    ThemeFollowsFile
