CONSTANTS
    Percents <- MCPercents
    MaxCalls <- MCMaxCalls
    NrLines <- MCNrLines
    Width <- MCWidth
    FontWidth <- MCFontWidth
    Advance <- MCAdvance
    LineLenInChar <- MCLineLenInChar
    Msgs <- MCMsgs
    Heap <- MCHeap
    MaxLogs <- MCMaxLogs
SPECIFICATION UiSpec
CHECK_DEADLOCK FALSE
INVARIANTS
    UiTypeOK
    ShowsLatest
PROPERTIES
    BounceStops
