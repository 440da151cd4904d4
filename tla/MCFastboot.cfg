CONSTANTS
    DownloadMax <- MCDownloadMax
    DownLens <- MCDownLens
    Lines <- MCLines
    MaxCmds <- MCMaxCmds
    MaxConns <- MCMaxConns
SPECIFICATION Spec
INVARIANTS
    TypeOK
    OneAnswerPerCommand
    DownloadSizeSound
    DispatchMostSpecific
PROPERTIES
    BacklightFollowsDiagram
