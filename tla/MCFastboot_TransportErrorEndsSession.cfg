CONSTANTS
    DownloadMax <- MCDownloadMax
    DownLens <- MCDownLens
    Lines <- MCLines
    MaxCmds <- MCMaxCmds
    MaxConns <- MCMaxConns
SPECIFICATION Spec
INVARIANT TransportErrorEndsSession
