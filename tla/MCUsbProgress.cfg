CONSTANTS
    Lens <- MCLens
    Xfer <- MCXfer
SPECIFICATION Spec
INVARIANTS
    TypeOK
    ReadsWholePayload
