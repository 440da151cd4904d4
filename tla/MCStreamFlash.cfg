CONSTANTS
  Size <- MCSize
  NrBuffer <- MCNrBuffer
  Lens <- MCLens
  Headers <- MCHeaders
  Stale <- MCStale
  BytesPerUnit <- MCBytesPerUnit
SPECIFICATION Spec
INVARIANT TypeOK
PROPERTY ImplementsChannel
INVARIANT DrainAccounting
INVARIANT FilterFromPayload
PROPERTY Termination
INVARIANT OkayMeansExt4Checked
