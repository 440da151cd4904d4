CONSTANTS
  Size <- MCSize
  NrBuffer <- MCNrBuffer
  Lens <- MCLens
  Headers <- MCHeaders
  Stale <- MCStale
  BytesPerUnit <- MCBytesPerUnit
SPECIFICATION Spec
INVARIANT BuffersOutliveReader
