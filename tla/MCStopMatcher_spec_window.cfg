CONSTANTS
  a = a
  b = b
  Bytes <- MCBytes
  StopSeqs <- MCStops
  MinNew = 2
  MaxNew = 5
  ChunkMax = 2

SPECIFICATION Spec
INVARIANT SpecWindowRespected
\* An entry's generation really ends: a terminal stop reason has no successor.
CHECK_DEADLOCK FALSE
