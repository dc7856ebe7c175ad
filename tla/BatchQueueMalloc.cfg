CONSTANTS
  Chunks = {k1, k2, k3}
  NoChunk = NoChunk
  Wild = Wild
  Payloads = {1}
  N = 2
  MaxItems = 4
  MallocFails = TRUE
SPECIFICATION Spec
SYMMETRY ChunkSymmetry
INVARIANTS
  DeliveredAsWritten
CHECK_DEADLOCK FALSE
