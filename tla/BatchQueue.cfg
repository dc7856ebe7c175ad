CONSTANTS
  Chunks = {k1, k2, k3, k4}
  NoChunk = NoChunk
  Wild = Wild
  Payloads = {1}
  N = 2
  MaxItems = 6
  MallocFails = FALSE
SPECIFICATION Spec
SYMMETRY ChunkSymmetry
INVARIANTS
  ChunksOwnedOnce
  PointersInList
  UnpushStaysInList
PROPERTIES
  ImplementsSpscQueue
CHECK_DEADLOCK FALSE
