SPECIFICATION FairSpec
CONSTANTS
  Sizes = {1, 2, 3}
  MaxBytes = 5
  CacheSize = 3
  Capacity = 2
  MaxBatch = 2
  IndexMod = 2
  Options = 5
INVARIANTS
  NothingStuck
  TimersTracked
PROPERTIES
  ImplementsPacketStream
  PushedIsSent
CHECK_DEADLOCK FALSE
