SPECIFICATION Spec
CONSTANTS
  MaxConnects = 2
  MaxWrites = 3
INVARIANTS
  NeverSilent
  ReadsInOrder
  HeartbeatAfterLogon
  WritesKept
CHECK_DEADLOCK FALSE
