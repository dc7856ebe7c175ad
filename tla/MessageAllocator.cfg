CONSTANTS
  Msgs = {m1, m2, m3}
  Nil = Nil
  Requests <- MCRequests
  MaxIdle = 3
  Capacities <- MCCapacities
SPECIFICATION Spec
SYMMETRY MsgSymmetry
INVARIANTS
  EachInOnePlace
  ReusedBeforeNew
  ListFits
CHECK_DEADLOCK FALSE
