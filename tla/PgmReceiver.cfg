SPECIFICATION ReceiverSpec
CONSTANTS
  Tsis = {t1, t2}
  MaxPackets = 6
  NetBound = 2
  MsgvLen = 2
  Capacity = 2
  IndexMod = 3
  Options = 5
SYMMETRY TsiSymmetry
INVARIANTS
  JoinsAtBlock
  GapsSeen
CHECK_DEADLOCK FALSE
