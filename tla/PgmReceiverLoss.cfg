SPECIFICATION ReceiverSpec
CONSTANTS
  Tsis = {t1}
  MaxPackets = 4
  NetBound = 2
  MsgvLen = 2
  Capacity = 2
  IndexMod = 100
  Options = 5
INVARIANT LossDisjoins
CHECK_DEADLOCK FALSE
