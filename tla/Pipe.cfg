CONSTANT
  Quota <- MCQuota
SPECIFICATION FairSpec
INVARIANTS
  NoLostNotification
  PeerOutlivesWriter
  CycleBroken
  EndAtNull
PROPERTIES
  BlockedReadReturns
CHECK_DEADLOCK FALSE
