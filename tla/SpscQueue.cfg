CONSTANTS
  Payloads = {1, 2}
  MaxItems = 4
SPECIFICATION OrderSpec
INVARIANTS
  TypeOK
  DeliveredInOrder
  NoLostWakeup
  CellsNotShared
  WholeMessages
  ReadsPublished
PROPERTIES
  FlushedStays
  FlushedIsRead
  ImplementsChannel
