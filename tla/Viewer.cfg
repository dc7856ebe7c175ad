SPECIFICATION Spec
CONSTANTS
  Nodes = {"n1", "n2"}
  Statuses <- MCStatuses
  MaxCalls = 2
  Config <- MCConfig
  Points = 3
INVARIANTS
  RowsKnown
  PointsInOrder
  ChartsUnderTheirName
CHECK_DEADLOCK FALSE
PROPERTIES
  ListTellsTruth
