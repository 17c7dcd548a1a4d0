CONSTANTS
  W = 1024
  Retentions <- TwoRings
  AggFound = TRUE
  Method = "average"
  XffNum = 0
  XffDen = 2
  Timestamps <- TwoTurns
  Values = {1, 2}
  InOrder = TRUE
  IOFails = FALSE
SPECIFICATION Spec
PROPERTY AggregatesAll
CHECK_DEADLOCK FALSE
