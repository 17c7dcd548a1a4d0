SPECIFICATION FairSpec
CONSTANTS
  SockFails = TRUE
  IOFails = TRUE
  ConfFails = TRUE
  Limit = 4
  MaxHup = 1
  MaxLines = 2
INVARIANTS TypeOK ArrivalOrder
PROPERTIES WriterGetsFile LinesHanded
CHECK_DEADLOCK FALSE
