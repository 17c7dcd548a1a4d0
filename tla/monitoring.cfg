SPECIFICATION FairSpec
CONSTANTS
  Second = 3
  MaxWrites = 2
  MaxReports = 2
  MaxLag = 1
INVARIANTS TypeOK PointsReportedOnce OncePerSecond
PROPERTY PointsGetReported
CHECK_DEADLOCK FALSE
