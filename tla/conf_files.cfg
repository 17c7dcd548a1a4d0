SPECIFICATION Spec
CONSTANTS
  Wrap = 8388608
  LongMax = 33554432
  ConfDir <- TwoDirs
  SYSCONFDIR = "etc"
  LOCALSTATEDIR = "lib"
  CarbonContents <- Carbons
  SchemaContents <- Schemas
  AggregationContents <- Aggregations
  InitialFiles <- FirstFiles
  Options <- AnyOptions
  Name <- Names
  Matching <- Match
  BadPattern = {"(("}
  Timestamps = {60, 200}
  DirFails = TRUE
  MaxEdits = 2
  MaxHup = 2
  MaxFiles = 1
INVARIANTS TypeOK RulesAsWritten ReloadEqualsRestart FirstMatchWins 
PROPERTY DirsSuffice
CHECK_DEADLOCK FALSE
