SPECIFICATION FairSpec
CONSTANTS
  N = 3
  LaunchOrder <- Launch3
  EarlyReaders <- Writer3
  MayFail <- All
  FatalFail <- Fatal3
  SaHup <- ClearSaHup
  SaInt <- ClearSaInt
  MaxHup = 2
  MaxInt = 1
  MaxNest = 1
  MaxSpurious = 1
PROPERTIES ReloadCompletes WorkersResume StopCompletes
CHECK_DEADLOCK FALSE
