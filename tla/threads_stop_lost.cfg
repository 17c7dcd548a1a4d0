SPECIFICATION Spec
CONSTANTS
  N = 2
  LaunchOrder <- Launch2
  EarlyReaders <- Writer2
  MayFail <- None
  FatalFail <- Fatal2
  SaHup <- ClearSaHup
  SaInt <- ClearSaInt
  MaxHup = 1
  MaxInt = 1
  MaxNest = 1
  MaxSpurious = 0
PROPERTY StopIsFinal
CHECK_DEADLOCK FALSE
