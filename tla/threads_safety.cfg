SPECIFICATION Spec
CONSTANTS
  N = 3
  LaunchOrder <- Launch3
  EarlyReaders <- Writer3
  MayFail <- All
  FatalFail <- Fatal3
  SaHup <- AnySaHup
  SaInt <- AnySaInt
  MaxHup = 2
  MaxInt = 1
  MaxNest = 2
  MaxSpurious = 1
INVARIANTS TypeOK IInv ConfSafe FreedOnce ReloadLeavesNothing
CHECK_DEADLOCK FALSE
