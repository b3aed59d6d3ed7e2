SPECIFICATION Spec
CONSTANTS
  QueueSize = 3
  NumScreens = 2
  Times = {0}
  Jump = 10
  MaxKeys = 2
  MaxMoves = 2
INVARIANT
  OnlyMotionsSwitch
CHECK_DEADLOCK FALSE
