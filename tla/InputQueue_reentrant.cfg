SPECIFICATION Spec
CONSTANTS
  QueueSize = 4
  NumScreens = 1
  Times = {0}
  Jump = 10
  MaxKeys = 1
  MaxMoves = 2
INVARIANT
  ClicksWherePointed
CHECK_DEADLOCK FALSE
