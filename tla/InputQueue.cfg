SPECIFICATION FairSpec
CONSTANTS
  QueueSize = 4
  NumScreens = 2
  Times = {0, 1}
  Jump = 10
  MaxKeys = 3
  MaxMoves = 2
INVARIANT
  TimesOrdered
PROPERTIES
  KeysInOrder
  KeysTaken
  ReaderReturns
  SpriteCatchesUp
CHECK_DEADLOCK FALSE
