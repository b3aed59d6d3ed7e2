SPECIFICATION ServerSpec
CONSTANTS
  RingCount = 5
  SolidWords = 2
  CopyWords = 3
  FrameWords = 4
  MaxWords = 8
  Timeouts = TRUE
INVARIANTS
  TypeOK
  RingNeverWraps
  NoBlankAhead
PROPERTIES
  UnfetchedKept
  ServerReturns
