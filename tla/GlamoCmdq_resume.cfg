SPECIFICATION FairSpec
CONSTANTS
  RingCount = 7
  SolidWords = 2
  CopyWords = 3
  FrameWords = 4
  MaxWords = 20
  Timeouts = FALSE
INVARIANTS
  WritePtrIsIndex
