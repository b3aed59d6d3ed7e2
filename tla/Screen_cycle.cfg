SPECIFICATION FairSpec
CONSTANTS
  Memory = 5
  Bases = {1, 2}
  RingSize = 2
  FrameSizes = {1, 2}
  Pixmaps = {p}
  PixmapSize = 1
  Switching = TRUE
INVARIANTS
  RingServed
  DownReleased
  OnOwnTerminal
PROPERTY LeaveGranted
CHECK_DEADLOCK FALSE
