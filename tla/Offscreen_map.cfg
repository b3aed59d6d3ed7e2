SPECIFICATION FairSpec
CONSTANTS
  Pixmaps = {p, q, r}
  Locked = {cmdq}
  Base = 1
  MemorySize = 9
  Align = 2
INVARIANTS
  Tiled
  Coalesced
PROPERTIES
  MapSpec
  SwapOutEnds
CHECK_DEADLOCK FALSE
