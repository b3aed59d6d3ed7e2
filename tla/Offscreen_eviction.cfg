SPECIFICATION Spec
CONSTANTS
  Pixmaps = {p, q}
  Locked = {cmdq}
  Base = 2
  MemorySize = 5
  Align = 1
INVARIANT
  EvictionMakesSpace
CHECK_DEADLOCK FALSE
