SPECIFICATION Spec
CONSTANTS
  Pixmaps = {p, q}
  Locked = {cmdq}
  Base = 2
  MemorySize = 5
  Align = 2
INVARIANT
  Validate
CHECK_DEADLOCK FALSE
