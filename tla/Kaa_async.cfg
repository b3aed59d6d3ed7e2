SPECIFICATION Spec
CONSTANTS
  Pixmaps = {p, q}
  Colors = {white, black}
  MemorySize = 2
  DoneWaits = FALSE
  UploadHook = FALSE
  Tiles = FALSE
  ScoreMove = 2
  ScoreLimit = 2
  MaxQueue = 1
SYMMETRY Symmetry
INVARIANTS
  SyncFlagged
  OpsCurrent
PROPERTIES
  StoreSpec
