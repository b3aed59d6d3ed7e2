SPECIFICATION Spec
CONSTANTS
  Pixmaps = {p, q}
  Colors = {white, black}
  MemorySize = 3
  DoneWaits = TRUE
  UploadHook = TRUE
  Tiles = TRUE
  ScoreMove = 2
  ScoreLimit = 2
  MaxQueue = 1
SYMMETRY Symmetry
INVARIANTS
  TypeOK
  AreasOwned
PROPERTIES
  StoreSpec
