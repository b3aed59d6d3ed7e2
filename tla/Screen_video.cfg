SPECIFICATION Spec
CONSTANTS
  Memory = 6
  Bases = {1, 2}
  RingSize = 2
  FrameSizes = {1}
  Pixmaps = {p}
  PixmapSize = 1
  Switching = TRUE
PROPERTY UploadsToOwn
CHECK_DEADLOCK FALSE
