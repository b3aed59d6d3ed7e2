SPECIFICATION Spec
CONSTANTS
  Memory = 6
  Bases = {1, 2}
  RingSize = 2
  FrameSizes = {1, 2}
  Pixmaps = {p}
  PixmapSize = 1
  Switching = FALSE
PROPERTY UploadsToOwn
CHECK_DEADLOCK FALSE
