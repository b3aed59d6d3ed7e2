SPECIFICATION Spec
CONSTANTS
  Client = {1}
  BUFSIZE = 6
  BUFWATERMARK = 8
  MAXBUFSIZE = 10
  MAXCARD32 = 11
  Plain = {0, 1}
  Big = {}
  Noise = 3
  Restart = FALSE
  MaxSent = 3
INVARIANT BufferedNoticed
CHECK_DEADLOCK FALSE
