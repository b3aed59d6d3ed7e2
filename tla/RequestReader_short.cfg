SPECIFICATION Spec
CONSTANTS
  Client = {1}
  BUFSIZE = 6
  BUFWATERMARK = 8
  MAXBUFSIZE = 10
  MAXCARD32 = 11
  Plain = {1}
  Big = {1}
  Noise = 3
  Restart = FALSE
  MaxSent = 2
INVARIANT AlwaysFramed
CHECK_DEADLOCK FALSE
