SPECIFICATION Spec
CONSTANTS
  Client = {1, 2}
  BUFSIZE = 6
  BUFWATERMARK = 7
  MAXBUFSIZE = 8
  MAXCARD32 = 9
  Plain = {1}
  Big = {1,4}
  Noise = 5
  Restart = TRUE
  MaxSent = 3
INVARIANTS
  RequestsFramed
  BuffersOwned
  BufferedNoticed
CHECK_DEADLOCK FALSE
