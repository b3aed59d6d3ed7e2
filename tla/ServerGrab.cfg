SPECIFICATION Spec
CONSTANTS
  MaxClients = 256
  Client = {1,33}
  Controlling = {1,33}
  MaxRequests = 2
INVARIANTS
  GrabExclusive
  HeardWhenFree
  InputNoticed
CHECK_DEADLOCK FALSE
