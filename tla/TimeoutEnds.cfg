\* A timer that runs out.
CONSTANTS
  c1 = c1
  c2 = c2
  c3 = c3
  c4 = c4
  Clients = {c1, c2, c3, c4}
  NoFd = 0
  First = 6
  Limit = 9
SPECIFICATION Spec
CHECK_DEADLOCK FALSE
PROPERTIES
  TimeoutIsHandled
