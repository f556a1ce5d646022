\* A founder in lower case who sends the mode letter q.
CONSTANTS
  c1 = c1
  c2 = c2
  c3 = c3
  bob = bob
  Bob = Bob
  al = al
  cy = cy
  anon = anon
  noNick = noNick
  NoNick = noNick
  Fds <- MCFds
  NoFd <- MCNoFd
  Clients = {c1, c2}
  NoKey = noKey
  NoTopic = noTopic
SPECIFICATION Spec
CHECK_DEADLOCK FALSE
CONSTANTS
  Nicks = {bob, al}
  AnonNicks = {}
  Lower <- MCLowerTwo
  ChanNames = {ch1}
  Keys = {}
  Limits <- MCNoLimits
  Topics = {}
  ModeChars = {"o", "q"}
  NamedOnly = TRUE
  MaxOpCount = 1
INVARIANTS
  StaysUp
