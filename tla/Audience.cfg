\* Two channels, three clients and three names in lower case: who is where, as an
\* abstract chat room service sees it and as the clients themselves do.
CONSTANTS
  c1 = c1
  c2 = c2
  c3 = c3
  bob = bob
  al = al
  cy = cy
  ch1 = ch1
  ch2 = ch2
  noNick = noNick
  NoNick = noNick
  Fds <- MCFds
  NoFd <- MCNoFd
  Clients = {c1, c2, c3}
  NoKey = noKey
  NoTopic = noTopic
SYMMETRY MCSymmetry
SPECIFICATION AudienceSpec
CHECK_DEADLOCK FALSE
CONSTANTS
  Nicks = {bob, al, cy}
  AnonNicks = {}
  Lower <- MCLower
  ChanNames = {ch1, ch2}
  Keys = {}
  Limits <- MCLimits
  Topics = {noTopic}
  ModeChars = {}
  NamedOnly = TRUE
  MaxOpCount = 0
  MaxQuitting = 1
INVARIANTS
  ViewsAgree
PROPERTIES
  RoomsSpec
  FarewellsAreHeard
