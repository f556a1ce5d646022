\* Lower-case names, one channel, the modes that decide who gets in and who rules.
CONSTANTS
  c1 = c1
  c2 = c2
  c3 = c3
  bob = bob
  Bob = Bob
  al = al
  cy = cy
  anon = anon
  noNick = noNick
  NoNick = noNick
  Fds <- MCFds
  NoFd <- MCNoFd
  Clients = {c1, c2, c3}
  NoKey = noKey
  NoTopic = noTopic
SYMMETRY MCSymmetry
SPECIFICATION Spec
CHECK_DEADLOCK FALSE
CONSTANTS
  Nicks = {bob, al, cy}
  AnonNicks = {}
  Lower <- MCLowerSmall
  ChanNames = {ch1}
  Keys = {}
  Limits <- MCLimits
  Topics = {}
  ModeChars = {"i", "l", "o"}
  NamedOnly = TRUE
  MaxOpCount = 2
INVARIANTS
  ListsAgree
  NoGhosts
PROPERTIES
  OperatorAuthority
  Admission
