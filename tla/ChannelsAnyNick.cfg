\* Any spelling of nicknames, clients without one, every mode letter.
CONSTANTS
  c1 = c1
  c2 = c2
  c3 = c3
  bob = bob
  Bob = Bob
  al = al
  cy = cy
  anon = anon
  noNick = noNick
  NoNick = noNick
  Fds <- MCFds
  NoFd <- MCNoFd
  Clients = {c1, c2}
  NoKey = noKey
  NoTopic = noTopic
SYMMETRY MCSymmetry
SPECIFICATION Spec
CHECK_DEADLOCK FALSE
CONSTANTS
  Nicks = {bob, Bob, al}
  AnonNicks = {anon}
  Lower <- MCMixed
  ChanNames = {ch1}
  Keys = {key}
  Limits <- MCNoLimits
  Topics = {}
  ModeChars = {"t", "k", "o", "q"}
  NamedOnly = FALSE
  MaxOpCount = 1
INVARIANTS
  TypeOK
  Bookkeeping
  NicksUnique
  NickReaches
