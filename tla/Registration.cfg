\* Three sessions over two descriptors, after two spellings of one nickname, in every
\* order of commands.
CONSTANTS
  c1 = c1
  c2 = c2
  c3 = c3
  bob = bob
  Bob = Bob
  anon = anon
  noNick = noNick
  NoNick = noNick
  NoClient = noClient
  Clients = {c1, c2, c3}
  Nicks = {bob, Bob}
  AnonNicks = {anon}
  Lower <- MCLower
  Fds <- MCFds
  NoFd <- MCNoFd
SYMMETRY MCSymmetry
SPECIFICATION Spec
CHECK_DEADLOCK FALSE
INVARIANTS
  TypeOK
  RegisteredProperly
PROPERTIES
  GateHolds
