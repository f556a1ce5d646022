\* A message of which send() took a part first.
CONSTANTS
  c1 = c1
  c2 = c2
  short = short
  other = other
  long = long
  NoOne = noOne
  Clients = {c1, c2}
  Msgs = {short, long}
  Size <- MCSize
  Cap = 2
  SizeMod = 8
  MaxPosts = 2
SPECIFICATION Spec
CHECK_DEADLOCK FALSE
INVARIANTS
  StreamIntact
