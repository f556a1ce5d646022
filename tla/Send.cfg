\* Messages the socket takes whole, or not at all.
CONSTANTS
  c1 = c1
  c2 = c2
  short = short
  other = other
  long = long
  NoOne = noOne
  Clients = {c1, c2}
  Msgs = {short, other}
  Size <- MCSizeShort
  Cap = 1
  SizeMod = 8
  MaxPosts = 3
SPECIFICATION FairSpec
CHECK_DEADLOCK FALSE
INVARIANTS
  QueueArmed
  QuitHasEvent
  NoLostWakeup
PROPERTIES
  OutboxSpec
  MessagesArrive
  QuitLeaves
