\* Two sessions, with descriptors for both at a time.
CONSTANTS
  Clients = {1, 2}
  NoFd = 0
  First = 6
  Limit = 9
  ListenFd = 3
  SignalFd = 5
  MaxUnread = 2
  NoClient = 0
SPECIFICATION FairLoopSpec
CHECK_DEADLOCK FALSE
INVARIANTS
  LoopTypeOK
  NothingLeaks
  InputNotTaken
  OwnTimer
  EventsReachOwners
  InputNoticed
  OutputNoticed
PROPERTIES
  InputIsRead
  StopsWhenTold
