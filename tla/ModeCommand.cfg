\* MODE with up to three arguments of any shape, on a channel of one or two members
\* with any earlier operators, key and counter.
CONSTANTS
  c1 = c1
  c2 = c2
  bob = bob
  Bob = Bob
  al = al
  noNick = noNick
  two = two
  many = many
  blank = blank
  NoNick = noNick
  Fds <- MCFds
  NoFd <- MCNoFd
  Clients = {c1, c2}
  NoKey = blank
  NoTopic = noTopic
SYMMETRY MCSymmetry
SPECIFICATION ModeSpec
CHECK_DEADLOCK FALSE
CONSTANTS
  Nicks = {Bob, al}
  AnonNicks = {bob}
  Lower <- MCLower
  ChanNames = {ch1}
  Keys <- MCKeys
  Limits <- MCLimits
  Topics = {}
  ModeChars = {"i", "t", "k", "l", "o", "q"}
  NamedOnly = TRUE
  MaxOpCount = 2
  Words <- MCWords
  Plain <- MCPlain
  LimitOf <- MCLimitOf
  MaxWords = 3
INVARIANTS
  ModeTypeOK
  ReadsWhatWasChecked
  SettingsMatchModes
  LettersAnnounced
  ParameterAnnounced
PROPERTIES
  OneLetterIsOneStep
