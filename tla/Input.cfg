\* Every stream of up to six pieces, cut by a recv() of three bytes.
CONSTANTS
  CR = cr
  LF = lf
  Blank = blank
  Colon = colon
  w = w
  Pieces <- MCPieces
  BufSize = 3
  MaxPieces = 6
SPECIFICATION Spec
CHECK_DEADLOCK FALSE
INVARIANTS
  TypeOK
  CommandsAreOfTheirLine
  RoundTrip
  NothingForgotten
PROPERTIES
  LinesSpec
