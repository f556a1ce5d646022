------------------------------- MODULE Input -------------------------------
(***************************************************************************)
(* The way of a command into the server: recv() in                         *)
(* Server::handleReadEvent, Client::_read_buff, which keeps what is not yet *)
(* a line, Client::extractAndParseNextCommand and IrcMessage::parse, whose  *)
(* result replaces the message before it in the Client's one IrcMessage.    *)
(*                                                                         *)
(* A byte is a character class: CR, LF, Blank, Colon or part of a word.     *)
(* One client; the loop of handleReadEvent is a step per line, and the peer *)
(* goes on sending meanwhile.                                               *)
(***************************************************************************)
EXTENDS Naturals, SequencesExt

CONSTANTS
  CR, LF, Blank, Colon,
  Pieces,     \* what the peer appends to its stream at a time
  BufSize,    \* bytes one recv() takes at most, BUFFER_SIZE - 1
  MaxPieces   \* bound on the pieces of a run

Bytes == {CR, LF, Blank, Colon} \cup UNION {ToSet(p) : p \in Pieces}

ASSUME InputAssumption ==
  /\ BufSize \in Nat \ {0}
  /\ MaxPieces \in Nat
  /\ \A p \in Pieces : p \in Seq(Bytes) /\ Len(p) > 0
  /\ CR # LF /\ {CR, LF} \cap {Blank, Colon} = {} /\ Blank # Colon

VARIABLES
  said,      \* all the peer has sent
  pieces,    \* how many pieces that is
  taken,     \* how many of its bytes recv() has returned
  edge,      \* epoll has an EPOLLIN edge to report
  full,      \* the last recv() filled its buffer
  reading,   \* handleReadEvent is in its loop
  readBuff,  \* Client::_read_buff
  msg,       \* _prefix, _command and _paramsList of Client::_msg
  heard,     \* the lines extracted
  handled    \* the messages a command of which dispatchCommand has looked up

vars == <<said, pieces, taken, edge, full, reading, readBuff, msg, heard, handled>>

NoMessage == [prefix |-> <<>>, command |-> <<>>, params |-> <<>>]

Init ==
  /\ said = <<>>
  /\ pieces = 0
  /\ taken = 0
  /\ edge = FALSE
  /\ full = FALSE
  /\ reading = FALSE
  /\ readBuff = <<>>
  /\ msg = NoMessage
  /\ heard = <<>>
  /\ handled = <<>>

-----------------------------------------------------------------------------
(* IrcMessage::parse                                                        *)

White == {CR, LF, Blank}

From(s, k) == SubSeq(s, k, Len(s))

\* The least position of set, or one past the end of s.
FirstOf(s, set) == Min(set \cup {Len(s) + 1})

\* ss >> token: white space is skipped and what comes before the next is taken.
TokenStart(s) == FirstOf(s, {k \in 1..Len(s) : s[k] \notin White})

\* Faulty variant: only a blank ends a token.
TokenEndAtBlank(s) == FirstOf(s, {k \in TokenStart(s)..Len(s) : s[k] = Blank})

TokenEnd(s) == FirstOf(s, {k \in TokenStart(s)..Len(s) : s[k] \in White})
Token(s) == SubSeq(s, TokenStart(s), TokenEnd(s) - 1)
AfterToken(s) == From(s, TokenEnd(s))

\* getline(ss, rest): up to a line feed, and nothing is read beyond it.
Getline(s) == SubSeq(s, 1, FirstOf(s, {k \in 1..Len(s) : s[k] = LF}) - 1)

\* The line ends that a line ends with are dropped.
Chomp(s) == SubSeq(s, 1, Max({k \in 1..Len(s) : s[k] \notin {CR, LF}} \cup {0}))

\* find_first_not_of(" ").
SkipBlanks(s) == From(s, FirstOf(s, {k \in 1..Len(s) : s[k] # Blank}))

IsTrailing(token) == token # <<>> /\ Head(token) = Colon

\* A parameter that begins with a colon takes the rest of the line.
Parameters(s) ==
  LET Cut[k \in 1..Len(s) + 1] ==
        LET rest == From(s, k)
        IN  IF Token(rest) = <<>> THEN <<>>
            ELSE IF IsTrailing(Token(rest))
              THEN <<Tail(Token(rest)) \o Getline(AfterToken(rest))>>
            ELSE <<Token(rest)>> \o Cut[k + TokenEnd(rest) - 1]
  IN  Cut[1]

\* There is always a first parameter, an empty one if need be.
ParametersOf(s) == IF Parameters(s) = <<>> THEN <<(<<>>)>> ELSE Parameters(s)

\* Faulty variant: the message before is not cleared.
ParsedOver(line, old) ==
  LET content == Chomp(line)
  IN  IF Token(content) = <<>> THEN old
      ELSE [prefix |-> <<>>, command |-> Token(content),
            params |-> ParametersOf(SkipBlanks(Getline(AfterToken(content))))]

\* The message after parse(line), old being the one before.  What parse returns is
\* not looked at, so the message of a line without a command is dispatched too.
Parsed(line, old) ==
  LET content  == Chomp(line)
      prefixed == IsTrailing(Token(content))
      body     == IF prefixed THEN AfterToken(content) ELSE content
  IN  IF Token(body) = <<>> THEN NoMessage
      ELSE [prefix  |-> IF prefixed THEN Tail(Token(content)) ELSE <<>>,
            command |-> Token(body),
            params  |-> ParametersOf(SkipBlanks(Getline(AfterToken(body))))]

\* Faulty variant: no parameter is written as a trailing one.
ToRawStringPlain(m) ==
  (IF m.prefix = <<>> THEN <<>> ELSE <<Colon>> \o m.prefix \o <<Blank>>)
  \o m.command \o FlattenSeq([k \in DOMAIN m.params |-> <<Blank>> \o m.params[k]])
  \o <<CR, LF>>

\* IrcMessage::toRawString: the last parameter is always written as a trailing one.
ToRawString(m) ==
  LET last == Len(m.params)
      Written(k) == <<Blank>> \o (IF k = last THEN <<Colon>> ELSE <<>>) \o m.params[k]
  IN  (IF m.prefix = <<>> THEN <<>> ELSE <<Colon>> \o m.prefix \o <<Blank>>)
      \o m.command \o FlattenSeq([k \in 1..last |-> Written(k)]) \o <<CR, LF>>

-----------------------------------------------------------------------------
(* Reading                                                                  *)

\* The peer sends, or the network delivers, some more: an EPOLLIN edge.
Send(p) ==
  /\ pieces < MaxPieces
  /\ said' = said \o p
  /\ pieces' = pieces + 1
  /\ edge' = TRUE
  /\ UNCHANGED <<taken, full, reading, readBuff, msg, heard, handled>>

\* Faulty variant: an incomplete line is forgotten by the next recv().
AppendedAfresh(bytes) == bytes

\* appendIncomingData.
Appended(bytes) == readBuff \o bytes

\* recv(), once per edge: it takes what is there, as much as fits.
Recv ==
  /\ ~reading /\ edge
  /\ LET k == Min({BufSize, Len(said) - taken})
     IN  /\ taken' = taken + k
         /\ full' = (k = BufSize)
         /\ readBuff' = Appended(SubSeq(said, taken + 1, taken + k))
  /\ edge' = FALSE
  /\ reading' = TRUE
  /\ UNCHANGED <<said, pieces, msg, heard, handled>>

\* find("\r\n").
LineEnds == {k \in 1..Len(readBuff) - 1 : readBuff[k] = CR /\ readBuff[k + 1] = LF}

\* dispatchCommand, as far as it depends on the line: it looks the command up.
Dispatch(m) == IF m.command = <<>> THEN handled ELSE Append(handled, m)

\* Faulty variant: one line for each recv().
ExtractOne ==
  /\ reading /\ LineEnds # {}
  /\ LET end == Min(LineEnds)
     IN  /\ heard' = Append(heard, SubSeq(readBuff, 1, end - 1))
         /\ readBuff' = From(readBuff, end + 2)
         /\ msg' = Parsed(SubSeq(readBuff, 1, end - 1), msg)
  /\ handled' = Dispatch(msg')
  /\ reading' = FALSE
  /\ UNCHANGED <<said, pieces, taken, edge, full>>

\* extractAndParseNextCommand finds a line.
Extract ==
  /\ reading /\ LineEnds # {}
  /\ LET end == Min(LineEnds)
     IN  /\ heard' = Append(heard, SubSeq(readBuff, 1, end - 1))
         /\ readBuff' = From(readBuff, end + 2)
         /\ msg' = Parsed(SubSeq(readBuff, 1, end - 1), msg)
  /\ handled' = Dispatch(msg')
  /\ UNCHANGED <<said, pieces, taken, edge, full, reading>>

\* It finds none.
Return ==
  /\ reading /\ LineEnds = {}
  /\ reading' = FALSE
  /\ UNCHANGED <<said, pieces, taken, edge, full, readBuff, msg, heard, handled>>

Next == (\E p \in Pieces : Send(p)) \/ Recv \/ Extract \/ Return

Spec == Init /\ [][Next]_vars

-----------------------------------------------------------------------------
(* What the way in promises                                                 *)

TypeOK ==
  /\ said \in Seq(Bytes)
  /\ pieces \in 0..MaxPieces
  /\ taken \in 0..Len(said)
  /\ edge \in BOOLEAN /\ full \in BOOLEAN /\ reading \in BOOLEAN
  /\ readBuff \in Seq(Bytes)
  /\ msg.command \in Seq(Bytes \ White)
  /\ msg.prefix \in Seq(Bytes \ White)
  /\ msg.params \in Seq(Seq(Bytes))

\* The lines handled are those the client has said, each once, whole and in order:
\* neither the cuts of the network nor those of recv() show, not even one between
\* CR and LF.
Heard == INSTANCE Lines
LinesSpec == Heard!Spec

\* A handler finds what it takes for granted: params[0] of a command, no white space
\* in a parameter that is not the last; and a line runs a command exactly when it
\* has a word besides its prefix, never the command of the line before it.
Words(s) == {k \in 1..Len(s) : s[k] \notin White /\ (k = 1 \/ s[k - 1] \in White)}
HasPrefix(s) == \E k \in Words(s) : s[k] = Colon /\ \A j \in Words(s) : k <= j

CommandsAreOfTheirLine ==
  /\ msg.command # <<>> =>
       /\ msg.params # <<>>
       /\ \A k \in 1..Len(msg.params) - 1 :
            msg.params[k] # <<>> /\ ToSet(msg.params[k]) \cap White = {}
  /\ heard # <<>> =>
       LET line == Last(heard)
       IN  msg.command # <<>> <=>
             Cardinality(Words(line)) > (IF HasPrefix(line) THEN 1 ELSE 0)

\* What parse reads is what toRawString writes: a message whose command can be one of
\* the server's (it begins with no colon), written and parsed again, is the same
\* message, its parameters cut in the same places.
RoundTrip ==
  \A k \in DOMAIN handled : Head(handled[k].command) # Colon =>
    Parsed(ToRawString(handled[k]), NoMessage) = handled[k]

\* When handleReadEvent has returned no line waits in _read_buff, however many came
\* at once, and bytes lie in the socket without an event to come only because the
\* one recv() of an edge filled its buffer.
NothingForgotten ==
  ~reading => LineEnds = {} /\ (taken < Len(said) => edge \/ full)
=============================================================================
