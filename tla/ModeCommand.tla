---------------------------- MODULE ModeCommand ----------------------------
(***************************************************************************)
(* MODE with any number of letters and words: the two loops of             *)
(* Server::handleModeCommand, Channel::modeSyntaxValidator and then        *)
(* Channel::applymodes, each with its own idea of which argument a letter  *)
(* takes, and setChannelMode between them.                                 *)
(*                                                                         *)
(* One action is one pass of a loop.  The server has one thread, so nothing*)
(* else happens until the command ends; a channel read by another client   *)
(* is never half changed.  An argument is a mode word, given by its sign   *)
(* and letters, or plain; asked[k] is params[k] of the code, params[0]     *)
(* being the channel.  Which error a refusal replies with is left out.     *)
(***************************************************************************)
EXTENDS Channels, SequencesExt

CONSTANTS
  Words,     \* mode words: [sign : {"+", "-"}, letters : Seq(Letters)]
  Plain,     \* arguments that are no mode word: nicknames, passwords, numbers
  LimitOf,   \* what stoul makes of an argument, NotANumber when it throws
  MaxWords   \* bound on the arguments after the channel

Letters == {"i", "t", "k", "l", "o", "q", "x"}   \* "x": any unknown letter
NotANumber == -1
MaxLimit == 100

Arguments == Words \cup Plain

ASSUME ModeAssumption ==
  /\ Words \subseteq [sign : {"+", "-"}, letters : Seq(Letters)]
  /\ Words \cap Plain = {}
  /\ LimitOf \in [Arguments -> Int]
  /\ MaxWords \in Nat
  /\ Keys # {}

VARIABLES
  phase,      \* the loop the command is in, or "idle", or "over" once it ended
  caller,     \* who sent it
  room,       \* the channel it is for
  asked,      \* its arguments after the channel
  at,         \* idx of modeSyntaxValidator, then paramIndex of applymodes
  word,       \* token of modeSyntaxValidator, then sign and modeFlags of applymodes
  done,       \* the letters of word it has passed; modeIndex of applymodes
  checked,    \* the letters accepted, each with the place of its argument
  applied,    \* the letters carried out, likewise
  announced,  \* the signs and letters of the announcement, modeparams[0]
  parameter,  \* what it ends with, NoKey when that is empty or nothing is announced
  before      \* the channel when the command began

cursorVars == <<at, word, done>>
modeVars ==
  <<phase, caller, room, asked, cursorVars, checked, applied, announced, parameter, before>>
allVars == <<vars, modeVars>>

Blank == [sign |-> "+", letters |-> <<>>]

\* A letter with its sign and the place of the argument it takes.
Change == [sign : {"+", "-"}, letter : Letters, place : Nat]

ModeTypeOK ==
  /\ phase \in {"idle", "check", "checkWord", "apply", "applyWord", "over"}
  /\ caller \in Clients
  /\ room \in ChanNames
  /\ asked \in Seq(Arguments)
  /\ at \in Nat
  /\ word \in Words \cup {Blank}
  /\ done \in 0..Len(word.letters)
  /\ checked \in Seq(Change)
  /\ applied \in Seq(Change)
  /\ announced \in Seq({"+", "-"} \cup Letters)
  /\ parameter \in Arguments \cup {NoKey}

ModeInit ==
  /\ Init
  /\ phase = "idle"
  /\ caller \in Clients
  /\ room \in ChanNames
  /\ asked = <<>>
  /\ at = 1
  /\ word = Blank
  /\ done = 0
  /\ checked = <<>>
  /\ applied = <<>>
  /\ announced = <<>>
  /\ parameter = NoKey
  /\ before = NewChannel

-----------------------------------------------------------------------------
(* What comes before                                                        *)

\* Bounds: nobody renames or leaves, one earlier key, few earlier +o and -o.
EarlierKey == CHOOSE key \in Keys : TRUE

Earlier(c, n) ==
  /\ \/ nick[c] = NoNick /\ Session(c)
     \/ JoinNew(c, n)
     \/ \E key \in {NoKey, EarlierKey} : Join(c, n, key)
     \/ ModeChannel(c, n, "k", TRUE, EarlierKey, 0)
     \/ \E on \in BOOLEAN, t \in Nicks : ModeOperator(c, n, on, t)
  /\ chan'[n].opCount \in -1..1

Commands == UNION {[1..k -> Arguments] : k \in 1..MaxWords}

Begin(c, n) ==
  /\ phase = "idle"
  /\ MayChangeModes(c, n)
  /\ asked' \in Commands
  /\ phase' = "check"
  /\ caller' = c
  /\ room' = n
  /\ before' = chan[n]
  /\ UNCHANGED <<vars, cursorVars, checked, applied, announced, parameter>>

-----------------------------------------------------------------------------
(* Channel::modeSyntaxValidator                                             *)

More == at <= Len(asked)
Inside == done < Len(word.letters)
Letter == word.letters[done + 1]
On == word.sign = "+"

\* channelModeRequiresParameter.
Takes(letter) == letter \in {"k", "l", "o"}

\* Faulty variant: "k" is not looked at.
AcceptableKeyOrNot(letter, argument) ==
  /\ letter = "o" => argument # NoKey /\ IsClientInChannel(chan[room], argument)
  /\ letter = "l" /\ On => LimitOf[argument] \in 0..MaxLimit

\* checkModeParameter.  NoKey is the empty argument, which ":" makes.
Acceptable(letter, argument) ==
  /\ letter = "o" => argument # NoKey /\ IsClientInChannel(chan[room], argument)
  /\ letter = "l" /\ On => LimitOf[argument] \in 0..MaxLimit
  /\ letter = "k" /\ On => argument # NoKey

Accepted ==
  /\ Letter # "x"
  /\ Takes(Letter) => at + 1 <= Len(asked) /\ Acceptable(Letter, asked[at + 1])

Pass(place) == [sign |-> word.sign, letter |-> Letter, place |-> place]

Over == phase' = "over" /\ UNCHANGED <<caller, room, asked, cursorVars, checked, before>>

CheckWord ==
  /\ phase = "check" /\ More
  /\ asked[at] \in Words
  /\ phase' = "checkWord"
  /\ word' = asked[at]
  /\ UNCHANGED <<vars, caller, room, asked, at, done, checked>>
  /\ UNCHANGED <<applied, announced, parameter, before>>

CheckLetter ==
  /\ phase = "checkWord" /\ Inside
  /\ Accepted
  /\ at' = IF Takes(Letter) THEN at + 1 ELSE at
  /\ done' = done + 1
  /\ checked' = Append(checked, Pass(at'))
  /\ UNCHANGED <<vars, phase, caller, room, asked, word, applied, announced, parameter, before>>

\* Faulty variant: the index of the letter is not reset.
CheckedWordKeepingIndex ==
  /\ phase = "checkWord" /\ ~Inside
  /\ phase' = "check"
  /\ at' = at + 1
  /\ word' = Blank
  /\ UNCHANGED <<vars, caller, room, asked, done, checked>>
  /\ UNCHANGED <<applied, announced, parameter, before>>

CheckedWord ==
  /\ phase = "checkWord" /\ ~Inside
  /\ phase' = "check"
  /\ at' = at + 1
  /\ word' = Blank
  /\ done' = 0
  /\ UNCHANGED <<vars, caller, room, asked, checked, applied, announced, parameter, before>>

Refuse ==
  /\ \/ phase = "check" /\ More /\ asked[at] \notin Words
     \/ phase = "checkWord" /\ Inside /\ ~Accepted
  /\ Over
  /\ UNCHANGED <<vars, applied, announced, parameter>>

Accept ==
  /\ phase = "check" /\ ~More
  /\ phase' = "apply"
  /\ at' = 1
  /\ UNCHANGED <<vars, caller, room, asked, word, done, checked>>
  /\ UNCHANGED <<applied, announced, parameter, before>>

-----------------------------------------------------------------------------
(* Channel::applymodes and setChannelMode                                   *)

\* A mode word is taken while no letter has been passed; afterwards modeIndex,
\* which is never reset, makes the loop only step over the arguments.
TakeWord ==
  /\ phase = "apply" /\ More
  /\ phase' = "applyWord"
  /\ word' = IF done = 0 THEN asked[at] ELSE word
  /\ announced' = IF done = 0 THEN Append(announced, asked[at].sign) ELSE announced
  /\ UNCHANGED <<vars, caller, room, asked, at, done, checked, applied, parameter, before>>

\* Faulty variant: a key is taken from the place of the letter before it.
PlaceOfOthers == IF Letter \in {"l", "o"} THEN at + 1 ELSE at

Place == IF Takes(Letter) THEN at + 1 ELSE at
Argument == IF Place \in DOMAIN asked THEN asked[Place] ELSE NoKey

\* The loop goes on after a letter; it is announced when reported holds.
Applied(reported) ==
  /\ at' = Place
  /\ done' = done + 1
  /\ applied' = Append(applied, Pass(Place))
  /\ announced' = IF reported THEN Append(announced, Letter) ELSE announced
  /\ UNCHANGED <<nickVars, open, joined, dangling, up>>
  /\ UNCHANGED <<phase, caller, room, asked, word, checked, parameter, before>>

\* Faulty variant: a mode taken away is never reported.
ReportedWhenSet(ch) == On

\* shouldReport of setChannelMode.
Reported(ch) == On \/ Letter \in ch.modes

\* setChannelMode for the four channel modes.
Set(ch) ==
  [SetMode(ch, Letter, On) EXCEPT
     !.key = IF Letter # "k" THEN @ ELSE IF On THEN Argument ELSE NoKey,
     !.limit = IF Letter # "l" THEN @ ELSE IF On THEN LimitOf[Argument] ELSE 0]

ApplyChannelMode ==
  /\ phase = "applyWord" /\ Inside
  /\ Letter \in {"i", "t", "k", "l"}
  /\ chan' = [chan EXCEPT ![room] = Set(@)]
  /\ Applied(Reported(chan[room]))

ApplyOperator ==
  /\ phase = "applyWord" /\ Inside
  /\ Letter = "o"
  /\ ~LookupFails(chan[room], Argument)
  /\ \E m \in Exact(chan[room], Argument) :
       chan' = [chan EXCEPT ![room].ops = IF On THEN @ \cup {m} ELSE @ \ {m},
                            ![room].opCount = IF On THEN @ + 1 ELSE @ - 1,
                            ![room].opRemoved = ~On]
  /\ Applied(TRUE)

\* q takes no argument of its own but the one at the cursor, the mode word or
\* the argument of the letter before; nothing reads the bit it sets.
ApplyFounder ==
  /\ phase = "applyWord" /\ Inside
  /\ Letter = "q"
  /\ ~LookupFails(chan[room], Argument)
  /\ UNCHANGED chan
  /\ Applied(TRUE)

ApplyCrash ==
  /\ phase = "applyWord" /\ Inside
  /\ Letter \in {"o", "q"}
  /\ LookupFails(chan[room], Argument)
  /\ Crash
  /\ Over
  /\ UNCHANGED <<applied, announced, parameter>>

AppliedWord ==
  /\ phase = "applyWord" /\ ~Inside
  /\ phase' = "apply"
  /\ at' = at + 1
  /\ UNCHANGED <<vars, caller, room, asked, word, done, checked>>
  /\ UNCHANGED <<applied, announced, parameter, before>>

\* Something is announced when there is more to say than a sign.
Announces == Len(announced) > 1

\* params[2], whatever it was for, when there is no params[3].
Shown == IF Announces /\ Len(asked) = 2 THEN asked[2] ELSE NoKey

\* Faulty variant: nobody inherits the last operator's place.
FinishWithoutHeir ==
  /\ phase = "apply" /\ ~More
  /\ UNCHANGED vars
  /\ Over
  /\ parameter' = Shown
  /\ UNCHANGED <<applied, announced>>

\* The rest of handleModeCommand: the announcement, and the heir of the last operator.
Finish ==
  /\ phase = "apply" /\ ~More
  /\ StoreMode(caller, room, chan[room], Announces)
  /\ Over
  /\ parameter' = Shown
  /\ UNCHANGED <<applied, announced>>

ModeStep ==
  \/ CheckWord \/ CheckLetter \/ CheckedWord \/ Refuse \/ Accept
  \/ TakeWord \/ ApplyChannelMode \/ ApplyOperator \/ ApplyFounder \/ ApplyCrash
  \/ AppliedWord \/ Finish

ModeNext ==
  \/ \E c \in Clients, n \in ChanNames :
       \/ Begin(c, n)
       \/ phase = "idle" /\ Earlier(c, n) /\ UNCHANGED modeVars
  \/ ModeStep

ModeSpec == ModeInit /\ [][ModeNext]_allVars

-----------------------------------------------------------------------------
(* What a MODE command promises                                             *)

\* The two loops count alike: each letter applymodes carries out is one that
\* modeSyntaxValidator let pass, in its order, with its sign and with the very
\* argument it looked at; and what applymodes takes for a mode word is one.
ReadsWhatWasChecked ==
  /\ IsPrefix(applied, checked)
  /\ phase = "apply" /\ More /\ done = 0 => asked[at] \in Words

\* A channel that wants a key has one and a channel with a limit one within
\* reach, whatever letters and arguments a command mixes; a channel without has
\* neither, so that the next +k or +l starts from nothing.
SettingsMatchModes ==
  \A n \in open :
    /\ "k" \in chan[n].modes <=> chan[n].key # NoKey
    /\ chan[n].limit # 0 => "l" \in chan[n].modes /\ chan[n].limit <= MaxLimit

\* Whoever keeps the modes of the channel by the mode string announced, each letter
\* under the sign last announced, has them right, also in the middle of a command that
\* ends the server.  (By the mode string alone: of "+i +t" the second word is announced
\* as the parameter, and not applied.)
Places(xs) == {k \in DOMAIN announced : announced[k] \in xs}
SignAt(k) == announced[Max({j \in Places({"+", "-"}) : j < k})]

LettersAnnounced ==
  phase # "idle" =>
    \A x \in {"i", "t", "k", "l"} :
      /\ Places({x}) = {} => (x \in chan[room].modes <=> x \in before.modes)
      /\ \A k \in Places({x}) :
           (\A j \in Places({x}) : j <= k) =>
             (x \in chan[room].modes <=> SignAt(k) = "+")

\* Whoever is told of a key or a limit, and told what it is, is told the right one,
\* however many letters with and without arguments share the word.  (A command of more
\* arguments tells none, so of "+kl key 2" the members hear neither.)
ParameterAnnounced ==
  phase = "over" /\ parameter # NoKey =>
    /\ Places({"k"}) # {} /\ "k" \in chan[room].modes => chan[room].key = parameter
    /\ Places({"l"}) # {} /\ "l" \in chan[room].modes => chan[room].limit = LimitOf[parameter]

\* Seen from outside, a command of one letter is one step of Channels: the loops
\* add nothing to, and leave nothing out of, what that module says of one.
Atomic == INSTANCE Channels WITH
  chan <- IF phase \in {"idle", "over"} THEN chan ELSE [chan EXCEPT ![room] = before]

OneLetter ==
  /\ asked # <<>> /\ asked[1] \in Words
  /\ Len(asked[1].letters) = 1
  /\ \A k \in 2..Len(asked) : k = 2 /\ asked[k] \in Plain

OneLetterIsOneStep == [][OneLetter => Atomic!Next]_Atomic!vars

\* What this takes of the constants: Channels knows every letter and argument, there
\* are nicknames but nobody is called "-q", which isValidNickname allows, and no
\* command meets the bound of the counter.
ChannelsCover ==
  /\ ModeChars = Letters \ {"x"}
  /\ Plain \ {NoKey} \subseteq Keys
  /\ Limits # {} /\ \A a \in Plain : LimitOf[a] \in 0..MaxLimit => LimitOf[a] \in Limits
  /\ NoNick \notin Plain /\ \A w \in Words : w.letters = <<"q">> => w \notin AllNicks
  /\ Targets # {} /\ MaxOpCount > 1
=============================================================================
