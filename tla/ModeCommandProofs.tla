-------------------------- MODULE ModeCommandProofs --------------------------
(* MODE with any number of letters and words of any length: its two loops read *)
(* the same letters with the same arguments, the settings of a channel match    *)
(* its modes, and what is announced is what was done.  A command of one letter  *)
(* is one step of Channels.                                                     *)
(*                                                                            *)
(* The validator may look at several mode words, but applymodes takes one only, *)
(* the first that has letters, and steps over whatever follows.  The letters of *)
(* that word are what the validator accepted first, and the place of each one's *)
(* argument follows from the place of the one before, in both loops alike.      *)
EXTENDS ModeCommand, SequenceTheorems, TLAPS

Checking == phase \in {"check", "checkWord"}
Applying == phase \in {"apply", "applyWord"}

EmptyWord(k) == asked[k] \in Words /\ asked[k].letters = <<>>

\* The word applymodes takes its letters from is asked[p].
FirstWord(p) ==
  /\ p \in 1..Len(asked)
  /\ \A k \in 1..p - 1 : EmptyWord(k)
  /\ asked[p] \in Words /\ asked[p].letters # <<>>

\* Where either loop is after j letters of it.
At(p, j) == IF j = 0 THEN p ELSE checked[j].place

\* What the validator has made sure of for a letter it accepted, and nothing in the
\* command can change.
Sound(change) ==
  LET argument == asked[change.place]
  IN  Takes(change.letter) =>
        /\ change.place <= Len(asked)
        /\ change.sign = "+" /\ change.letter = "l" => LimitOf[argument] \in 0..MaxLimit
        /\ change.sign = "+" /\ change.letter = "k" => argument # NoKey

\* The letters accepted first are those of asked[p], each with its argument.
Chain(p) ==
  \A j \in 1..Len(checked) : j <= Len(asked[p].letters) =>
    /\ checked[j].sign = asked[p].sign
    /\ checked[j].letter = asked[p].letters[j]
    /\ checked[j].place = IF Takes(checked[j].letter) THEN At(p, j - 1) + 1 ELSE At(p, j - 1)
    /\ Sound(checked[j])

\* modeSyntaxValidator is at no word with letters yet, or has met the one at p.
BeforeWord ==
  /\ at # 0
  /\ \A k \in 1..at - 1 : k <= Len(asked) => EmptyWord(k)
  /\ phase = "checkWord" => done = 0 /\ at \in 1..Len(asked) /\ word = asked[at]

SinceWord(p) ==
  /\ FirstWord(p)
  /\ Chain(p)
  /\ Len(checked) < Len(asked[p].letters) =>
       /\ phase = "checkWord" /\ word = asked[p]
       /\ done = Len(checked) /\ at = At(p, done)

CheckInv ==
  /\ phase = "idle" => at = 1 /\ word = Blank /\ done = 0 /\ checked = <<>>
  /\ phase = "check" => word = Blank /\ done = 0
  /\ phase = "checkWord" => word \in Words
  /\ Checking => IF checked = <<>> THEN BeforeWord ELSE \E p \in Nat : SinceWord(p)
  /\ ~Applying /\ phase # "over" => applied = <<>>

\* applymodes finds no word with letters, or takes the one at p.
NoWord ==
  /\ \A k \in 1..Len(asked) : EmptyWord(k)
  /\ done = 0 /\ applied = <<>> /\ at \in Nat \ {0}
  /\ phase = "applyWord" => word.letters = <<>>

OneWord(p) ==
  /\ FirstWord(p)
  /\ Chain(p)
  /\ Len(asked[p].letters) <= Len(checked)
  /\ Len(applied) = done
  /\ done = 0 => at \in 1..p /\ (phase = "applyWord" => word = asked[at])
  /\ done > 0 => word = asked[p]
  /\ 0 < done /\ done < Len(asked[p].letters) => phase = "applyWord" /\ at = At(p, done)

ApplyInv == Applying => NoWord \/ \E p \in Nat : OneWord(p)

PrefixInv ==
  /\ Len(applied) <= Len(checked)
  /\ \A i \in 1..Len(applied) : applied[i] = checked[i]

\* The channels as records; the counter of operators has no bound here.
Shape ==
  [members : SUBSET Clients, ops : SUBSET Clients, count : Int, opCount : Int,
   opRemoved : BOOLEAN, modes : SUBSET {"i", "t", "k", "l"}, limit : Int,
   key : Keys \cup Arguments \cup {NoKey}, invites : SUBSET Targets,
   topic : Topics \cup {NoTopic}]

\* SettingsMatchModes of one channel.
Settled(ch) ==
  /\ "k" \in ch.modes <=> ch.key # NoKey
  /\ ch.limit # 0 => "l" \in ch.modes /\ ch.limit <= MaxLimit

ChansInv == chan \in [ChanNames -> Shape] /\ \A n \in ChanNames : Settled(chan[n])

ModeInv == ModeTypeOK /\ CheckInv /\ ApplyInv /\ PrefixInv /\ ChansInv

-----------------------------------------------------------------------------
(* Channels.                                                                 *)

LEMMA NewChannelSettled == NewChannel \in Shape /\ Settled(NewChannel)
<1>1. NewChannel \in Shape
  BY DEF NewChannel, Shape
<1> QED
  BY <1>1 DEF NewChannel, Settled

\* Storing one channel.
LEMMA OneStored ==
  ASSUME ChansInv, NEW n \in ChanNames, NEW ch \in Shape, Settled(ch),
         chan' = [chan EXCEPT ![n] = ch]
  PROVE  ChansInv'
<1>1. chan' \in [ChanNames -> Shape]
  BY DEF ChansInv
<1>2. \A m \in ChanNames : chan'[m] = IF m = n THEN ch ELSE chan[m]
  BY DEF ChansInv
<1>3. \A m \in ChanNames : Settled(chan'[m])
  BY <1>2 DEF ChansInv
<1> QED
  BY <1>1, <1>3 DEF ChansInv, Settled

\* What setChannelMode does to one channel, whatever the letter.
SetTo(ch, letter, on, key, limit) ==
  [SetMode(ch, letter, on) EXCEPT
     !.key = IF letter # "k" THEN @ ELSE IF on THEN key ELSE NoKey,
     !.limit = IF letter # "l" THEN @ ELSE IF on THEN limit ELSE 0]

LEMMA SetSettled ==
  ASSUME NEW ch \in Shape, Settled(ch), NEW letter \in {"i", "t", "k", "l"}, NEW on \in BOOLEAN,
         NEW key \in Keys \cup Arguments \cup {NoKey}, NEW limit \in Int,
         letter = "k" /\ on => key # NoKey,
         letter = "l" /\ on => limit <= MaxLimit,
         NEW new, new = SetTo(ch, letter, on, key, limit)
  PROVE  new \in Shape /\ Settled(new)
<1> DEFINE modes == IF on THEN ch.modes \cup {letter} ELSE ch.modes \ {letter}
           k == IF letter # "k" THEN ch.key ELSE IF on THEN key ELSE NoKey
           l == IF letter # "l" THEN ch.limit ELSE IF on THEN limit ELSE 0
<1>1. /\ modes \in SUBSET {"i", "t", "k", "l"} /\ k \in Keys \cup Arguments \cup {NoKey}
      /\ l \in Int
  BY DEF Shape
<1>2. SetMode(ch, letter, on) = [ch EXCEPT !.modes = modes]
  BY DEF SetMode
<1>3. [ch EXCEPT !.modes = modes].key = ch.key /\ [ch EXCEPT !.modes = modes].limit = ch.limit
  BY DEF Shape
<1>4. new = [ch EXCEPT !.modes = modes, !.key = k, !.limit = l]
  BY <1>2, <1>3 DEF SetTo, Shape
<1>5. "k" \in modes <=> k # NoKey
  BY DEF Settled
<1>6. l # 0 => "l" \in modes /\ l <= MaxLimit
  BY DEF Settled
<1> HIDE DEF modes, k, l
<1>7. new \in Shape /\ new.modes = modes /\ new.key = k /\ new.limit = l
  BY <1>1, <1>4 DEF Shape
<1> QED
  BY <1>5, <1>6, <1>7 DEF Settled

\* What does not touch a channel's modes, key and limit.
LEMMA SameSettings ==
  ASSUME NEW ch, Settled(ch), NEW new, new.modes = ch.modes, new.key = ch.key,
         new.limit = ch.limit
  PROVE  Settled(new)
  BY DEF Settled

LEMMA OperatorsSettled ==
  ASSUME NEW ch \in Shape, Settled(ch), NEW ops \in SUBSET Clients, NEW count \in Int,
         NEW removed \in BOOLEAN,
         NEW new, new = [ch EXCEPT !.ops = ops, !.opCount = count, !.opRemoved = removed]
  PROVE  new \in Shape /\ Settled(new)
<1>1. new \in Shape /\ new.modes = ch.modes /\ new.key = ch.key /\ new.limit = ch.limit
  BY DEF Shape
<1> QED
  BY <1>1, SameSettings

LEMMA AfterModeSettled ==
  ASSUME NEW ch \in Shape, Settled(ch), NEW c, NEW reported, NEW p \in AfterMode(ch, c, reported)
  PROVE  p \in Shape /\ Settled(p)
<1> DEFINE heirs == Heirs(ch, c, FALSE)
<1>1. CASE reported /\ ch.opRemoved /\ heirs # {}
  <2>1. PICK q \in Promoted(ch, heirs) : p = [q EXCEPT !.opRemoved = FALSE]
    BY <1>1 DEF AfterMode
  <2>2. PICK h \in heirs : q = [ch EXCEPT !.ops = @ \cup {h}]
    BY <1>1, <2>1 DEF Promoted
  <2>3. h \in Clients /\ ch.ops \in SUBSET Clients
    BY <2>2 DEF Heirs, Shape
  <2>4. PICK ops \in SUBSET Clients : ops = ch.ops \cup {h}
    BY <2>3
  <2>5. p = [ch EXCEPT !.ops = ops, !.opCount = ch.opCount, !.opRemoved = FALSE]
    BY <2>1, <2>2, <2>4 DEF Shape
  <2>6. ch.opCount \in Int
    BY DEF Shape
  <2> QED
    BY <2>5, <2>6, OperatorsSettled
<1>2. CASE ~(reported /\ ch.opRemoved /\ heirs # {})
  BY <1>2 DEF AfterMode
<1> QED
  BY <1>1, <1>2

LEMMA StoreModeSettled ==
  ASSUME ChansInv, NEW c, NEW n \in ChanNames, NEW ch \in Shape, Settled(ch), NEW reported,
         StoreMode(c, n, ch, reported)
  PROVE  ChansInv'
<1>1. PICK p \in AfterMode(ch, c, reported) : chan' = [chan EXCEPT ![n] = p]
  BY DEF StoreMode
<1>2. p \in Shape /\ Settled(p)
  BY <1>1, AfterModeSettled
<1> QED
  BY <1>1, <1>2, OneStored

LEMMA AddedSettled ==
  ASSUME NEW ch \in Shape, Settled(ch), NEW c \in Clients, NEW creator \in BOOLEAN,
         NEW new, new = AddClient(c, ch, creator)
  PROVE  new \in Shape /\ Settled(new)
<1>1. ch.members \in SUBSET Clients /\ ch.ops \in SUBSET Clients /\ ch.count \in Int
  BY DEF Shape
<1>2. PICK members \in SUBSET Clients : members = ch.members \cup {c}
  BY <1>1
<1>3. PICK ops \in SUBSET Clients : ops = IF creator THEN ch.ops \cup {c} ELSE ch.ops \ {c}
  BY <1>1
<1>4. PICK count \in Int : count = ch.count + 1
  BY <1>1
<1>5. new = [ch EXCEPT !.members = members, !.ops = ops, !.count = count]
  BY <1>2, <1>3, <1>4 DEF AddClient
<1>6. new \in Shape /\ new.modes = ch.modes /\ new.key = ch.key /\ new.limit = ch.limit
  BY <1>5 DEF Shape
<1> QED
  BY <1>6, SameSettings

\* +o and -o, which leave the settings alone.
Operated(ch, m, on) ==
  [[ch EXCEPT !.opCount = IF on THEN @ + 1 ELSE @ - 1, !.opRemoved = ~on]
     EXCEPT !.ops = IF on THEN @ \cup {m} ELSE @ \ {m}]

LEMMA OperatorSettled ==
  ASSUME NEW ch \in Shape, Settled(ch), NEW m \in Clients, NEW on \in BOOLEAN,
         NEW new, new = Operated(ch, m, on)
  PROVE  new \in Shape /\ Settled(new)
<1>1. ch.ops \in SUBSET Clients /\ ch.opCount \in Int
  BY DEF Shape
<1>2. PICK ops \in SUBSET Clients : ops = IF on THEN ch.ops \cup {m} ELSE ch.ops \ {m}
  BY <1>1
<1>3. PICK count \in Int : count = IF on THEN ch.opCount + 1 ELSE ch.opCount - 1
  BY <1>1
<1>4. PICK removed \in BOOLEAN : removed = ~on
  OBVIOUS
<1>5. new = [[ch EXCEPT !.opCount = count, !.opRemoved = removed] EXCEPT
               !.ops = IF on THEN @ \cup {m} ELSE @ \ {m}]
  BY <1>3, <1>4 DEF Operated
<1>6. [ch EXCEPT !.opCount = count, !.opRemoved = removed].ops = ch.ops
  BY DEF Shape
<1>7. new = [ch EXCEPT !.ops = ops, !.opCount = count, !.opRemoved = removed]
  BY <1>2, <1>5, <1>6 DEF Shape
<1> QED
  BY <1>7, OperatorsSettled

\* Whatever came before the command.
LEMMA EarlierSettled ==
  ASSUME ChansInv, NEW c \in Clients, NEW n \in ChanNames, Earlier(c, n)
  PROVE  ChansInv'
<1>0. chan[n] \in Shape /\ Settled(chan[n])
  BY DEF ChansInv
<1>1. CASE Session(c)
  BY <1>1 DEF Session, chanVars, ChansInv, Settled
<1>2. CASE JoinNew(c, n)
  <2>1. PICK new : new = AddClient(c, NewChannel, TRUE)
    OBVIOUS
  <2>2. new \in Shape /\ Settled(new)
    BY <2>1, NewChannelSettled, AddedSettled
  <2>3. chan' = [chan EXCEPT ![n] = new]
    BY <1>2, <2>1 DEF JoinNew
  <2> QED
    BY <2>2, <2>3, OneStored
<1>3. ASSUME NEW key, Join(c, n, key) PROVE ChansInv'
  <2>1. PICK old : old = InviteUsed(c, chan[n])
    OBVIOUS
  <2>2. PICK new : new = AddClient(c, old, FALSE)
    OBVIOUS
  <2>3. /\ old \in Shape /\ old.modes = chan[n].modes /\ old.key = chan[n].key
        /\ old.limit = chan[n].limit
    <3>1. CASE "i" \in chan[n].modes
      BY <1>0, <2>1, <3>1 DEF InviteUsed, Shape
    <3>2. CASE "i" \notin chan[n].modes
      BY <1>0, <2>1, <3>2 DEF InviteUsed
    <3> QED
      BY <3>1, <3>2
  <2>4. new \in Shape /\ Settled(new)
    BY <1>0, <2>2, <2>3, SameSettings, AddedSettled
  <2>5. chan' = [chan EXCEPT ![n] = new]
    BY <1>3, <2>1, <2>2 DEF Join
  <2> QED
    BY <2>4, <2>5, OneStored
<1>4. CASE ModeChannel(c, n, "k", TRUE, EarlierKey, 0)
  <2> DEFINE new == SetTo(chan[n], "k", TRUE, EarlierKey, 0)
  <2>1. StoreMode(c, n, new, TRUE \/ "k" \in chan[n].modes)
    BY <1>4 DEF ModeChannel, SetTo
  <2>2. EarlierKey \in Keys /\ EarlierKey # NoKey
    BY ModeAssumption, ChannelAssumption DEF EarlierKey
  <2>3. new \in Shape /\ Settled(new)
    <3>1. /\ "k" \in {"i", "t", "k", "l"} /\ TRUE \in BOOLEAN /\ 0 \in Int
          /\ EarlierKey \in Keys \cup Arguments \cup {NoKey}
      BY <2>2
    <3>2. PICK x : x = new
      OBVIOUS
    <3>3. x \in Shape /\ Settled(x)
      BY <1>0, <2>2, <3>1, <3>2, SetSettled
    <3> QED
      BY <3>2, <3>3
  <2> HIDE DEF new
  <2> QED
    BY <2>1, <2>3, StoreModeSettled
<1>5. ASSUME NEW on \in BOOLEAN, NEW t, ModeOperator(c, n, on, t) PROVE ChansInv'
  <2>1. PICK m \in Exact(chan[n], t) : StoreMode(c, n, Operated(chan[n], m, on), TRUE)
    <3> DEFINE ch == [chan[n] EXCEPT !.opCount = IF on THEN @ + 1 ELSE @ - 1, !.opRemoved = ~on]
    <3>1. Exact(ch, t) = Exact(chan[n], t)
      BY <1>0 DEF Exact, Shape
    <3> QED
      BY <1>5, <3>1 DEF ModeOperator, Operated
  <2>2. m \in Clients
    BY <2>1 DEF Exact, Live
  <2>3. PICK new : new = Operated(chan[n], m, on)
    OBVIOUS
  <2>4. new \in Shape /\ Settled(new)
    BY <1>0, <2>2, <2>3, OperatorSettled
  <2> QED
    BY <2>1, <2>3, <2>4, StoreModeSettled
<1> QED
  BY <1>1, <1>2, <1>3, <1>4, <1>5 DEF Earlier

-----------------------------------------------------------------------------
(* The loops.                                                                *)

\* What every step of a command starts from.
LEMMA Typed ==
  ASSUME ModeInv
  PROVE  /\ asked \in Seq(Arguments) /\ Len(asked) \in Nat /\ DOMAIN asked = 1..Len(asked)
         /\ at \in Nat /\ done \in Nat /\ done <= Len(word.letters)
         /\ word \in Words \cup {Blank} /\ word.letters \in Seq(Letters)
         /\ Len(word.letters) \in Nat /\ word.sign \in {"+", "-"}
         /\ checked \in Seq(Change) /\ Len(checked) \in Nat
         /\ applied \in Seq(Change) /\ Len(applied) \in Nat
         /\ announced \in Seq({"+", "-"} \cup Letters)
<1>1. \A w \in Words \cup {Blank} : /\ w.letters \in Seq(Letters) /\ Len(w.letters) \in Nat
                                    /\ w.sign \in {"+", "-"}
  <2>1. Blank.letters = <<>> /\ Blank.sign = "+" /\ <<>> \in Seq(Letters)
    BY EmptySeq DEF Blank
  <2>2. \A w \in Words : w.letters \in Seq(Letters) /\ w.sign \in {"+", "-"}
    BY ModeAssumption
  <2>3. \A s \in Seq(Letters) : Len(s) \in Nat
    BY LenProperties
  <2> QED
    BY <2>1, <2>2, <2>3
<1>2. word \in Words \cup {Blank} /\ done \in 0..Len(word.letters)
  BY DEF ModeInv, ModeTypeOK
<1>3. done \in Nat /\ done <= Len(word.letters)
  BY <1>1, <1>2
<1>4. /\ asked \in Seq(Arguments) /\ checked \in Seq(Change) /\ applied \in Seq(Change)
      /\ announced \in Seq({"+", "-"} \cup Letters) /\ at \in Nat
  BY DEF ModeInv, ModeTypeOK
<1> QED
  BY <1>1, <1>2, <1>3, <1>4, LenProperties

\* A letter of a word, and the record it is remembered by.
LEMMA LetterTyped ==
  ASSUME ModeInv, Inside, NEW place \in Nat
  PROVE  /\ Letter \in Letters /\ done + 1 \in 1..Len(word.letters) /\ Pass(place) \in Change
         /\ Pass(place).sign = word.sign /\ Pass(place).letter = Letter
         /\ Pass(place).place = place
<1>1. done + 1 \in 1..Len(word.letters)
  BY Typed DEF Inside
<1>2. Letter \in Letters
  BY <1>1, Typed, ElementOfSeq DEF Letter
<1> QED
  BY <1>1, <1>2, Typed DEF Pass, Change

LEMMA Appended ==
  ASSUME NEW S, NEW seq \in Seq(S), NEW e \in S, NEW new, new = Append(seq, e)
  PROVE  /\ new \in Seq(S) /\ Len(new) = Len(seq) + 1 /\ new # <<>>
         /\ new[Len(seq) + 1] = e /\ \A i \in 1..Len(seq) : new[i] = seq[i]
  BY AppendProperties

\* A command that is not in a loop needs no more than its types.
LEMMA OutOfLoops ==
  ASSUME ModeTypeOK', PrefixInv', ChansInv', phase' = "over"
  PROVE  ModeInv'
  BY DEF ModeInv, CheckInv, ApplyInv, Checking, Applying

LEMMA OverInv ==
  ASSUME ModeInv, Over, applied' = applied, announced' = announced,
         parameter' \in Arguments \cup {NoKey}, ChansInv'
  PROVE  ModeInv'
<1>1. ModeTypeOK' /\ PrefixInv'
  BY DEF ModeInv, ModeTypeOK, PrefixInv, Over, cursorVars
<1> QED
  BY <1>1, OutOfLoops DEF Over

\* The validator's steps leave the channels alone.
LEMMA ChansStill ==
  ASSUME ChansInv, UNCHANGED vars
  PROVE  ChansInv'
  BY DEF ChansInv, Settled, vars, chanVars

LEMMA WordTyped ==
  ASSUME NEW w \in Words
  PROVE  /\ w.letters \in Seq(Letters) /\ Len(w.letters) \in Nat /\ w.sign \in {"+", "-"}
         /\ Len(w.letters) = 0 <=> w.letters = <<>>
<1>1. w.letters \in Seq(Letters) /\ w.sign \in {"+", "-"}
  BY ModeAssumption
<1> QED
  BY <1>1, LenProperties, EmptySeq

\* Another letter is accepted.
LEMMA Extended ==
  ASSUME ModeInv, NEW p, FirstWord(p), Chain(p), asked' = asked, NEW pass \in Change,
         checked' = Append(checked, pass),
         Len(checked) < Len(asked[p].letters) =>
           /\ pass.sign = asked[p].sign
           /\ pass.letter = asked[p].letters[Len(checked) + 1]
           /\ pass.place = IF Takes(pass.letter) THEN At(p, Len(checked)) + 1
                                                 ELSE At(p, Len(checked))
           /\ Sound(pass)
  PROVE  /\ FirstWord(p)' /\ Chain(p)' /\ Len(checked') = Len(checked) + 1
         /\ checked'[Len(checked) + 1] = pass
<1>1. /\ Len(checked') = Len(checked) + 1 /\ checked'[Len(checked) + 1] = pass
      /\ \A i \in 1..Len(checked) : checked'[i] = checked[i]
  BY Typed, Appended
<1>2. Len(checked) \in Nat
  BY Typed
<1>3. \A j \in 0..Len(checked) : At(p, j)' = At(p, j)
  BY <1>1, <1>2 DEF At
<1>4. \A change : Sound(change)' = Sound(change)
  BY DEF Sound
<1>5. ASSUME NEW j \in 1..Len(checked'), j <= Len(asked[p].letters)
      PROVE  /\ checked'[j].sign = asked[p].sign
             /\ checked'[j].letter = asked[p].letters[j]
             /\ checked'[j].place = IF Takes(checked'[j].letter) THEN At(p, j - 1)' + 1
                                                                 ELSE At(p, j - 1)'
             /\ Sound(checked'[j])
  <2>1. Len(asked[p].letters) \in Nat
    BY WordTyped DEF FirstWord
  <2>2. CASE j <= Len(checked)
    <3>1. j \in 1..Len(checked) /\ j - 1 \in 0..Len(checked)
      BY <1>2, <2>2
    <3>2. checked'[j] = checked[j] /\ At(p, j - 1)' = At(p, j - 1)
      BY <1>1, <1>3, <3>1
    <3> QED
      BY <1>5, <3>1, <3>2 DEF Chain
  <2>3. CASE ~(j <= Len(checked))
    <3>1. j = Len(checked) + 1 /\ Len(checked) < Len(asked[p].letters)
      BY <1>1, <1>2, <1>5, <2>1, <2>3
    <3>2. checked'[j] = pass /\ j - 1 = Len(checked) /\ At(p, j - 1)' = At(p, j - 1)
      BY <1>1, <1>2, <1>3, <3>1
    <3> QED
      BY <3>1, <3>2
  <2> QED
    BY <2>2, <2>3
<1>6. Chain(p)'
  BY <1>4, <1>5 DEF Chain
<1> QED
  BY <1>1, <1>6 DEF FirstWord, EmptyWord

LEMMA ChainKept ==
  ASSUME NEW p, UNCHANGED <<asked, checked>>
  PROVE  (FirstWord(p) => FirstWord(p)') /\ (Chain(p) => Chain(p)')
<1>1. FirstWord(p) => FirstWord(p)'
  BY DEF FirstWord, EmptyWord
<1>2. Chain(p) => Chain(p)'
  BY DEF Chain, At, Sound
<1> QED
  BY <1>1, <1>2

\* The validator is past the word that counts, or has met none.
LEMMA SinceKept ==
  ASSUME NEW p, SinceWord(p), UNCHANGED <<asked, checked>>,
         ~(Len(checked) < Len(asked[p].letters))
  PROVE  SinceWord(p)'
  BY ChainKept DEF SinceWord

LEMMA BeginInv ==
  ASSUME ModeInv, NEW c \in Clients, NEW n \in ChanNames, Begin(c, n)
  PROVE  ModeInv'
<1>1. /\ phase = "idle" /\ phase' = "check" /\ asked' \in Commands
      /\ caller' = c /\ room' = n
      /\ UNCHANGED <<vars, at, word, done, checked, applied, announced, parameter>>
  BY DEF Begin, cursorVars
<1>2. asked' \in Seq(Arguments)
  BY <1>1, ModeAssumption, SeqDef DEF Commands
<1>3. ModeTypeOK'
  BY <1>1, <1>2 DEF ModeInv, ModeTypeOK
<1>4. PrefixInv' /\ ChansInv'
  BY <1>1, ChansStill DEF ModeInv, PrefixInv
<1>5. at = 1 /\ word = Blank /\ done = 0 /\ checked = <<>> /\ applied = <<>>
  BY <1>1 DEF ModeInv, CheckInv, Applying
<1>6. CheckInv' /\ ApplyInv'
  BY <1>1, <1>5 DEF CheckInv, ApplyInv, BeforeWord, Checking, Applying
<1> QED
  BY <1>3, <1>4, <1>6 DEF ModeInv

LEMMA CheckWordInv ==
  ASSUME ModeInv, CheckWord
  PROVE  ModeInv'
<1>1. /\ phase = "check" /\ at <= Len(asked) /\ asked[at] \in Words
      /\ phase' = "checkWord" /\ word' = asked[at]
      /\ UNCHANGED <<vars, caller, room, asked, at, done, checked, applied, announced, parameter>>
  BY DEF CheckWord, More
<1>2. done = 0
  BY <1>1 DEF ModeInv, CheckInv
<1>3. 0 \in 0..Len(asked[at].letters)
  BY <1>1, WordTyped
<1>4. ModeTypeOK'
  BY <1>1, <1>2, <1>3 DEF ModeInv, ModeTypeOK
<1>5. PrefixInv' /\ ChansInv' /\ ApplyInv'
  BY <1>1, ChansStill DEF ModeInv, PrefixInv, ApplyInv, Applying
<1>6. IF checked = <<>> THEN BeforeWord' ELSE (\E p \in Nat : SinceWord(p))'
  <2>1. CASE checked = <<>>
    <3>1. BeforeWord
      BY <1>1, <2>1 DEF ModeInv, CheckInv, Checking
    <3>2. at \in 1..Len(asked)
      BY <1>1, <3>1, Typed DEF BeforeWord
    <3>3. \A k \in 1..at - 1 : k <= Len(asked) => EmptyWord(k)
      BY <3>1 DEF BeforeWord
    <3>4. BeforeWord'
      BY <1>1, <1>2, <3>1, <3>2, <3>3 DEF BeforeWord, EmptyWord
    <3> QED
      BY <2>1, <3>4
  <2>2. CASE checked # <<>>
    <3>1. PICK p \in Nat : SinceWord(p)
      BY <1>1, <2>2 DEF ModeInv, CheckInv, Checking
    <3>2. SinceWord(p)'
      BY <1>1, <3>1, SinceKept DEF SinceWord
    <3> QED
      BY <2>2, <3>2
  <2> QED
    BY <2>1, <2>2
<1>7. CheckInv'
  BY <1>1, <1>6 DEF CheckInv, Checking, Applying, ModeInv
<1> QED
  BY <1>4, <1>5, <1>7 DEF ModeInv

LEMMA CheckLetterInv ==
  ASSUME ModeInv, CheckLetter
  PROVE  ModeInv'
<1>1. /\ phase = "checkWord" /\ Inside /\ Accepted
      /\ at' = IF Takes(Letter) THEN at + 1 ELSE at
      /\ done' = done + 1 /\ checked' = Append(checked, Pass(at'))
      /\ UNCHANGED <<vars, phase, caller, room, asked, word, applied, announced, parameter>>
  BY DEF CheckLetter
<1> DEFINE pass == Pass(at')
<1>2. at' \in Nat
  BY <1>1, Typed
<1>3. /\ pass \in Change /\ pass.sign = word.sign /\ pass.letter = Letter /\ pass.place = at'
      /\ done' \in 1..Len(word.letters)
  BY <1>1, <1>2, LetterTyped
<1>4. Sound(pass)
  <2> SUFFICES ASSUME Takes(Letter)
               PROVE  /\ at' <= Len(asked)
                      /\ word.sign = "+" /\ Letter = "l" => LimitOf[asked[at']] \in 0..MaxLimit
                      /\ word.sign = "+" /\ Letter = "k" => asked[at'] # NoKey
    BY <1>3 DEF Sound
  <2> QED
    BY <1>1 DEF Accepted, Acceptable, On
<1> HIDE DEF pass
<1>5. checked' = Append(checked, pass)
  BY <1>1 DEF pass
<1>6. /\ checked' \in Seq(Change) /\ Len(checked') = Len(checked) + 1 /\ checked' # <<>>
      /\ \A i \in 1..Len(checked) : checked'[i] = checked[i]
  <2>1. checked \in Seq(Change)
    BY Typed
  <2>2. pass \in Change
    BY <1>3
  <2> QED
    BY <1>5, <2>1, <2>2, Appended
<1>7. ModeTypeOK'
  <2>1. done' \in 0..Len(word'.letters)
    BY <1>1, <1>3
  <2> QED
    BY <1>1, <1>2, <1>6, <2>1 DEF ModeInv, ModeTypeOK
<1>8. PrefixInv' /\ ChansInv' /\ ApplyInv'
  <2>1. PrefixInv'
    BY <1>1, <1>6, Typed DEF ModeInv, PrefixInv
  <2> QED
    BY <1>1, <2>1, ChansStill DEF ModeInv, ApplyInv, Applying
<1>9. \E p \in Nat : SinceWord(p)'
  <2>1. CASE checked = <<>>
    <3>1. BeforeWord
      BY <1>1, <2>1 DEF ModeInv, CheckInv, Checking
    <3>2. done = 0 /\ at \in 1..Len(asked) /\ word = asked[at]
      BY <1>1, <3>1 DEF BeforeWord
    <3>3. word \in Words /\ word.letters # <<>>
      BY <1>1, <3>2, WordTyped DEF ModeInv, CheckInv, Inside
    <3>4. \A k \in 1..at - 1 : EmptyWord(k)
      BY <3>1, <3>2, Typed DEF BeforeWord
    <3>5. FirstWord(at)
      BY <3>2, <3>3, <3>4 DEF FirstWord
    <3>6. Len(checked) = 0
      BY <2>1
    <3>7. Chain(at) /\ At(at, 0) = at
      BY <3>6 DEF Chain, At
    <3>8. PICK p \in Nat : p = at
      BY Typed
    <3>9. Letter = word.letters[1]
      BY <3>2 DEF Letter
    <3>10. FirstWord(p)' /\ Chain(p)' /\ Len(checked') = 1 /\ checked'[1] = pass
      BY <1>1, <1>3, <1>4, <1>5, <3>2, <3>5, <3>6, <3>7, <3>8, <3>9, Extended
    <3>11. SinceWord(p)'
      BY <1>1, <1>3, <3>2, <3>8, <3>10 DEF SinceWord, At
    <3> QED
      BY <3>11
  <2>2. CASE checked # <<>>
    <3>1. PICK p \in Nat : SinceWord(p)
      BY <1>1, <2>2 DEF ModeInv, CheckInv, Checking
    <3>2. Len(checked) < Len(asked[p].letters) =>
            /\ word = asked[p] /\ done = Len(checked) /\ at = At(p, Len(checked))
      BY <3>1 DEF SinceWord
    <3>3. Len(checked) < Len(asked[p].letters) =>
            /\ pass.sign = asked[p].sign
            /\ pass.letter = asked[p].letters[Len(checked) + 1]
            /\ pass.place = IF Takes(pass.letter) THEN At(p, Len(checked)) + 1
                                                  ELSE At(p, Len(checked))
            /\ Sound(pass)
      BY <1>1, <1>3, <1>4, <3>2 DEF Letter
    <3>4. /\ FirstWord(p)' /\ Chain(p)' /\ Len(checked') = Len(checked) + 1
          /\ checked'[Len(checked) + 1] = pass
      BY <1>1, <1>3, <1>5, <3>1, <3>3, Extended DEF SinceWord
    <3>5. Len(checked') < Len(asked'[p].letters) =>
            /\ phase' = "checkWord" /\ word' = asked'[p]
            /\ done' = Len(checked') /\ at' = At(p, done)'
      <4> SUFFICES ASSUME Len(checked') < Len(asked'[p].letters)
                   PROVE  /\ phase' = "checkWord" /\ word' = asked'[p]
                          /\ done' = Len(checked') /\ at' = At(p, done)'
        OBVIOUS
      <4>1. Len(asked[p].letters) \in Nat
        BY <3>1, WordTyped DEF SinceWord, FirstWord
      <4>2. Len(checked) < Len(asked[p].letters)
        BY <1>1, <3>4, <4>1, Typed
      <4>3. done' = Len(checked) + 1 /\ done' # 0
        BY <1>1, <3>2, <4>2, Typed
      <4> QED
        BY <1>1, <1>3, <3>2, <3>4, <4>2, <4>3 DEF At
    <3> QED
      BY <3>4, <3>5 DEF SinceWord
  <2> QED
    BY <2>1, <2>2
<1>10. CheckInv'
  BY <1>1, <1>6, <1>9 DEF CheckInv, Checking, Applying, ModeInv
<1> QED
  BY <1>7, <1>8, <1>10 DEF ModeInv

LEMMA CheckedWordInv ==
  ASSUME ModeInv, CheckedWord
  PROVE  ModeInv'
<1>1. /\ phase = "checkWord" /\ ~Inside /\ phase' = "check"
      /\ at' = at + 1 /\ word' = Blank /\ done' = 0
      /\ UNCHANGED <<vars, caller, room, asked, checked, applied, announced, parameter>>
  BY DEF CheckedWord
<1>2. ModeTypeOK'
  BY <1>1, EmptySeq DEF ModeInv, ModeTypeOK, Blank
<1>3. PrefixInv' /\ ChansInv' /\ ApplyInv'
  BY <1>1, ChansStill DEF ModeInv, PrefixInv, ApplyInv, Applying
<1>4. IF checked = <<>> THEN BeforeWord' ELSE (\E p \in Nat : SinceWord(p))'
  <2>1. CASE checked = <<>>
    <3>1. BeforeWord /\ word \in Words
      BY <1>1, <2>1 DEF ModeInv, CheckInv, Checking
    <3>2. done = 0 /\ at \in 1..Len(asked) /\ word = asked[at]
      BY <1>1, <3>1 DEF BeforeWord
    <3>3. EmptyWord(at)
      BY <1>1, <3>1, <3>2, WordTyped DEF EmptyWord, Inside
    <3>4. \A k \in 1..at : EmptyWord(k)
      BY <3>1, <3>2, <3>3, Typed DEF BeforeWord
    <3>5. \A k \in 1..at' - 1 : EmptyWord(k)'
      BY <1>1, <3>4, Typed DEF EmptyWord
    <3>6. BeforeWord'
      BY <1>1, <3>5, Typed DEF BeforeWord
    <3> QED
      BY <2>1, <3>6
  <2>2. CASE checked # <<>>
    <3>1. PICK p \in Nat : SinceWord(p)
      BY <1>1, <2>2 DEF ModeInv, CheckInv, Checking
    <3>2. ~(Len(checked) < Len(asked[p].letters))
      BY <1>1, <3>1 DEF SinceWord, Inside
    <3>3. SinceWord(p)'
      BY <1>1, <3>1, <3>2, SinceKept
    <3> QED
      BY <2>2, <3>3
  <2> QED
    BY <2>1, <2>2
<1>5. CheckInv'
  BY <1>1, <1>4 DEF CheckInv, Checking, Applying, ModeInv
<1> QED
  BY <1>2, <1>3, <1>5 DEF ModeInv

\* All letters are accepted: applymodes starts over, at the first argument.
LEMMA AcceptInv ==
  ASSUME ModeInv, Accept
  PROVE  ModeInv'
<1>1. /\ phase = "check" /\ ~(at <= Len(asked)) /\ phase' = "apply" /\ at' = 1
      /\ UNCHANGED <<vars, caller, room, asked, word, done, checked, applied, announced,
                      parameter>>
  BY DEF Accept, More
<1>2. ModeTypeOK' /\ PrefixInv' /\ ChansInv'
  BY <1>1, ChansStill DEF ModeInv, ModeTypeOK, PrefixInv
<1>3. CheckInv' /\ done = 0 /\ applied = <<>>
  BY <1>1 DEF ModeInv, CheckInv, Checking, Applying
<1>4. CASE checked = <<>>
  <2>1. BeforeWord
    BY <1>1, <1>4 DEF ModeInv, CheckInv, Checking
  <2>2. \A k \in 1..Len(asked) : EmptyWord(k)
    BY <1>1, <2>1, Typed DEF BeforeWord
  <2>3. NoWord'
    BY <1>1, <1>3, <2>2 DEF NoWord, EmptyWord
  <2> QED
    BY <1>2, <1>3, <2>3 DEF ModeInv, ApplyInv
<1>5. CASE checked # <<>>
  <2>1. PICK p \in Nat : SinceWord(p)
    BY <1>1, <1>5 DEF ModeInv, CheckInv, Checking
  <2>2. FirstWord(p)' /\ Chain(p)' /\ Len(asked[p].letters) \in Nat /\ 1 \in 1..p
    <3>1. FirstWord(p) /\ Chain(p)
      BY <2>1 DEF SinceWord
    <3>2. FirstWord(p)' /\ Chain(p)'
      BY <1>1, <3>1, ChainKept
    <3>3. p \in 1..Len(asked) /\ asked[p] \in Words
      BY <3>1 DEF FirstWord
    <3> QED
      BY <3>2, <3>3, Typed, WordTyped
  <2>3. Len(asked[p].letters) <= Len(checked)
    BY <1>1, <2>1, <2>2, Typed DEF SinceWord
  <2>4. Len(applied) = 0
    BY <1>3
  <2>5. OneWord(p)'
    BY <1>1, <1>3, <2>2, <2>3, <2>4 DEF OneWord
  <2> QED
    BY <1>2, <1>3, <2>5 DEF ModeInv, ApplyInv
<1> QED
  BY <1>4, <1>5

\* The letter applymodes carries out next is the one the validator accepted at that
\* place, with the argument it looked at.
LEMMA Carries ==
  ASSUME ModeInv, phase = "applyWord", Inside
  PROVE  /\ done + 1 \in 1..Len(checked) /\ Len(applied) = done
         /\ Place \in Nat /\ Pass(Place) = checked[done + 1] /\ Sound(Pass(Place))
         /\ \E p \in Nat : OneWord(p) /\ word = asked[p]
<1>1. ~NoWord
  BY Typed DEF NoWord, Inside
<1>2. PICK p \in Nat : OneWord(p)
  BY <1>1 DEF ModeInv, ApplyInv, Applying
<1>3. FirstWord(p) /\ Chain(p) /\ Len(asked[p].letters) <= Len(checked) /\ Len(applied) = done
  BY <1>2 DEF OneWord
<1>4. asked[p] \in Words /\ Len(asked[p].letters) \in Nat
  BY <1>3, WordTyped DEF FirstWord
<1>5. word = asked[p] /\ at = At(p, done)
  <2>1. CASE done = 0
    <3>1. at \in 1..p /\ word = asked[at]
      BY <1>2, <2>1 DEF OneWord
    <3>2. ~EmptyWord(at)
      BY <2>1, <3>1, WordTyped DEF EmptyWord, Inside
    <3>3. p \in Nat /\ \A k \in 1..p - 1 : EmptyWord(k)
      BY <1>3 DEF FirstWord
    <3>4. at = p
      BY <3>1, <3>2, <3>3
    <3> QED
      BY <2>1, <3>1, <3>4 DEF At
  <2>2. CASE done # 0
    <3>1. 0 < done /\ word = asked[p]
      BY <1>2, <2>2, Typed DEF OneWord
    <3>2. done < Len(asked[p].letters)
      BY <3>1 DEF Inside
    <3> QED
      BY <1>2, <3>1, <3>2 DEF OneWord
  <2> QED
    BY <2>1, <2>2
<1>6. done + 1 \in 1..Len(checked) /\ done + 1 <= Len(asked[p].letters)
  BY <1>3, <1>4, <1>5, Typed DEF Inside
<1>7. PICK j \in 1..Len(checked) : j = done + 1
  BY <1>6
<1>8. /\ checked[j].sign = asked[p].sign
      /\ checked[j].letter = asked[p].letters[j]
      /\ checked[j].place = IF Takes(checked[j].letter) THEN At(p, j - 1) + 1 ELSE At(p, j - 1)
      /\ Sound(checked[j])
  BY <1>3, <1>6, <1>7 DEF Chain
<1>9. j - 1 = done
  BY <1>7, Typed
<1>10. checked[j].letter = Letter /\ checked[j].place = Place /\ checked[j].sign = word.sign
  BY <1>5, <1>7, <1>8, <1>9 DEF Letter, Place
<1>11. checked[j] \in Change
  BY Typed, ElementOfSeq
<1>12. checked[j] = Pass(Place)
  BY <1>10, <1>11 DEF Change, Pass
<1>13. Place \in Nat
  BY Typed DEF Place
<1> QED
  BY <1>2, <1>3, <1>5, <1>6, <1>7, <1>8, <1>12, <1>13

\* What it takes for the argument.
LEMMA ArgumentIs ==
  ASSUME ModeInv, phase = "applyWord", Inside
  PROVE  /\ Argument \in Arguments \cup {NoKey}
         /\ On /\ Letter = "l" => Argument \in Arguments /\ LimitOf[Argument] \in 0..MaxLimit
         /\ On /\ Letter = "k" => Argument # NoKey
<1>1. \A k \in DOMAIN asked : asked[k] \in Arguments
  BY Typed, ElementOfSeq
<1>2. Argument \in Arguments \cup {NoKey}
  BY <1>1 DEF Argument
<1>3. ASSUME Takes(Letter) PROVE Place \in DOMAIN asked /\ Argument = asked[Place]
  <2>1. Place = at + 1
    BY <1>3 DEF Place
  <2>2. Place <= Len(asked)
    <3>1. Sound(Pass(Place))
      BY Carries
    <3> QED
      BY <1>3, <3>1 DEF Sound, Pass
  <2>3. Place \in DOMAIN asked
    BY <2>1, <2>2, Typed
  <2> QED
    BY <2>3 DEF Argument
<1>4. ASSUME On, Letter \in {"k", "l"}
      PROVE  /\ Letter = "l" => Argument \in Arguments /\ LimitOf[Argument] \in 0..MaxLimit
             /\ Letter = "k" => Argument # NoKey
  <2>1. Takes(Letter)
    BY <1>4 DEF Takes
  <2>2. Sound(Pass(Place))
    BY Carries
  <2> QED
    BY <1>1, <1>3, <1>4, <2>1, <2>2 DEF Sound, Pass, On
<1> QED
  BY <1>2, <1>4

\* The loop goes on after a letter.
LEMMA LetterInv ==
  ASSUME ModeInv, phase = "applyWord", Inside, ChansInv', NEW reported, Applied(reported)
  PROVE  ModeInv'
<1>1. /\ at' = Place /\ done' = done + 1 /\ applied' = Append(applied, Pass(Place))
      /\ announced' = IF reported THEN Append(announced, Letter) ELSE announced
      /\ UNCHANGED <<phase, caller, room, asked, word, checked, parameter>>
  BY DEF Applied
<1>2. /\ done + 1 \in 1..Len(checked) /\ Len(applied) = done /\ Place \in Nat
      /\ Pass(Place) = checked[done + 1]
  BY Carries
<1>3. Pass(Place) \in Change /\ Letter \in Letters /\ done' \in 1..Len(word.letters)
      /\ Pass(Place).place = Place
  BY <1>1, <1>2, LetterTyped
<1>4. /\ applied' \in Seq(Change) /\ Len(applied') = done + 1 /\ applied'[done + 1] = Pass(Place)
      /\ \A i \in 1..done : applied'[i] = applied[i]
  <2>1. applied \in Seq(Change)
    BY Typed
  <2>2. Pass(Place) \in Change
    BY <1>3
  <2> QED
    BY <1>1, <1>2, <2>1, <2>2, Appended
<1>5. announced' \in Seq({"+", "-"} \cup Letters)
  <2>1. announced \in Seq({"+", "-"} \cup Letters)
    BY Typed
  <2>2. Letter \in {"+", "-"} \cup Letters
    BY <1>3
  <2>3. Append(announced, Letter) \in Seq({"+", "-"} \cup Letters)
    BY <2>1, <2>2, AppendProperties
  <2> QED
    BY <1>1, <2>1, <2>3
<1>6. ModeTypeOK'
  <2>1. done' \in 0..Len(word'.letters)
    BY <1>1, <1>3
  <2> QED
    BY <1>1, <1>2, <1>4, <1>5, <2>1 DEF ModeInv, ModeTypeOK
<1>7. PrefixInv'
  <2>1. Len(applied') <= Len(checked')
    BY <1>1, <1>2, <1>4
  <2>2. ASSUME NEW i \in 1..Len(applied') PROVE applied'[i] = checked'[i]
    <3>1. i \in 1..done \/ i = done + 1
      BY <1>4, Typed
    <3> QED
      BY <1>1, <1>2, <1>4, <3>1 DEF ModeInv, PrefixInv
  <2> QED
    BY <2>1, <2>2 DEF PrefixInv
<1>8. CheckInv'
  BY <1>1 DEF CheckInv, Checking, Applying
<1>9. ApplyInv'
  <2>1. PICK p \in Nat : OneWord(p) /\ word = asked[p]
    BY Carries
  <2>2. FirstWord(p)' /\ Chain(p)'
    BY <1>1, <2>1, ChainKept DEF OneWord
  <2>3. At(p, done)' = at' /\ done' > 0
    BY <1>1, <1>2, <1>3, Typed DEF At
  <2>4. Len(asked'[p].letters) <= Len(checked')
    BY <1>1, <2>1 DEF OneWord
  <2>5. OneWord(p)'
    BY <1>1, <1>4, <2>1, <2>2, <2>3, <2>4 DEF OneWord
  <2> QED
    BY <2>5 DEF ApplyInv
<1> QED
  BY <1>6, <1>7, <1>8, <1>9 DEF ModeInv

LEMMA ApplyChannelModeInv ==
  ASSUME ModeInv, ApplyChannelMode
  PROVE  ModeInv'
<1>1. /\ phase = "applyWord" /\ Inside /\ Letter \in {"i", "t", "k", "l"}
      /\ chan' = [chan EXCEPT ![room] = Set(@)] /\ Applied(Reported(chan[room]))
  BY DEF ApplyChannelMode
<1>2. room \in ChanNames /\ chan[room] \in Shape /\ Settled(chan[room])
  BY DEF ModeInv, ModeTypeOK, ChansInv
<1>3. PICK limit \in Int : limit = IF On /\ Letter = "l" THEN LimitOf[Argument] ELSE 0
  BY <1>1, ArgumentIs
<1>4. PICK new : new = Set(chan[room])
  OBVIOUS
<1>5. PICK letter \in {"i", "t", "k", "l"}, on \in BOOLEAN, key \in Keys \cup Arguments \cup {NoKey} :
        letter = Letter /\ on = On /\ key = Argument
  BY <1>1, ArgumentIs DEF On
<1>6. new = SetTo(chan[room], letter, on, key, limit)
  BY <1>3, <1>4, <1>5 DEF Set, SetTo
<1>7. /\ letter = "k" /\ on => key # NoKey
      /\ letter = "l" /\ on => limit <= MaxLimit
  BY <1>1, <1>3, <1>5, ArgumentIs DEF MaxLimit
<1>8. new \in Shape /\ Settled(new)
  BY <1>2, <1>6, <1>7, SetSettled
<1>9. chan' = [chan EXCEPT ![room] = new]
  BY <1>1, <1>4
<1>10. ChansInv'
  BY <1>2, <1>8, <1>9, OneStored DEF ModeInv
<1> QED
  BY <1>1, <1>10, LetterInv

LEMMA ApplyOperatorInv ==
  ASSUME ModeInv, ApplyOperator
  PROVE  ModeInv'
<1>1. phase = "applyWord" /\ Inside /\ Applied(TRUE)
  BY DEF ApplyOperator
<1>2. PICK m \in Exact(chan[room], Argument) :
        chan' = [chan EXCEPT ![room].ops = IF On THEN @ \cup {m} ELSE @ \ {m},
                             ![room].opCount = IF On THEN @ + 1 ELSE @ - 1,
                             ![room].opRemoved = ~On]
  BY DEF ApplyOperator
<1>3. room \in ChanNames /\ chan[room] \in Shape /\ Settled(chan[room])
  BY DEF ModeInv, ModeTypeOK, ChansInv
<1>4. m \in Clients
  BY <1>2 DEF Exact, Live
<1>5. /\ chan[room].ops \in SUBSET Clients /\ chan[room].opCount \in Int
      /\ chan \in [ChanNames -> Shape]
  BY <1>3 DEF Shape, ModeInv, ChansInv
<1>6. PICK ops \in SUBSET Clients :
        ops = IF On THEN chan[room].ops \cup {m} ELSE chan[room].ops \ {m}
  BY <1>4, <1>5
<1>7. PICK count \in Int : count = IF On THEN chan[room].opCount + 1 ELSE chan[room].opCount - 1
  BY <1>5
<1>8. PICK removed \in BOOLEAN : removed = ~On
  BY DEF On
<1>9. PICK new : new = [chan[room] EXCEPT !.ops = ops, !.opCount = count, !.opRemoved = removed]
  OBVIOUS
<1>10. chan' = [chan EXCEPT ![room] = new]
  BY <1>2, <1>3, <1>5, <1>6, <1>7, <1>8, <1>9 DEF Shape
<1>11. new \in Shape /\ Settled(new)
  BY <1>3, <1>9, OperatorsSettled
<1>12. ChansInv'
  BY <1>3, <1>10, <1>11, OneStored DEF ModeInv
<1> QED
  BY <1>1, <1>12, LetterInv

LEMMA ApplyFounderInv ==
  ASSUME ModeInv, ApplyFounder
  PROVE  ModeInv'
<1>1. phase = "applyWord" /\ Inside /\ Applied(TRUE) /\ chan' = chan
  BY DEF ApplyFounder
<1>2. ChansInv'
  BY <1>1 DEF ModeInv, ChansInv, Settled
<1> QED
  BY <1>1, <1>2, LetterInv

LEMMA TakeWordInv ==
  ASSUME ModeInv, TakeWord
  PROVE  ModeInv'
<1>1. /\ phase = "apply" /\ at <= Len(asked) /\ phase' = "applyWord"
      /\ word' = IF done = 0 THEN asked[at] ELSE word
      /\ announced' = IF done = 0 THEN Append(announced, asked[at].sign) ELSE announced
      /\ UNCHANGED <<vars, caller, room, asked, at, done, checked, applied, parameter>>
  BY DEF TakeWord, More
<1>2. PrefixInv' /\ ChansInv' /\ CheckInv'
  BY <1>1, ChansStill DEF ModeInv, PrefixInv, CheckInv, Checking, Applying
<1>3. ASSUME done = 0 PROVE asked[at] \in Words
  <2>1. CASE NoWord
    <3>1. at \in 1..Len(asked)
      BY <1>1, <2>1, Typed DEF NoWord
    <3> QED
      BY <2>1, <3>1 DEF NoWord, EmptyWord
  <2>2. ASSUME NEW p \in Nat, OneWord(p) PROVE asked[at] \in Words
    <3>1. at \in 1..p /\ FirstWord(p)
      BY <1>3, <2>2 DEF OneWord
    <3>2. at = p \/ at \in 1..p - 1
      BY <3>1
    <3> QED
      BY <3>1, <3>2 DEF FirstWord, EmptyWord
  <2> QED
    BY <1>1, <2>1, <2>2 DEF ModeInv, ApplyInv, Applying
<1>4. ModeTypeOK'
  <2>1. word' \in Words \cup {Blank}
    BY <1>1, <1>3, Typed
  <2>2. done' \in 0..Len(word'.letters)
    <3>1. CASE done = 0
      BY <1>1, <1>3, <3>1, WordTyped
    <3>2. CASE done # 0
      BY <1>1, <3>2 DEF ModeInv, ModeTypeOK
    <3> QED
      BY <3>1, <3>2
  <2>3. announced' \in Seq({"+", "-"} \cup Letters)
    <3>1. announced \in Seq({"+", "-"} \cup Letters)
      BY Typed
    <3>2. CASE done = 0
      <4>1. asked[at].sign \in {"+", "-"} \cup Letters
        BY <1>3, <3>2, WordTyped
      <4>2. Append(announced, asked[at].sign) \in Seq({"+", "-"} \cup Letters)
        BY <3>1, <4>1, AppendProperties
      <4> QED
        BY <1>1, <3>2, <4>2
    <3> QED
      BY <1>1, <3>1, <3>2
  <2> QED
    BY <1>1, <2>1, <2>2, <2>3 DEF ModeInv, ModeTypeOK
<1>5. ApplyInv'
  <2>1. CASE NoWord
    <3>1. at \in 1..Len(asked) /\ done = 0
      BY <1>1, <2>1, Typed DEF NoWord
    <3>2. EmptyWord(at)
      BY <2>1, <3>1 DEF NoWord
    <3>3. NoWord'
      BY <1>1, <2>1, <3>1, <3>2 DEF NoWord, EmptyWord
    <3> QED
      BY <3>3 DEF ApplyInv
  <2>2. ASSUME NEW p \in Nat, OneWord(p) PROVE ApplyInv'
    <3>1. FirstWord(p)' /\ Chain(p)'
      BY <1>1, <2>2, ChainKept DEF OneWord
    <3>2. OneWord(p)'
      BY <1>1, <2>2, <3>1, Typed DEF OneWord
    <3> QED
      BY <3>2 DEF ApplyInv
  <2> QED
    BY <1>1, <2>1, <2>2 DEF ModeInv, ApplyInv, Applying
<1> QED
  BY <1>2, <1>4, <1>5 DEF ModeInv

LEMMA AppliedWordInv ==
  ASSUME ModeInv, AppliedWord
  PROVE  ModeInv'
<1>1. /\ phase = "applyWord" /\ ~Inside /\ phase' = "apply" /\ at' = at + 1
      /\ UNCHANGED <<vars, caller, room, asked, word, done, checked, applied, announced,
                      parameter>>
  BY DEF AppliedWord
<1>2. PrefixInv' /\ ChansInv' /\ CheckInv'
  BY <1>1, ChansStill DEF ModeInv, PrefixInv, CheckInv, Checking, Applying
<1>3. ModeTypeOK'
  BY <1>1 DEF ModeInv, ModeTypeOK
<1>4. ApplyInv'
  <2>1. CASE NoWord
    <3>1. NoWord'
      BY <1>1, <2>1, Typed DEF NoWord, EmptyWord
    <3> QED
      BY <3>1 DEF ApplyInv
  <2>2. ASSUME NEW p \in Nat, OneWord(p) PROVE ApplyInv'
    <3>1. FirstWord(p)' /\ Chain(p)' /\ p \in 1..Len(asked)
      BY <1>1, <2>2, ChainKept DEF OneWord, FirstWord
    <3>2. ASSUME done = 0 PROVE at + 1 \in 1..p
      <4>1. at \in 1..p /\ word = asked[at] /\ FirstWord(p)
        BY <1>1, <2>2, <3>2 DEF OneWord
      <4>2. at # p
        BY <1>1, <3>2, <4>1, Typed, WordTyped DEF Inside, FirstWord
      <4> QED
        BY <4>1, <4>2
    <3>3. ~(0 < done /\ done < Len(asked[p].letters))
      BY <1>1, <2>2 DEF OneWord, Inside
    <3>4. OneWord(p)'
      BY <1>1, <2>2, <3>1, <3>2, <3>3 DEF OneWord
    <3> QED
      BY <3>4 DEF ApplyInv
  <2> QED
    BY <1>1, <2>1, <2>2 DEF ModeInv, ApplyInv, Applying
<1> QED
  BY <1>2, <1>3, <1>4 DEF ModeInv

\* The ways a command ends.
LEMMA EndInv ==
  ASSUME ModeInv, Refuse \/ ApplyCrash \/ Finish
  PROVE  ModeInv'
<1>1. Over /\ applied' = applied /\ announced' = announced
  BY DEF Refuse, ApplyCrash, Finish
<1>2. ChansInv'
  <2>1. CASE Refuse
    BY <2>1, ChansStill DEF Refuse, ModeInv
  <2>2. CASE ApplyCrash
    BY <2>2 DEF ApplyCrash, Crash, ModeInv, ChansInv, Settled
  <2>3. CASE Finish
    <3>1. room \in ChanNames /\ chan[room] \in Shape /\ Settled(chan[room])
      BY DEF ModeInv, ModeTypeOK, ChansInv
    <3>2. PICK reported : StoreMode(caller, room, chan[room], reported)
      BY <2>3 DEF Finish
    <3> QED
      BY <3>1, <3>2, StoreModeSettled DEF ModeInv
  <2> QED
    BY <2>1, <2>2, <2>3
<1>3. parameter' \in Arguments \cup {NoKey}
  <2>1. CASE Refuse \/ ApplyCrash
    BY <2>1 DEF Refuse, ApplyCrash, ModeInv, ModeTypeOK
  <2>2. CASE Finish
    <3>1. ASSUME Len(asked) = 2 PROVE asked[2] \in Arguments
      <4>1. asked \in Seq(Arguments) /\ 2 \in 1..Len(asked)
        BY <3>1, Typed
      <4> QED
        BY <4>1, ElementOfSeq
    <3> QED
      BY <2>2, <3>1 DEF Finish, Shown
  <2> QED
    BY <2>1, <2>2
<1> QED
  BY <1>1, <1>2, <1>3, OverInv

-----------------------------------------------------------------------------
LEMMA ModeInitInv == ModeInit => ModeInv
<1> SUFFICES ASSUME ModeInit PROVE ModeInv
  OBVIOUS
<1>1. ModeTypeOK
  BY EmptySeq DEF ModeInit, ModeTypeOK, Blank
<1>2. ChansInv
  BY NewChannelSettled DEF ModeInit, Init, ChansInv
<1>3. Len(<<>>) = 0
  OBVIOUS
<1>4. PrefixInv /\ CheckInv /\ ApplyInv
  BY <1>3 DEF ModeInit, PrefixInv, CheckInv, ApplyInv, Checking, Applying
<1> QED
  BY <1>1, <1>2, <1>4 DEF ModeInv

LEMMA ModeStepInv == ModeInv /\ [ModeNext]_allVars => ModeInv'
<1> SUFFICES ASSUME ModeInv, [ModeNext]_allVars PROVE ModeInv'
  OBVIOUS
<1>1. ASSUME NEW c \in Clients, NEW n \in ChanNames, Begin(c, n) PROVE ModeInv'
  BY <1>1, BeginInv
<1>2. ASSUME NEW c \in Clients, NEW n \in ChanNames, Earlier(c, n), UNCHANGED modeVars
      PROVE  ModeInv'
  <2>1. ChansInv'
    BY <1>2, EarlierSettled DEF ModeInv
  <2>2. UNCHANGED <<phase, caller, room, asked, at, word, done, checked, applied, announced,
                  parameter>>
    BY <1>2 DEF modeVars, cursorVars
  <2>3. ModeTypeOK' /\ PrefixInv'
    BY <2>2 DEF ModeInv, ModeTypeOK, PrefixInv
  <2>4. CheckInv'
    BY <2>2 DEF ModeInv, CheckInv, Checking, Applying, BeforeWord, SinceWord,
                FirstWord, EmptyWord, Chain, At, Sound
  <2>5. ApplyInv'
    BY <2>2 DEF ModeInv, ApplyInv, Applying, NoWord, OneWord, FirstWord, EmptyWord,
                Chain, At, Sound
  <2> QED
    BY <2>1, <2>3, <2>4, <2>5 DEF ModeInv
<1>3. CASE CheckWord \/ CheckLetter \/ CheckedWord \/ Accept
  BY <1>3, CheckWordInv, CheckLetterInv, CheckedWordInv, AcceptInv
<1>4. CASE TakeWord \/ AppliedWord
  BY <1>4, TakeWordInv, AppliedWordInv
<1>5. CASE ApplyChannelMode \/ ApplyOperator \/ ApplyFounder
  BY <1>5, ApplyChannelModeInv, ApplyOperatorInv, ApplyFounderInv
<1>6. CASE Refuse \/ ApplyCrash \/ Finish
  BY <1>6, EndInv
<1>7. CASE UNCHANGED allVars
  <2>1. UNCHANGED <<phase, caller, room, asked, at, word, done, checked, applied, announced,
                  parameter>>
    BY <1>7 DEF allVars, modeVars, cursorVars
  <2>2. ChansInv'
    BY <1>7, ChansStill DEF allVars, ModeInv
  <2>3. ModeTypeOK' /\ PrefixInv'
    BY <2>1 DEF ModeInv, ModeTypeOK, PrefixInv
  <2>4. CheckInv' /\ ApplyInv'
    BY <2>1 DEF ModeInv, CheckInv, ApplyInv, Checking, Applying, BeforeWord, SinceWord,
                NoWord, OneWord, FirstWord, EmptyWord, Chain, At, Sound
  <2> QED
    BY <2>2, <2>3, <2>4 DEF ModeInv
<1> QED
  BY <1>1, <1>2, <1>3, <1>4, <1>5, <1>6, <1>7 DEF ModeNext, ModeStep

LEMMA ModeAlways == ModeSpec => []ModeInv
  BY ModeInitInv, ModeStepInv, PTL DEF ModeSpec

\* The cursors of both loops stay within what they count.
THEOREM ModeTypeCorrect == ModeSpec => []ModeTypeOK
<1>1. ModeInv => ModeTypeOK
  BY DEF ModeInv
<1> QED
  BY <1>1, ModeAlways, PTL

\* applymodes carries out what modeSyntaxValidator let pass, in its order and with the
\* arguments it looked at, for commands of any length, with words of any length.
THEOREM LoopsCountAlike == ModeSpec => []ReadsWhatWasChecked
<1>1. ModeInv => ReadsWhatWasChecked
  <2> SUFFICES ASSUME ModeInv PROVE ReadsWhatWasChecked
    OBVIOUS
  <2>1. IsPrefix(applied, checked)
    BY Typed DEF ModeInv, PrefixInv, IsPrefix
  <2>2. ASSUME phase = "apply", More, done = 0 PROVE asked[at] \in Words
    <3>1. CASE NoWord
      <4>1. at \in 1..Len(asked)
        BY <2>2, <3>1, Typed DEF NoWord, More
      <4> QED
        BY <3>1, <4>1 DEF NoWord, EmptyWord
    <3>2. ASSUME NEW p \in Nat, OneWord(p) PROVE asked[at] \in Words
      <4>1. at \in 1..p /\ FirstWord(p)
        BY <2>2, <3>2 DEF OneWord
      <4>2. at = p \/ at \in 1..p - 1
        BY <4>1
      <4> QED
        BY <4>1, <4>2 DEF FirstWord, EmptyWord
    <3> QED
      BY <2>2, <3>1, <3>2 DEF ModeInv, ApplyInv, Applying
  <2> QED
    BY <2>1, <2>2 DEF ReadsWhatWasChecked
<1> QED
  BY <1>1, ModeAlways, PTL

OpenInv == open \subseteq ChanNames

LEMMA OpenStep == OpenInv /\ [ModeNext]_allVars => OpenInv'
<1> SUFFICES ASSUME open \subseteq ChanNames, [ModeNext]_allVars
             PROVE  open' \subseteq ChanNames
  BY DEF OpenInv
<1>1. ASSUME NEW c \in Clients, NEW n \in ChanNames, Earlier(c, n)
      PROVE  open' \subseteq ChanNames
  BY <1>1 DEF Earlier, Session, chanVars, JoinNew, Join, ModeChannel, ModeOperator, StoreMode
<1>2. CASE UNCHANGED vars
  BY <1>2 DEF vars, chanVars
<1>3. CASE ModeStep
  BY <1>2, <1>3
     DEF ModeStep, CheckWord, CheckLetter, CheckedWord, Refuse, Accept, TakeWord,
         ApplyChannelMode, ApplyOperator, ApplyFounder, ApplyCrash, AppliedWord, Finish,
         Applied, Crash, StoreMode
<1> QED
  BY <1>1, <1>2, <1>3 DEF ModeNext, Begin, allVars

\* A channel has a key exactly under +k and a limit only under +l, in the middle of a
\* command too.
THEOREM SettingsAlwaysMatch == ModeSpec => []SettingsMatchModes
<1>1. ModeInv => \A n \in ChanNames : Settled(chan[n])
  BY DEF ModeInv, ChansInv
<1>2. ModeInv /\ OpenInv => SettingsMatchModes
  BY <1>1 DEF OpenInv, SettingsMatchModes, Settled
<1>3. ModeInit => OpenInv
  BY DEF OpenInv, ModeInit, Init
<1> QED
  BY <1>2, <1>3, ModeAlways, OpenStep, PTL DEF ModeSpec

-----------------------------------------------------------------------------
(* What is announced.                                                        *)

Spoken(seq, q, x) == \E k \in q + 1..Len(seq) : seq[k] = x

\* A sequence of q signs and then letters says what became of the modes old.
Told(seq, q, modes, old) ==
  /\ q \in 0..Len(seq)
  /\ \A k \in 1..q : seq[k] \in {"+", "-"}
  /\ \A k \in q + 1..Len(seq) : q > 0 /\ seq[k] \in Letters
  /\ \A x \in {"i", "t", "k", "l"} :
       x \in modes <=>
         IF Spoken(seq, q, x) THEN seq[q] = "+" ELSE x \in old

Announcement == Seq({"+", "-"} \cup Letters)

LEMMA NothingTold == ASSUME NEW modes PROVE Told(<<>>, 0, modes, modes)
  BY DEF Told, Spoken

LEMMA SignTold ==
  ASSUME NEW seq \in Announcement, NEW q \in Nat, NEW modes, NEW old, Told(seq, q, modes, old),
         q = Len(seq), NEW s \in {"+", "-"}, NEW new, new = Append(seq, s)
  PROVE  Told(new, q + 1, modes, old) /\ new[q + 1] = s /\ Len(new) = q + 1
<1>1. /\ Len(seq) \in Nat /\ Len(new) = Len(seq) + 1 /\ new[Len(seq) + 1] = s
      /\ \A k \in 1..Len(seq) : new[k] = seq[k]
  BY LenProperties, AppendProperties DEF Announcement
<1>2. \A k \in 1..q + 1 : new[k] \in {"+", "-"}
  BY <1>1 DEF Told
<1>3. ASSUME NEW x \in {"i", "t", "k", "l"} PROVE x \in modes <=> x \in old
  <2>1. \A k \in q + 1..Len(seq) : FALSE
    BY <1>1
  <2> QED
    BY <2>1 DEF Told, Spoken
<1>4. q + 1 \in 0..Len(new) /\ \A k \in (q + 1) + 1..Len(new) : FALSE
  BY <1>1
<1> QED
  BY <1>1, <1>2, <1>3, <1>4 DEF Told, Spoken

\* A letter told under the q-th sign turns the modes into after.
Turned(seq, q, modes, letter, new, after) ==
  /\ seq \in Announcement /\ q \in Nat \ {0} /\ letter \in Letters
  /\ new = Append(seq, letter)
  /\ \A x \in {"i", "t", "k", "l"} :
       x \in after <=> IF x = letter THEN seq[q] = "+" ELSE x \in modes

LEMMA LetterTold ==
  ASSUME NEW seq, NEW q, NEW modes, NEW letter, NEW new, NEW after,
         Turned(seq, q, modes, letter, new, after), NEW old, Told(seq, q, modes, old)
  PROVE  Told(new, q, after, old) /\ new[q] = seq[q]
<1>0. /\ seq \in Announcement /\ q \in Nat /\ q > 0 /\ letter \in Letters
      /\ new = Append(seq, letter)
  BY DEF Turned
<1>1. /\ Len(seq) \in Nat /\ Len(new) = Len(seq) + 1 /\ new[Len(seq) + 1] = letter
      /\ \A k \in 1..Len(seq) : new[k] = seq[k]
  BY <1>0, LenProperties, AppendProperties DEF Announcement
<1>2. q \in 0..Len(new) /\ \A k \in 1..q : new[k] \in {"+", "-"}
  BY <1>0, <1>1 DEF Told
<1>3. \A k \in q + 1..Len(new) : k \in q + 1..Len(seq) \/ k = Len(seq) + 1
  BY <1>0, <1>1 DEF Told
<1>4. \A k \in q + 1..Len(new) : new[k] \in Letters
  BY <1>0, <1>1, <1>3 DEF Told
<1>5. new[q] = seq[q]
  BY <1>0, <1>1 DEF Told
<1>6. ASSUME NEW x \in {"i", "t", "k", "l"}
      PROVE  Spoken(new, q, x) <=> x = letter \/ Spoken(seq, q, x)
  <2>1. ASSUME NEW k \in q + 1..Len(seq), seq[k] = x
        PROVE  \E i \in q + 1..Len(new) : new[i] = x
    BY <1>0, <1>1, <2>1 DEF Told
  <2>2. x = letter => \E i \in q + 1..Len(new) : new[i] = x
    BY <1>0, <1>1 DEF Told
  <2>3. ASSUME NEW k \in q + 1..Len(new), new[k] = x
        PROVE  x = letter \/ \E i \in q + 1..Len(seq) : seq[i] = x
    BY <1>0, <1>1, <1>3, <2>3 DEF Told
  <2> QED
    BY <2>1, <2>2, <2>3 DEF Spoken
<1>7. ASSUME NEW x \in {"i", "t", "k", "l"}
      PROVE  x \in after <=> IF Spoken(new, q, x) THEN new[q] = "+" ELSE x \in old
  <2>1. x \in modes <=> IF Spoken(seq, q, x) THEN seq[q] = "+" ELSE x \in old
    BY DEF Told
  <2>2. x \in after <=> IF x = letter THEN seq[q] = "+" ELSE x \in modes
    BY DEF Turned
  <2> QED
    BY <1>5, <1>6, <2>1, <2>2
<1>8. \A k \in q + 1..Len(new) : q > 0 /\ new[k] \in Letters
  BY <1>0, <1>4
<1> QED
  BY <1>2, <1>5, <1>7, <1>8, Zenon DEF Told

\* Where a command is in what it tells.
Telling(q) ==
  /\ Told(announced, q, chan[room].modes, before.modes)
  /\ Applying /\ done = 0 => q = Len(announced)
  /\ phase = "applyWord" => q > 0 /\ announced[q] = word.sign
  /\ phase = "apply" /\ done > 0 => q > 0 /\ announced[q] = word.sign

TellInv ==
  /\ ~Applying /\ phase # "over" => announced = <<>>
  /\ phase # "idle" => \E q \in Nat : Telling(q)

\* A step that announces nothing and leaves the modes alone.
LEMMA TellStill ==
  ASSUME TellInv, phase # "idle", UNCHANGED <<announced, before>>,
         chan'[room'].modes = chan[room].modes
  PROVE  \E q \in Nat : Telling(q) /\ Told(announced, q, chan[room].modes, before.modes)'
  BY DEF TellInv, Telling

LEMMA TellBegin ==
  ASSUME ModeInv, TellInv, NEW c \in Clients, NEW n \in ChanNames, Begin(c, n)
  PROVE  TellInv'
<1>1. /\ phase = "idle" /\ phase' = "check" /\ announced' = announced
      /\ before' = chan[n] /\ room' = n /\ chan' = chan
  BY DEF Begin, vars, chanVars
<1>2. announced = <<>>
  BY <1>1 DEF TellInv, Applying
<1>3. Told(<<>>, 0, chan[n].modes, chan[n].modes)
  BY NothingTold
<1>4. Telling(0)'
  BY <1>1, <1>2, <1>3 DEF Telling, Applying
<1> QED
  BY <1>1, <1>2, <1>4 DEF TellInv, Applying

LEMMA TellCheck ==
  ASSUME ModeInv, TellInv, CheckWord \/ CheckLetter \/ CheckedWord \/ Accept
  PROVE  TellInv'
<1>1. /\ phase \in {"check", "checkWord"} /\ phase' \in {"check", "checkWord", "apply"}
      /\ UNCHANGED <<announced, before, chan, room>>
      /\ phase' = "apply" => phase = "check" /\ done' = done
  BY DEF CheckWord, CheckLetter, CheckedWord, Accept, vars, chanVars
<1>2. announced = <<>> /\ Len(announced) = 0
  BY <1>1 DEF TellInv, Applying
<1>3. PICK q \in Nat : Telling(q) /\ Told(announced, q, chan[room].modes, before.modes)'
  BY <1>1, TellStill
<1>4. q = 0
  BY <1>2, <1>3 DEF Telling, Told
<1>5. phase' = "apply" => done' = 0
  BY <1>1 DEF ModeInv, CheckInv
<1>6. Telling(0)'
  BY <1>1, <1>2, <1>3, <1>4, <1>5 DEF Telling
<1> QED
  BY <1>1, <1>2, <1>6 DEF TellInv

LEMMA TellTakeWord ==
  ASSUME ModeInv, TellInv, TakeWord, ModeInv'
  PROVE  TellInv'
<1>1. /\ phase = "apply" /\ phase' = "applyWord" /\ UNCHANGED <<before, chan, room, done>>
      /\ word' = IF done = 0 THEN asked[at] ELSE word
      /\ announced' = IF done = 0 THEN Append(announced, asked[at].sign) ELSE announced
  BY DEF TakeWord, vars, chanVars
<1>2. PICK q \in Nat : Telling(q)
  BY <1>1 DEF TellInv
<1>3. CASE done = 0
  <2>1. q = Len(announced) /\ Told(announced, q, chan[room].modes, before.modes)
    BY <1>1, <1>2, <1>3 DEF Telling, Applying
  <2>2. PICK s \in {"+", "-"} : s = word'.sign
    <3>1. (word \in Words \cup {Blank})'
      BY DEF ModeInv, ModeTypeOK
    <3> QED
      BY <3>1, ModeAssumption DEF Blank
  <2>3. announced' = Append(announced, s) /\ announced \in Announcement
    BY <1>1, <1>3, <2>2, Typed DEF Announcement
  <2>4. PICK new : new = Append(announced, s)
    OBVIOUS
  <2>5. Told(new, q + 1, chan[room].modes, before.modes) /\ new[q + 1] = s /\ Len(new) = q + 1
    BY <1>2, <2>1, <2>3, <2>4, SignTold
  <2>6. Telling(q + 1)'
    BY <1>1, <2>2, <2>3, <2>4, <2>5 DEF Telling
  <2> QED
    BY <1>1, <2>6 DEF TellInv, Applying
<1>4. CASE done # 0
  <2>1. done > 0
    BY <1>4, Typed
  <2>2. Telling(q)'
    BY <1>1, <1>2, <1>4, <2>1 DEF Telling
  <2> QED
    BY <1>1, <2>2 DEF TellInv, Applying
<1> QED
  BY <1>3, <1>4

LEMMA TellAppliedWord ==
  ASSUME ModeInv, TellInv, AppliedWord
  PROVE  TellInv'
<1>1. /\ phase = "applyWord" /\ phase' = "apply"
      /\ UNCHANGED <<announced, before, chan, room, word, done>>
  BY DEF AppliedWord, vars, chanVars
<1>2. PICK q \in Nat : Telling(q)
  BY <1>1 DEF TellInv
<1>3. Telling(q)'
  BY <1>1, <1>2 DEF Telling, Applying
<1> QED
  BY <1>1, <1>3 DEF TellInv, Applying

\* A letter carried out, after which the channel has the modes after.
LEMMA TellLetter ==
  ASSUME ModeInv, TellInv, phase = "applyWord", Inside, NEW reported \in BOOLEAN,
         Applied(reported), NEW after, after = chan'[room].modes,
         IF reported
           THEN \A x \in {"i", "t", "k", "l"} :
                  x \in after <=> IF x = Letter THEN On ELSE x \in chan[room].modes
           ELSE after = chan[room].modes
  PROVE  TellInv'
<1>1. /\ phase' = phase /\ UNCHANGED <<room, word, before>> /\ done' = done + 1
      /\ announced' = IF reported THEN Append(announced, Letter) ELSE announced
  BY DEF Applied
<1>2. PICK q \in Nat : Telling(q)
  BY DEF TellInv
<1>3. /\ Told(announced, q, chan[room].modes, before.modes)
      /\ q > 0 /\ announced[q] = word.sign
  BY <1>2 DEF Telling
<1>4. Told(announced', q, after, before.modes) /\ announced'[q] = word.sign
  <2>1. CASE reported
    <3>1. PICK letter \in Letters : letter = Letter
      BY LetterTyped, Typed
    <3>2. PICK new : new = Append(announced, letter)
      OBVIOUS
    <3>3. announced \in Announcement
      BY Typed DEF Announcement
    <3>4. PICK modes, old : modes = chan[room].modes /\ old = before.modes
      OBVIOUS
    <3>5. Turned(announced, q, modes, letter, new, after)
      BY <1>2, <1>3, <2>1, <3>1, <3>2, <3>3, <3>4 DEF On, Turned
    <3>6. Told(announced, q, modes, old)
      BY <1>3, <3>4
    <3>7. Told(new, q, after, old) /\ new[q] = announced[q]
      BY <3>5, <3>6, LetterTold
    <3> QED
      BY <1>1, <1>3, <2>1, <3>1, <3>2, <3>4, <3>7
  <2>2. CASE ~reported
    BY <1>1, <1>3, <2>2
  <2> QED
    BY <2>1, <2>2
<1>5. done' # 0 /\ done' > 0
  BY <1>1, Typed
<1>6. Telling(q)'
  BY <1>1, <1>3, <1>4, <1>5 DEF Telling
<1> QED
  BY <1>1, <1>6 DEF TellInv, Applying

LEMMA TellApply ==
  ASSUME ModeInv, TellInv, ApplyChannelMode \/ ApplyOperator \/ ApplyFounder
  PROVE  TellInv'
<1>0. phase = "applyWord" /\ Inside /\ room \in ChanNames
  BY DEF ApplyChannelMode, ApplyOperator, ApplyFounder, ModeInv, ModeTypeOK
<1>1. chan \in [ChanNames -> Shape] /\ chan[room] \in Shape
  BY <1>0 DEF ModeInv, ChansInv
<1>2. CASE ApplyChannelMode
  <2>1. /\ Letter \in {"i", "t", "k", "l"} /\ Applied(Reported(chan[room]))
        /\ chan' = [chan EXCEPT ![room] = Set(@)]
    BY <1>2 DEF ApplyChannelMode
  <2>2. chan'[room] = Set(chan[room])
    BY <1>0, <1>1, <2>1
  <2>3. PICK sm : sm = SetMode(chan[room], Letter, On)
    OBVIOUS
  <2>4. /\ sm \in Shape
        /\ sm.modes = IF On THEN chan[room].modes \cup {Letter} ELSE chan[room].modes \ {Letter}
    <3>1. PICK modes \in SUBSET {"i", "t", "k", "l"} :
            modes = IF On THEN chan[room].modes \cup {Letter} ELSE chan[room].modes \ {Letter}
      BY <1>1, <2>1 DEF Shape
    <3>2. sm = [chan[room] EXCEPT !.modes = modes]
      BY <1>1, <2>3, <3>1 DEF SetMode, Shape
    <3> QED
      BY <1>1, <3>1, <3>2 DEF Shape
  <2>5. Set(chan[room]).modes = sm.modes
    BY <2>3, <2>4 DEF Set
  <2>6. PICK after : after = chan'[room].modes
    OBVIOUS
  <2>7. PICK reported \in BOOLEAN : reported = Reported(chan[room])
    BY DEF Reported, On
  <2>8. after = IF On THEN chan[room].modes \cup {Letter} ELSE chan[room].modes \ {Letter}
    BY <2>2, <2>4, <2>5, <2>6
  <2>9. reported = (On \/ Letter \in chan[room].modes)
    BY <2>7 DEF Reported
  <2>10. ~reported => after = chan[room].modes
    BY <2>8, <2>9
  <2>11. \A x \in {"i", "t", "k", "l"} :
           x \in after <=> IF x = Letter THEN On ELSE x \in chan[room].modes
    BY <2>8
  <2> QED
    BY <1>0, <2>1, <2>6, <2>7, <2>10, <2>11, TellLetter
<1>3. ASSUME Applied(TRUE), chan'[room].modes = chan[room].modes, Letter \in {"o", "q"}
      PROVE  TellInv'
  <2>1. PICK after : after = chan'[room].modes
    OBVIOUS
  <2>2. \A x \in {"i", "t", "k", "l"} :
           x \in after <=> IF x = Letter THEN On ELSE x \in chan[room].modes
    BY <1>3, <2>1
  <2>3. TRUE \in BOOLEAN
    OBVIOUS
  <2> QED
    BY <1>0, <1>3, <2>1, <2>2, <2>3, TellLetter
<1>4. CASE ApplyOperator
  <2>1. PICK m : chan' = [chan EXCEPT ![room].ops = IF On THEN @ \cup {m} ELSE @ \ {m},
                                      ![room].opCount = IF On THEN @ + 1 ELSE @ - 1,
                                      ![room].opRemoved = ~On]
    BY <1>4 DEF ApplyOperator
  <2>2. chan'[room].modes = chan[room].modes
    BY <1>0, <1>1, <2>1 DEF Shape
  <2> QED
    BY <1>3, <1>4, <2>2 DEF ApplyOperator
<1>5. CASE ApplyFounder
  BY <1>3, <1>5 DEF ApplyFounder
<1> QED
  BY <1>2, <1>4, <1>5

LEMMA AfterModeModes ==
  ASSUME NEW ch \in Shape, NEW c, NEW reported, NEW p \in AfterMode(ch, c, reported)
  PROVE  p.modes = ch.modes
<1> DEFINE heirs == Heirs(ch, c, FALSE)
<1>1. CASE reported /\ ch.opRemoved /\ heirs # {}
  <2>1. PICK q \in Promoted(ch, heirs) : p = [q EXCEPT !.opRemoved = FALSE]
    BY <1>1 DEF AfterMode
  <2>2. PICK h \in heirs : q = [ch EXCEPT !.ops = @ \cup {h}]
    BY <1>1, <2>1 DEF Promoted
  <2>3. PICK ops : q = [ch EXCEPT !.ops = ops]
    BY <2>2
  <2>4. q.modes = ch.modes /\ [q EXCEPT !.opRemoved = FALSE].modes = q.modes
    BY <2>3 DEF Shape
  <2> QED
    BY <2>1, <2>4
<1>2. CASE ~(reported /\ ch.opRemoved /\ heirs # {})
  BY <1>2 DEF AfterMode
<1> QED
  BY <1>1, <1>2

LEMMA TellEnd ==
  ASSUME ModeInv, TellInv, Refuse \/ ApplyCrash \/ Finish
  PROVE  TellInv'
<1>1. /\ phase # "idle" /\ phase' = "over" /\ room' = room /\ before' = before
      /\ announced' = announced
  BY DEF Refuse, ApplyCrash, Finish, Over
<1>2. chan'[room].modes = chan[room].modes
  <2>1. CASE Refuse \/ ApplyCrash
    BY <2>1 DEF Refuse, ApplyCrash, Crash, vars, chanVars
  <2>2. CASE Finish
    <3>1. PICK reported : StoreMode(caller, room, chan[room], reported)
      BY <2>2 DEF Finish
    <3>2. PICK p \in AfterMode(chan[room], caller, reported) : chan' = [chan EXCEPT ![room] = p]
      BY <3>1 DEF StoreMode
    <3>3. room \in ChanNames /\ chan \in [ChanNames -> Shape]
      BY DEF ModeInv, ModeTypeOK, ChansInv
    <3>4. p.modes = chan[room].modes
      BY <3>2, <3>3, AfterModeModes
    <3> QED
      BY <3>2, <3>3, <3>4
  <2> QED
    BY <2>1, <2>2
<1>3. PICK q \in Nat : Told(announced, q, chan[room].modes, before.modes)'
  BY <1>1, <1>2, TellStill
<1>4. Telling(q)'
  BY <1>1, <1>3 DEF Telling, Applying
<1> QED
  BY <1>1, <1>4 DEF TellInv

LEMMA TellStep == ModeInv /\ TellInv /\ [ModeNext]_allVars => TellInv'
<1> SUFFICES ASSUME ModeInv, TellInv, [ModeNext]_allVars PROVE TellInv'
  OBVIOUS
<1>1. ASSUME NEW c \in Clients, NEW n \in ChanNames, Begin(c, n) PROVE TellInv'
  BY <1>1, TellBegin
<1>2. ASSUME phase = "idle", UNCHANGED modeVars PROVE TellInv'
  <2>1. UNCHANGED <<phase, announced>>
    BY <1>2 DEF modeVars
  <2> QED
    BY <1>2, <2>1 DEF TellInv, Applying
<1>3. CASE ModeStep
  <2>1. CASE TakeWord
    BY <2>1, TakeWordInv, TellTakeWord
  <2> QED
    BY <1>3, <2>1, TellCheck, TellAppliedWord, TellApply, TellEnd DEF ModeStep
<1>4. CASE UNCHANGED allVars
  <2>1. UNCHANGED <<phase, announced, room, before, done, word, chan>>
    BY <1>4 DEF allVars, modeVars, cursorVars, vars, chanVars
  <2> QED
    BY <2>1 DEF TellInv, Telling, Applying
<1> QED
  BY <1>1, <1>2, <1>3, <1>4 DEF ModeNext

LEMMA TellIsRight ==
  ASSUME ModeInv, TellInv
  PROVE  LettersAnnounced
<1> SUFFICES ASSUME phase # "idle", NEW x \in {"i", "t", "k", "l"}
             PROVE  /\ Places({x}) = {} => (x \in chan[room].modes <=> x \in before.modes)
                    /\ \A k \in Places({x}) :
                         (\A j \in Places({x}) : j <= k) =>
                           (x \in chan[room].modes <=> SignAt(k) = "+")
  BY DEF LettersAnnounced
<1>1. PICK q \in Nat : Told(announced, q, chan[room].modes, before.modes)
  BY DEF TellInv, Telling
<1>2. DOMAIN announced = 1..Len(announced) /\ Len(announced) \in Nat
  BY Typed, LenProperties
<1>3. \A k \in q + 1..Len(announced) : k \in 1..Len(announced)
  OBVIOUS
<1>4. ASSUME Places({x}) = {} PROVE x \in chan[room].modes <=> x \in before.modes
  <2>1. ~ \E k \in q + 1..Len(announced) : announced[k] = x
    BY <1>2, <1>3, <1>4 DEF Places
  <2> QED
    BY <1>1, <2>1 DEF Told, Spoken
<1>5. ASSUME NEW k \in Places({x}) PROVE x \in chan[room].modes <=> SignAt(k) = "+"
  <2>1. k \in 1..Len(announced) /\ announced[k] = x
    BY <1>2 DEF Places
  <2>2. k \in q + 1..Len(announced) /\ q > 0 /\ q \in 1..Len(announced)
    BY <1>1, <1>2, <2>1 DEF Told
  <2>3. x \in chan[room].modes <=> announced[q] = "+"
    <3>1. Spoken(announced, q, x)
      BY <2>1, <2>2 DEF Spoken
    <3> QED
      BY <1>1, <3>1 DEF Told
  <2>4. PICK signs : signs = {j \in Places({"+", "-"}) : j < k}
    OBVIOUS
  <2>5. q \in signs /\ \A j \in signs : j \in Nat /\ j <= q
    BY <1>1, <1>2, <2>2, <2>4 DEF Places, Told, Letters
  <2>6. Max(signs) = q
    <3>1. \E i \in signs : \A j \in signs : i >= j
      BY <1>1, <2>5 DEF Told
    <3>2. Max(signs) \in signs /\ \A j \in signs : Max(signs) >= j
      BY <3>1, Zenon DEF Max
    <3>3. PICK top : top = Max(signs)
      OBVIOUS
    <3>4. top \in Nat /\ top <= q /\ top >= q /\ q \in Nat
      BY <1>1, <2>5, <3>2, <3>3
    <3> QED
      BY <3>3, <3>4
  <2> QED
    BY <2>3, <2>4, <2>6 DEF SignAt
<1> QED
  BY <1>4, <1>5

LEMMA TellInit == ModeInit => TellInv
  BY DEF ModeInit, TellInv, Applying

\* The letters announced are those carried out, for commands of any length and words of
\* any length, and also when the server ends in the middle of one.  (Not so the parameter
\* that follows them, which may be a second word: of that, the next theorem says when it
\* is right.)
THEOREM LettersAnnouncedRight == ModeSpec => []LettersAnnounced
<1>1. ModeInv /\ TellInv => LettersAnnounced
  BY TellIsRight
<1> QED
  BY <1>1, TellInit, ModeAlways, TellStep, PTL DEF ModeSpec

-----------------------------------------------------------------------------
(* The parameter announced.                                                  *)

\* A command of two arguments has one for its letters, so whatever takes one takes that.
ParameterInv ==
  /\ at # 0
  /\ Len(asked) = 2 =>
       /\ Places({"k"}) # {} /\ "k" \in chan[room].modes => chan[room].key = asked[2]
       /\ Places({"l"}) # {} /\ "l" \in chan[room].modes =>
            chan[room].limit = LimitOf[asked[2]]
  /\ parameter # NoKey => Len(asked) = 2 /\ parameter = asked[2]
  /\ parameter # NoKey => phase = "over"

\* No letter is announced, and nothing said of the channel.
LEMMA NoLetterYet ==
  ASSUME announced = <<>>, NEW x PROVE Places({x}) = {}
  BY DEF Places

\* The one argument, for a letter that takes one.
LEMMA OneArgument ==
  ASSUME ModeInv, ParameterInv, phase = "applyWord", Inside, Takes(Letter), Len(asked) = 2
  PROVE  Argument = asked[2]
<1>1. Place = at + 1 /\ at \in Nat /\ at # 0
  BY Typed DEF Place, ParameterInv
<1>2. Place <= Len(asked)
  <2>1. Sound(Pass(Place))
    BY Carries
  <2> QED
    BY <2>1 DEF Sound, Pass
<1>3. Place = 2
  BY <1>1, <1>2
<1>4. 2 \in DOMAIN asked
  BY Typed
<1> QED
  BY <1>3, <1>4 DEF Argument

LEMMA CursorStarts ==
  ASSUME ModeInv, at # 0, ModeStep
  PROVE  at' # 0
<1>1. at \in Nat /\ at + 1 # 0 /\ Place # 0
  BY Typed DEF Place
<1>2. CASE CheckWord \/ Refuse \/ TakeWord \/ ApplyCrash \/ Finish
  BY <1>2 DEF CheckWord, Refuse, TakeWord, ApplyCrash, Finish, Over, cursorVars
<1>3. CASE CheckLetter \/ CheckedWord \/ AppliedWord
  BY <1>1, <1>3 DEF CheckLetter, CheckedWord, AppliedWord
<1>4. CASE Accept
  BY <1>4 DEF Accept
<1>5. CASE ApplyChannelMode \/ ApplyOperator \/ ApplyFounder
  BY <1>1, <1>5 DEF ApplyChannelMode, ApplyOperator, ApplyFounder, Applied
<1> QED
  BY <1>2, <1>3, <1>4, <1>5 DEF ModeStep

\* A letter more is announced: the places of every other are what they were.
LEMMA OtherPlaces ==
  ASSUME ModeInv, NEW e \in {"+", "-"} \cup Letters, announced' = Append(announced, e),
         NEW x, x # e, Places({x})' # {}
  PROVE  Places({x}) # {}
<1>1. announced \in Seq({"+", "-"} \cup Letters)
  BY Typed
<1>2. PICK new \in Seq({"+", "-"} \cup Letters) : new = Append(announced, e)
  BY <1>1, AppendProperties
<1>3. /\ Len(new) = Len(announced) + 1 /\ new[Len(announced) + 1] = e
      /\ \A i \in 1..Len(announced) : new[i] = announced[i]
      /\ DOMAIN new = 1..Len(new) /\ DOMAIN announced = 1..Len(announced)
      /\ Len(announced) \in Nat
  BY <1>1, <1>2, AppendProperties, LenProperties
<1>4. PICK k \in DOMAIN new : new[k] = x
  BY <1>2 DEF Places
<1>5. k \in 1..Len(announced)
  BY <1>3, <1>4
<1> QED
  BY <1>3, <1>4, <1>5 DEF Places

\* A step that announces no "k" or "l" and leaves the settings of the channel alone.
LEMMA ParameterStill ==
  ASSUME ParameterInv, UNCHANGED <<asked, parameter>>, phase # "over", at' # 0,
         chan'[room'].modes = chan[room].modes, chan'[room'].key = chan[room].key,
         chan'[room'].limit = chan[room].limit,
         \A x \in {"k", "l"} : Places({x})' # {} => Places({x}) # {}
  PROVE  ParameterInv'
  BY DEF ParameterInv

LEMMA ParameterLetter ==
  ASSUME ModeInv, ParameterInv, ApplyChannelMode
  PROVE  ParameterInv'
<1>1. /\ phase = "applyWord" /\ Inside /\ Letter \in {"i", "t", "k", "l"}
      /\ chan' = [chan EXCEPT ![room] = Set(@)] /\ Applied(Reported(chan[room]))
  BY DEF ApplyChannelMode
<1>2. /\ UNCHANGED <<room, asked, parameter>> /\ phase' # "idle"
      /\ announced' = Append(announced, Letter) \/ announced' = announced
  BY <1>1 DEF Applied
<1>3. room \in ChanNames /\ chan \in [ChanNames -> Shape] /\ chan[room] \in Shape
  BY DEF ModeInv, ModeTypeOK, ChansInv
<1>4. at' # 0
  BY CursorStarts DEF ModeStep, ParameterInv
<1>5. PICK ch \in Shape : ch = chan[room]
  BY <1>3
<1>6. PICK letter \in {"i", "t", "k", "l"} : letter = Letter
  BY <1>1
<1>7. PICK on \in BOOLEAN : on = On
  BY DEF On
<1>8. PICK modes \in SUBSET {"i", "t", "k", "l"} :
        modes = IF on THEN ch.modes \cup {letter} ELSE ch.modes \ {letter}
  BY DEF Shape
<1>9. PICK key : key = IF letter # "k" THEN ch.key ELSE IF on THEN Argument ELSE NoKey
  OBVIOUS
<1>10. PICK limit :
         limit = IF letter # "l" THEN ch.limit ELSE IF on THEN LimitOf[Argument] ELSE 0
  OBVIOUS
<1>11. chan'[room] = [ch EXCEPT !.modes = modes, !.key = key, !.limit = limit]
  <2>1. SetMode(ch, letter, on) = [ch EXCEPT !.modes = modes]
    BY <1>8 DEF SetMode
  <2>2. [ch EXCEPT !.modes = modes].key = ch.key /\ [ch EXCEPT !.modes = modes].limit = ch.limit
    BY DEF Shape
  <2>3. Set(ch) = [ch EXCEPT !.modes = modes, !.key = key, !.limit = limit]
    BY <1>6, <1>7, <1>9, <1>10, <2>1, <2>2 DEF Set, Shape
  <2> QED
    BY <1>1, <1>3, <1>5, <2>3
<1>12. PICK new : new = chan'[room]
  OBVIOUS
<1>13. new.modes = modes /\ new.key = key /\ new.limit = limit
  BY <1>11, <1>12 DEF Shape
<1>14. Letter \in {"+", "-"} \cup Letters
  BY <1>1, LetterTyped DEF Letters
<1>15. \A x \in {"k", "l"} : x # letter /\ Places({x})' # {} => Places({x}) # {}
  <2>1. CASE announced' = Append(announced, Letter)
    BY <1>6, <1>14, <2>1, OtherPlaces
  <2>2. CASE announced' = announced
    BY <2>2 DEF Places
  <2> QED
    BY <1>2, <2>1, <2>2
<1>16. letter \in {"k", "l"} /\ Len(asked) = 2 => Argument = asked[2]
  BY <1>1, <1>6, OneArgument DEF Takes
<1>17. ASSUME Len(asked) = 2, Places({"k"})' # {}, "k" \in modes PROVE key = asked[2]
  <2>1. CASE letter = "k"
    BY <1>8, <1>9, <1>16, <1>17, <2>1
  <2>2. CASE letter # "k"
    <3>1. Places({"k"}) # {} /\ "k" \in ch.modes
      BY <1>8, <1>15, <1>17, <2>2
    <3> QED
      BY <1>5, <1>9, <1>17, <2>2, <3>1 DEF ParameterInv
  <2> QED
    BY <2>1, <2>2
<1>18. ASSUME Len(asked) = 2, Places({"l"})' # {}, "l" \in modes
       PROVE  limit = LimitOf[asked[2]]
  <2>1. CASE letter = "l"
    BY <1>8, <1>10, <1>16, <1>18, <2>1
  <2>2. CASE letter # "l"
    <3>1. Places({"l"}) # {} /\ "l" \in ch.modes
      BY <1>8, <1>15, <1>18, <2>2
    <3> QED
      BY <1>5, <1>10, <1>18, <2>2, <3>1 DEF ParameterInv
  <2> QED
    BY <2>1, <2>2
<1>19. parameter' = NoKey
  BY <1>1, <1>2 DEF ParameterInv
<1> QED
  BY <1>2, <1>4, <1>12, <1>13, <1>17, <1>18, <1>19 DEF ParameterInv

LEMMA ParameterOperator ==
  ASSUME ModeInv, ParameterInv, ApplyOperator \/ ApplyFounder
  PROVE  ParameterInv'
<1>1. /\ phase = "applyWord" /\ Inside /\ Letter \in {"o", "q"} /\ Applied(TRUE)
      /\ room \in ChanNames /\ chan \in [ChanNames -> Shape]
  BY DEF ApplyOperator, ApplyFounder, ModeInv, ModeTypeOK, ChansInv
<1>2. UNCHANGED <<room, asked, parameter>> /\ announced' = Append(announced, Letter)
  BY <1>1 DEF Applied
<1>3. at' # 0
  BY CursorStarts DEF ModeStep, ParameterInv
<1>4. /\ chan'[room].modes = chan[room].modes /\ chan'[room].key = chan[room].key
      /\ chan'[room].limit = chan[room].limit
  <2>1. CASE ApplyOperator
    <3>1. PICK m : chan' = [chan EXCEPT ![room].ops = IF On THEN @ \cup {m} ELSE @ \ {m},
                                        ![room].opCount = IF On THEN @ + 1 ELSE @ - 1,
                                        ![room].opRemoved = ~On]
      BY <2>1 DEF ApplyOperator
    <3> QED
      BY <1>1, <3>1 DEF Shape
  <2>2. CASE ApplyFounder
    BY <2>2 DEF ApplyFounder
  <2> QED
    BY <2>1, <2>2
<1>5. \A x \in {"k", "l"} : Places({x})' # {} => Places({x}) # {}
  BY <1>1, <1>2, OtherPlaces DEF Letters
<1> QED
  BY <1>1, <1>2, <1>3, <1>4, <1>5, ParameterStill

LEMMA AfterModeSettings ==
  ASSUME NEW ch \in Shape, NEW c, NEW reported, NEW p \in AfterMode(ch, c, reported)
  PROVE  p.modes = ch.modes /\ p.key = ch.key /\ p.limit = ch.limit
<1> DEFINE heirs == Heirs(ch, c, FALSE)
<1>1. CASE reported /\ ch.opRemoved /\ heirs # {}
  <2>1. PICK q \in Promoted(ch, heirs) : p = [q EXCEPT !.opRemoved = FALSE]
    BY <1>1 DEF AfterMode
  <2>2. PICK h \in heirs : q = [ch EXCEPT !.ops = @ \cup {h}]
    BY <1>1, <2>1 DEF Promoted
  <2>3. PICK ops : q = [ch EXCEPT !.ops = ops]
    BY <2>2
  <2>4. p = [ch EXCEPT !.ops = ops, !.opRemoved = FALSE]
    BY <2>1, <2>3 DEF Shape
  <2> QED
    BY <2>4 DEF Shape
<1>2. CASE ~(reported /\ ch.opRemoved /\ heirs # {})
  BY <1>2 DEF AfterMode
<1> QED
  BY <1>1, <1>2

LEMMA ParameterFinish ==
  ASSUME ModeInv, ParameterInv, Finish
  PROVE  ParameterInv'
<1>1. /\ phase = "apply" /\ phase' = "over" /\ UNCHANGED <<room, asked, announced, at>>
      /\ parameter' = Shown
  BY DEF Finish, Over, cursorVars
<1>2. room \in ChanNames /\ chan \in [ChanNames -> Shape] /\ chan[room] \in Shape
  BY DEF ModeInv, ModeTypeOK, ChansInv
<1>3. PICK p \in AfterMode(chan[room], caller, Announces) : chan' = [chan EXCEPT ![room] = p]
  BY DEF Finish, StoreMode
<1>4. /\ chan'[room].modes = chan[room].modes /\ chan'[room].key = chan[room].key
      /\ chan'[room].limit = chan[room].limit
  <2>1. chan'[room] = p
    BY <1>2, <1>3
  <2> QED
    BY <1>2, <1>3, <2>1, AfterModeSettings
<1>5. \A x : Places({x})' = Places({x})
  BY <1>1 DEF Places
<1>6. parameter' # NoKey => Len(asked) = 2 /\ parameter' = asked[2]
  BY <1>1 DEF Shown
<1> QED
  BY <1>1, <1>4, <1>5, <1>6 DEF ParameterInv

LEMMA ParameterStep == ModeInv /\ TellInv /\ ParameterInv /\ [ModeNext]_allVars => ParameterInv'
<1> SUFFICES ASSUME ModeInv, TellInv, ParameterInv, [ModeNext]_allVars PROVE ParameterInv'
  OBVIOUS
<1>1. ASSUME phase = "idle", UNCHANGED <<at, announced, parameter>> PROVE ParameterInv'
  <2>1. announced' = <<>> /\ parameter' = NoKey /\ at' # 0
    BY <1>1 DEF TellInv, Applying, ParameterInv
  <2>2. \A x : Places({x})' = {}
    BY <2>1 DEF Places
  <2> QED
    BY <2>1, <2>2 DEF ParameterInv
<1>2. ASSUME NEW c \in Clients, NEW n \in ChanNames, Begin(c, n) PROVE ParameterInv'
  BY <1>1, <1>2 DEF Begin, cursorVars
<1>3. ASSUME phase = "idle", UNCHANGED modeVars PROVE ParameterInv'
  BY <1>1, <1>3 DEF modeVars, cursorVars
<1>4. CASE CheckWord \/ CheckLetter \/ CheckedWord \/ Accept \/ TakeWord \/ AppliedWord
           \/ Refuse \/ ApplyCrash
  <2>1. /\ UNCHANGED <<chan, room, asked, parameter>> /\ phase # "over"
        /\ \/ announced' = announced
           \/ announced' = Append(announced, asked[at].sign) /\ TakeWord
    BY <1>4 DEF CheckWord, CheckLetter, CheckedWord, Accept, TakeWord, AppliedWord, Refuse,
                ApplyCrash, Crash, Over, vars, chanVars
  <2>2. at' # 0
    BY <1>4, CursorStarts DEF ModeStep, ParameterInv
  <2>3. \A x \in {"k", "l"} : Places({x})' # {} => Places({x}) # {}
    <3>1. CASE announced' = announced
      BY <3>1 DEF Places
    <3>2. CASE announced' = Append(announced, asked[at].sign) /\ announced' # announced
      <4>1. TakeWord /\ done = 0
        BY <2>1, <3>2 DEF TakeWord
      <4>2. (word \in Words \cup {Blank})' /\ word' = asked[at]
        BY <4>1, TakeWordInv DEF TakeWord, ModeInv, ModeTypeOK
      <4>3. asked[at].sign \in {"+", "-"}
        BY <4>2, ModeAssumption DEF Blank
      <4> QED
        BY <3>2, <4>3, OtherPlaces
    <3> QED
      BY <2>1, <3>1, <3>2
  <2> QED
    BY <2>1, <2>2, <2>3, ParameterStill
<1>5. CASE UNCHANGED allVars
  <2>1. UNCHANGED <<chan, room, asked, at, announced, parameter, phase>>
    BY <1>5 DEF allVars, modeVars, cursorVars, vars, chanVars
  <2> QED
    BY <2>1 DEF ParameterInv, Places
<1> QED
  BY <1>2, <1>3, <1>4, <1>5, ParameterLetter, ParameterOperator, ParameterFinish
     DEF ModeNext, ModeStep

\* A key or limit that is announced with its value is announced with the right one, for
\* words of any length.
THEOREM ParameterAnnouncedRight == ModeSpec => []ParameterAnnounced
<1>1. ModeInit => ParameterInv
  BY NoLetterYet DEF ModeInit, ParameterInv
<1>2. ParameterInv => ParameterAnnounced
  BY DEF ParameterInv, ParameterAnnounced
<1> QED
  BY <1>1, <1>2, TellInit, ModeAlways, TellStep, ParameterStep, PTL DEF ModeSpec

-----------------------------------------------------------------------------
(* Commands of one letter.                                                   *)

LEMMA AtomicLooksAlike ==
  /\ Atomic!Live = Live
  /\ \A S : Atomic!Cardinality(S) = Cardinality(S)
  /\ \A ch, s : Atomic!Exact(ch, s) = Exact(ch, s)
  /\ \A ch, s : Atomic!IsClientInChannel(ch, s) <=> IsClientInChannel(ch, s)
  /\ \A ch, s : Atomic!LookupFails(ch, s) <=> LookupFails(ch, s)
  /\ \A ch, c : Atomic!IsOperator(ch, c) <=> IsOperator(ch, c)
  /\ \A c : Atomic!Acting(c) <=> Acting(c)
<1>1. Atomic!Live = Live
  BY DEF Atomic!Live, Live
<1>2. \A S : Atomic!Cardinality(S) = Cardinality(S)
  <2>1. \A S : Atomic!IsFiniteSet(S) = IsFiniteSet(S)
    BY DEF IsFiniteSet, Atomic!IsFiniteSet
  <2> QED
    BY <2>1 DEF Cardinality, Atomic!Cardinality, IsFiniteSet, Atomic!IsFiniteSet
<1>3. \A ch, s : Atomic!Exact(ch, s) = Exact(ch, s)
  BY <1>1 DEF Atomic!Exact, Exact
<1>4. \A ch, s : Atomic!IsClientInChannel(ch, s) <=> IsClientInChannel(ch, s)
  BY <1>1 DEF Atomic!IsClientInChannel, IsClientInChannel, Atomic!Matching, Matching
<1>5. \A ch, s : Atomic!LookupFails(ch, s) <=> LookupFails(ch, s)
  BY <1>1, <1>3 DEF Atomic!LookupFails, LookupFails, Atomic!Ghosts, Ghosts
<1>6. \A ch, c : Atomic!IsOperator(ch, c) <=> IsOperator(ch, c)
  BY <1>3 DEF Atomic!IsOperator, IsOperator
<1>7. \A c : Atomic!Acting(c) <=> Acting(c)
  BY <1>1 DEF Atomic!Acting, Acting
<1> QED
  BY <1>1, <1>2, <1>3, <1>4, <1>5, <1>6, <1>7

LEMMA AtomicStores ==
  ASSUME NEW ch, NEW c, NEW reported
  PROVE  Atomic!AfterMode(ch, c, reported) = AfterMode(ch, c, reported)
<1>1. Atomic!Heirs(ch, c, FALSE) = Heirs(ch, c, FALSE)
  BY AtomicLooksAlike DEF Atomic!Heirs, Heirs
<1>2. \A heirs : Atomic!Promoted(ch, heirs) = Promoted(ch, heirs)
  BY DEF Atomic!Promoted, Promoted
<1> QED
  BY <1>1, <1>2 DEF Atomic!AfterMode, AfterMode

\* The channels as everybody else sees them.
Seen == IF phase \in {"idle", "over"} THEN chan ELSE [chan EXCEPT ![room] = before]

\* A change of one channel of those seen is a step of Channels.
LEMMA SeenStored ==
  ASSUME NEW c, NEW n, NEW ch, NEW reported, NEW p \in AfterMode(ch, c, reported),
         Seen' = [Seen EXCEPT ![n] = p],
         UNCHANGED <<nickVars, open, joined, dangling, up>>
  PROVE  Atomic!StoreMode(c, n, ch, reported)
  BY AtomicStores DEF Atomic!StoreMode, Seen, nickVars, Atomic!nickVars

LEMMA SeenMayChange ==
  ASSUME NEW c, NEW n, Acting(c), n \in open, IsClientInChannel(Seen[n], nick[c]),
         IsOperator(Seen[n], c)
  PROVE  Atomic!MayChangeModes(c, n)
  BY AtomicLooksAlike DEF Atomic!MayChangeModes, Seen

LEMMA SeenModeChannel ==
  ASSUME NEW c, NEW n, NEW letter \in ModeChars, NEW on, NEW key, NEW limit,
         Atomic!MayChangeModes(c, n),
         NEW p \in AfterMode(SetTo(Seen[n], letter, on, key, limit), c,
                             on \/ letter \in Seen[n].modes),
         Seen' = [Seen EXCEPT ![n] = p],
         UNCHANGED <<nickVars, open, joined, dangling, up>>
  PROVE  Atomic!ModeChannel(c, n, letter, on, key, limit)
<1>1. PICK ch : ch = SetTo(Seen[n], letter, on, key, limit)
  OBVIOUS
<1>2. PICK reported : reported = (on \/ letter \in Seen[n].modes)
  OBVIOUS
<1>3. Atomic!StoreMode(c, n, ch, reported)
  BY <1>1, <1>2, SeenStored
<1> QED
  BY <1>1, <1>2, <1>3
  DEF Atomic!ModeChannel, Seen, SetTo, SetMode, Atomic!SetMode

LEMMA SeenModeOperator ==
  ASSUME NEW c, NEW n, NEW on, NEW t, "o" \in ModeChars, Atomic!MayChangeModes(c, n),
         Seen[n] \in Shape, IsClientInChannel(Seen[n], t),
         Operated(Seen[n], c, on).opCount \in -MaxOpCount..MaxOpCount,
         NEW m \in Exact(Seen[n], t),
         NEW p \in AfterMode(Operated(Seen[n], m, on), c, TRUE),
         Seen' = [Seen EXCEPT ![n] = p],
         UNCHANGED <<nickVars, open, joined, dangling, up>>
  PROVE  Atomic!ModeOperator(c, n, on, t)
<1>1. PICK old : old = Seen[n]
  OBVIOUS
<1>2. PICK ch : ch = [old EXCEPT !.opCount = IF on THEN @ + 1 ELSE @ - 1, !.opRemoved = ~on]
  OBVIOUS
<1>3. ch.opCount = Operated(old, c, on).opCount /\ Exact(ch, t) = Exact(old, t)
  BY <1>1, <1>2 DEF Operated, Shape, Exact
<1>4. PICK new : new = [ch EXCEPT !.ops = IF on THEN @ \cup {m} ELSE @ \ {m}]
  OBVIOUS
<1>5. new = Operated(old, m, on)
  BY <1>2, <1>4 DEF Operated
<1>6. Atomic!StoreMode(c, n, new, TRUE)
  BY <1>1, <1>5, SeenStored
<1>7. Atomic!IsClientInChannel(old, t) /\ m \in Atomic!Exact(ch, t)
  BY <1>1, <1>3, AtomicLooksAlike
<1>8. ch = [Seen[n] EXCEPT !.opCount = IF on THEN @ + 1 ELSE @ - 1, !.opRemoved = ~on]
  BY <1>1, <1>2
<1>9. ch.opCount \in -MaxOpCount..MaxOpCount
  BY <1>1, <1>3
<1>10. \E k \in Atomic!Exact(ch, t) :
         Atomic!StoreMode(c, n, [ch EXCEPT !.ops = IF on THEN @ \cup {k} ELSE @ \ {k}], TRUE)
  BY <1>4, <1>6, <1>7
<1>11. Atomic!IsClientInChannel(Seen[n], t)
  BY <1>1, <1>7
<1> QED
  BY <1>8, <1>9, <1>10, <1>11, Zenon DEF Atomic!ModeOperator, Seen

-----------------------------------------------------------------------------
\* The one letter of a command of one letter, its sign and its argument.
SoleLetter == asked[1].letters[1]
SoleOn == asked[1].sign = "+"
SoleArgument == IF Takes(SoleLetter) THEN asked[2] ELSE asked[1]

Busy == phase \notin {"idle", "over"}

Entitled(ch) ==
  /\ Acting(caller) /\ room \in open
  /\ IsClientInChannel(ch, nick[caller]) /\ IsOperator(ch, caller)

\* What the validator has made sure of once it accepted that letter.
Granted ==
  /\ SoleLetter # "x"
  /\ Takes(SoleLetter) => 2 <= Len(asked)
  /\ SoleLetter = "o" => IsClientInChannel(before, SoleArgument)
  /\ SoleLetter = "l" /\ SoleOn => LimitOf[SoleArgument] \in 0..MaxLimit
  /\ SoleLetter = "k" /\ SoleOn => SoleArgument # NoKey

\* What applymodes has made of the channel with it.
Changed(ch) ==
  \/ /\ SoleLetter \in {"i", "t", "k", "l"}
     /\ ch = SetTo(before, SoleLetter, SoleOn, SoleArgument, LimitOf[SoleArgument])
     /\ Len(announced) > 1 <=> (SoleOn \/ SoleLetter \in before.modes)
  \/ /\ SoleLetter = "o"
     /\ \E m \in Exact(before, SoleArgument) : ch = Operated(before, m, SoleOn)
     /\ Len(announced) > 1

BusyInv ==
  /\ nick \in [Clients -> AllNicks]
  /\ phase = "idle" => asked = <<>> /\ \A n \in ChanNames : chan[n].opCount \in -1..1
  /\ Busy => Entitled(before) /\ before \in Shape /\ before.opCount \in -1..1

SingleInv ==
  Busy /\ OneLetter =>
    /\ checked # <<>> => Granted
    /\ Checking \/ done = 0 => chan[room] = before
    /\ Applying /\ done = 0 => Len(announced) = IF phase = "apply" THEN 0 ELSE 1
    /\ Applying /\ done > 0 => Changed(chan[room])

LEMMA OneLetterHas ==
  ASSUME ModeInv, OneLetter
  PROVE  /\ asked[1] \in Words /\ Len(asked[1].letters) = 1 /\ asked[1].letters # <<>>
         /\ SoleLetter \in Letters /\ Len(asked) \in 1..2
         /\ 2 <= Len(asked) => asked[2] \in Plain
         /\ ~EmptyWord(1) /\ ~NoWord
         /\ \A p : FirstWord(p) => p = 1
<1>1. asked[1] \in Words /\ Len(asked[1].letters) = 1 /\ asked # <<>>
  BY DEF OneLetter
<1>2. asked[1].letters # <<>> /\ asked[1].letters \in Seq(Letters)
  BY <1>1, WordTyped
<1>3. SoleLetter \in Letters
  BY <1>1, <1>2, ElementOfSeq DEF SoleLetter
<1>4. Len(asked) \in Nat /\ Len(asked) >= 1
  BY <1>1, Typed, EmptySeq
<1>5. \A k \in 2..Len(asked) : k = 2 /\ asked[k] \in Plain
  BY DEF OneLetter
<1>6. Len(asked) \in 1..2 /\ (2 <= Len(asked) => asked[2] \in Plain)
  <2>1. PICK size \in Nat : size = Len(asked)
    BY <1>4
  <2>2. ASSUME size >= 2 PROVE size = 2 /\ asked[2] \in Plain
    <3>1. size \in 2..size /\ 2 \in 2..size
      BY <2>2
    <3>2. size = 2
      BY <1>5, <2>1, <3>1
    <3>3. asked[2] \in Plain
      BY <1>5, <2>1, <3>1
    <3> QED
      BY <3>2, <3>3
  <2>3. size >= 1
    BY <1>4, <2>1
  <2>4. size \in 1..2
    BY <2>2, <2>3
  <2> QED
    BY <2>1, <2>2, <2>4
<1>7. ~EmptyWord(1)
  BY <1>2 DEF EmptyWord
<1>8. ~NoWord
  BY <1>4, <1>7 DEF NoWord
<1>9. ASSUME NEW p, FirstWord(p) PROVE p = 1
  <2>1. p \in 1..Len(asked) /\ (p # 1 => 1 \in 1..p - 1)
    BY <1>4, <1>9 DEF FirstWord
  <2> QED
    BY <1>7, <1>9, <2>1 DEF FirstWord
<1> QED
  BY <1>1, <1>2, <1>3, <1>6, <1>7, <1>8, <1>9

\* Where modeSyntaxValidator is before it has accepted the letter.
LEMMA SoleIsNext ==
  ASSUME ModeInv, OneLetter, Checking, checked = <<>>
  PROVE  at = 1 /\ (phase = "checkWord" => done = 0 /\ word = asked[1])
<1>1. BeforeWord
  BY DEF ModeInv, CheckInv
<1>2. at \in Nat /\ at # 0 /\ \A k \in 1..at - 1 : k <= Len(asked) => EmptyWord(k)
  BY <1>1, Typed DEF BeforeWord
<1>3. at # 1 => 1 \in 1..at - 1
  BY <1>2
<1>4. at = 1
  BY <1>2, <1>3, OneLetterHas
<1> QED
  BY <1>1, <1>4 DEF BeforeWord

\* Where applymodes is.
LEMMA SoleIsApplied ==
  ASSUME ModeInv, OneLetter, Applying
  PROVE  /\ checked # <<>>
         /\ done = 0 => at = 1
         /\ done > 0 => word = asked[1]
         /\ phase = "applyWord" => word = asked[1] /\ (Inside <=> done = 0)
<1>1. PICK p \in Nat : OneWord(p)
  BY OneLetterHas DEF ModeInv, ApplyInv
<1>2. p = 1 /\ OneWord(1)
  BY <1>1, OneLetterHas DEF OneWord
<1>3. checked # <<>>
  <2>1. Len(asked[1].letters) <= Len(checked)
    BY <1>2 DEF OneWord
  <2>2. Len(checked) # 0
    BY <2>1, OneLetterHas
  <2>3. Len(<<>>) = 0
    OBVIOUS
  <2> QED
    BY <2>2, <2>3
<1>4. (done = 0 => at = 1) /\ (done > 0 => word = asked[1])
      /\ (done = 0 /\ phase = "applyWord" => word = asked[1])
  BY <1>2 DEF OneWord
<1>5. phase = "applyWord" => word = asked[1]
  BY <1>4, Typed
<1>6. ASSUME word = asked[1] PROVE Inside <=> done = 0
  <2>1. Len(word.letters) = 1 /\ done \in Nat
    BY <1>6, Typed, OneLetterHas
  <2>2. done < 1 <=> done = 0
    BY <2>1
  <2> QED
    BY <2>1, <2>2 DEF Inside
<1> QED
  BY <1>3, <1>4, <1>5, <1>6

\* The letter and the argument applymodes reads are those.
LEMMA SoleIsRead ==
  ASSUME ModeInv, SingleInv, OneLetter, phase = "applyWord", Inside
  PROVE  /\ Granted /\ done = 0 /\ chan[room] = before /\ Len(announced) = 1
         /\ Letter = SoleLetter /\ On = SoleOn /\ word = asked[1]
         /\ Argument = SoleArgument /\ Argument \in Arguments
         /\ Takes(SoleLetter) => Argument \in Plain
<1>1. Applying /\ Busy
  BY DEF Applying, Busy
<1>2. checked # <<>> /\ done = 0 /\ at = 1 /\ word = asked[1]
  BY <1>1, SoleIsApplied
<1>3. Granted /\ chan[room] = before /\ Len(announced) = 1
  BY <1>1, <1>2 DEF SingleInv
<1>4. Letter = SoleLetter /\ On = SoleOn
  BY <1>2 DEF Letter, SoleLetter, On, SoleOn
<1>5. DOMAIN asked = 1..Len(asked) /\ Len(asked) \in 1..2
  BY Typed, OneLetterHas
<1>6. CASE Takes(SoleLetter)
  <2>1. Place = 2 /\ 2 <= Len(asked)
    BY <1>2, <1>3, <1>4, <1>6 DEF Place, Granted
  <2>2. 2 \in DOMAIN asked
    BY <1>5, <2>1
  <2>3. Argument = asked[2] /\ asked[2] \in Plain
    BY <2>1, <2>2, OneLetterHas DEF Argument
  <2> QED
    BY <1>2, <1>3, <1>4, <1>6, <2>3 DEF SoleArgument, Arguments
<1>7. CASE ~Takes(SoleLetter)
  <2>1. Place = 1 /\ 1 \in DOMAIN asked
    BY <1>2, <1>4, <1>5, <1>7 DEF Place
  <2>2. Argument = asked[1] /\ asked[1] \in Words
    BY <2>1, OneLetterHas DEF Argument
  <2> QED
    BY <1>2, <1>3, <1>4, <1>7, <2>2 DEF SoleArgument, Arguments
<1> QED
  BY <1>6, <1>7

-----------------------------------------------------------------------------
LEMMA EarlierCounted ==
  ASSUME ChansInv, NEW c \in Clients, NEW n \in ChanNames, Earlier(c, n),
         \A m \in ChanNames : chan[m].opCount \in -1..1
  PROVE  \A m \in ChanNames : chan'[m].opCount \in -1..1
<1>1. chan'[n].opCount \in -1..1
  BY DEF Earlier
<1>2. chan' = chan \/ \E new : chan' = [chan EXCEPT ![n] = new]
  <2>1. CASE Session(c)
    BY <2>1 DEF Session, chanVars
  <2>2. CASE JoinNew(c, n)
    BY <2>2 DEF JoinNew
  <2>3. ASSUME NEW key, Join(c, n, key) PROVE \E new : chan' = [chan EXCEPT ![n] = new]
    BY <2>3 DEF Join
  <2>4. ASSUME NEW letter, NEW on, NEW key, NEW limit, ModeChannel(c, n, letter, on, key, limit)
        PROVE  \E new : chan' = [chan EXCEPT ![n] = new]
    <3>1. PICK ch, reported : StoreMode(c, n, ch, reported)
      BY <2>4 DEF ModeChannel
    <3> QED
      BY <3>1 DEF StoreMode
  <2>5. ASSUME NEW on, NEW t, ModeOperator(c, n, on, t)
        PROVE  \E new : chan' = [chan EXCEPT ![n] = new]
    <3>1. PICK ch, reported : StoreMode(c, n, ch, reported)
      BY <2>5 DEF ModeOperator
    <3> QED
      BY <3>1 DEF StoreMode
  <2> QED
    BY <2>1, <2>2, <2>3, <2>4, <2>5 DEF Earlier
<1>3. \A m \in ChanNames : m # n => chan'[m] = chan[m]
  BY <1>2 DEF ChansInv
<1> QED
  BY <1>1, <1>3

LEMMA EarlierNamed ==
  ASSUME nick \in [Clients -> AllNicks], NEW c \in Clients, NEW n, Earlier(c, n)
  PROVE  nick' \in [Clients -> AllNicks]
<1>1. CASE Session(c)
  <2>1. nick' = nick \/ \E new \in Nicks \cup AnonNicks : nick' = [nick EXCEPT ![c] = new]
    BY <1>1 DEF Session, Connect, TakeNick, TakeAnonNick, UpdateNickname
  <2> QED
    BY <2>1 DEF AllNicks
<1>2. CASE ~Session(c)
  BY <1>2 DEF Earlier, JoinNew, Join, ModeChannel, ModeOperator, StoreMode, nickVars
<1> QED
  BY <1>1, <1>2

\* What a loop leaves alone.
LEMMA EntitledStill ==
  ASSUME Entitled(before), UNCHANGED <<nickVars, open, up, caller, room, before>>
  PROVE  Entitled(before)'
  BY DEF Entitled, Acting, IsClientInChannel, Matching, IsOperator, Exact, Live, nickVars

\* Every step of a command but the last, and the last.
Onward ==
  /\ Busy /\ Busy'
  /\ UNCHANGED <<nickVars, open, joined, dangling, up, caller, room, asked, before>>
  /\ chan' = chan \/ \E new : chan' = [chan EXCEPT ![room] = new]

Ending ==
  /\ Busy /\ phase' = "over"
  /\ UNCHANGED <<nickVars, caller, room, asked, before>>

LEMMA OnwardOrEnding ==
  /\ \/ CheckWord \/ CheckLetter \/ CheckedWord \/ Accept \/ TakeWord \/ AppliedWord
     \/ ApplyChannelMode \/ ApplyOperator \/ ApplyFounder
     => Onward
  /\ Refuse \/ ApplyCrash \/ Finish => Ending
<1>1. CheckWord \/ CheckLetter \/ CheckedWord \/ Accept \/ TakeWord \/ AppliedWord => Onward
  BY DEF CheckWord, CheckLetter, CheckedWord, Accept, TakeWord, AppliedWord, Onward, Busy,
         vars, chanVars
<1>2. ApplyChannelMode => Onward
  BY DEF ApplyChannelMode, Applied, Onward, Busy
<1>3. ApplyFounder => Onward
  BY DEF ApplyFounder, Applied, Onward, Busy
<1>4. ApplyOperator => Onward
  <2> SUFFICES ASSUME ApplyOperator PROVE Onward
    OBVIOUS
  <2>1. phase = "applyWord" /\ Applied(TRUE)
    BY DEF ApplyOperator
  <2>2. \E new : chan' = [chan EXCEPT ![room] = new]
    BY Zenon DEF ApplyOperator
  <2> QED
    BY <2>1, <2>2 DEF Applied, Onward, Busy
<1>5. Refuse \/ ApplyCrash \/ Finish => Ending
  BY DEF Refuse, ApplyCrash, Finish, Over, Crash, StoreMode, Ending, Busy, vars
<1> QED
  BY <1>1, <1>2, <1>3, <1>4, <1>5

LEMMA BusyStep == ModeInv /\ BusyInv /\ [ModeNext]_allVars => BusyInv'
<1> SUFFICES ASSUME ModeInv, BusyInv, [ModeNext]_allVars PROVE BusyInv'
  OBVIOUS
<1>1. ASSUME NEW c \in Clients, NEW n \in ChanNames, Begin(c, n) PROVE BusyInv'
  <2>1. /\ phase = "idle" /\ MayChangeModes(c, n) /\ phase' = "check" /\ caller' = c
        /\ room' = n /\ before' = chan[n] /\ UNCHANGED vars
    BY <1>1 DEF Begin
  <2>2. UNCHANGED <<conn, nick, open, up, chan>>
    BY <2>1 DEF vars, nickVars, chanVars
  <2>3. before' \in Shape /\ before'.opCount \in -1..1
    BY <2>1 DEF BusyInv, ModeInv, ChansInv
  <2>4. Entitled(before)'
    BY <2>1, <2>2 DEF MayChangeModes, Entitled, Acting, IsClientInChannel, Matching,
                      IsOperator, Exact, Live
  <2>5. nick' \in [Clients -> AllNicks]
    BY <2>2 DEF BusyInv
  <2> QED
    BY <2>1, <2>3, <2>4, <2>5 DEF BusyInv
<1>2. ASSUME NEW c \in Clients, NEW n \in ChanNames, phase = "idle", Earlier(c, n),
             UNCHANGED modeVars
      PROVE  BusyInv'
  <2>1. phase' = "idle" /\ asked' = asked
    BY <1>2 DEF modeVars
  <2>2. nick' \in [Clients -> AllNicks]
    BY <1>2, EarlierNamed DEF BusyInv
  <2>3. \A m \in ChanNames : chan'[m].opCount \in -1..1
    BY <1>2, EarlierCounted DEF BusyInv, ModeInv
  <2> QED
    BY <1>2, <2>1, <2>2, <2>3 DEF BusyInv, Busy
<1>3. CASE Onward
  <2>1. Busy /\ phase' # "idle" /\ UNCHANGED <<nick, before>>
    BY <1>3 DEF Onward, Busy, nickVars
  <2>2. Entitled(before)'
    BY <1>3, <2>1, EntitledStill DEF Onward, BusyInv
  <2> QED
    BY <2>1, <2>2 DEF BusyInv
<1>4. CASE Ending
  BY <1>4 DEF Ending, BusyInv, Busy, nickVars
<1>5. CASE UNCHANGED allVars
  <2>1. UNCHANGED <<phase, nickVars, nick, open, up, chan, caller, room, asked, before>>
    BY <1>5 DEF allVars, vars, nickVars, chanVars, modeVars
  <2>2. Busy' <=> Busy
    BY <2>1 DEF Busy
  <2>3. Busy => Entitled(before)'
    BY <2>1, EntitledStill DEF BusyInv
  <2> QED
    BY <2>1, <2>2, <2>3 DEF BusyInv
<1> QED
  BY <1>1, <1>2, <1>3, <1>4, <1>5, OnwardOrEnding DEF ModeNext, ModeStep

-----------------------------------------------------------------------------
LEMMA GrantedStill ==
  ASSUME Granted, UNCHANGED <<nickVars, asked, before>>
  PROVE  Granted'
  BY DEF Granted, SoleLetter, SoleOn, SoleArgument, IsClientInChannel, Matching, Live, nickVars

LEMMA ChangedStill ==
  ASSUME NEW ch, Changed(ch), UNCHANGED <<nickVars, asked, before>>,
         Len(announced') = Len(announced)
  PROVE  Changed(ch)'
<1>1. \A s : Exact(before, s)' = Exact(before, s)
  BY DEF Exact, Live, nickVars
<1>2. /\ SoleLetter' = SoleLetter /\ (SoleOn' <=> SoleOn) /\ SoleArgument' = SoleArgument
      /\ before' = before
  BY DEF SoleLetter, SoleOn, SoleArgument
<1>3. CASE SoleLetter \in {"i", "t", "k", "l"}
  <2>1. /\ ch = SetTo(before, SoleLetter, SoleOn, SoleArgument, LimitOf[SoleArgument])
        /\ Len(announced) > 1 <=> (SoleOn \/ SoleLetter \in before.modes)
    BY <1>3 DEF Changed
  <2>2. asked' = asked
    OBVIOUS
  <2>3. ch = SetTo(before, SoleLetter, SoleOn, SoleArgument, LimitOf[SoleArgument])'
    BY <2>1, <2>2, <1>2 DEF SoleLetter, SoleOn, SoleArgument, SetTo, SetMode
  <2> QED
    BY <1>2, <1>3, <2>1, <2>3 DEF Changed
<1>4. CASE SoleLetter = "o"
  <2>1. PICK m \in Exact(before, SoleArgument) : ch = Operated(before, m, SoleOn)
    BY <1>4 DEF Changed
  <2>2. Len(announced) > 1
    BY <1>4 DEF Changed
  <2>3. m \in Exact(before, SoleArgument)'
    BY <1>1, <1>2, <2>1
  <2>4. ch = Operated(before, m, SoleOn)'
    BY <1>2, <2>1 DEF Operated
  <2> QED
    BY <1>2, <1>4, <2>2, <2>3, <2>4 DEF Changed
<1> QED
  BY <1>3, <1>4 DEF Changed

LEMMA SingleBegin ==
  ASSUME ModeInv, NEW c \in Clients, NEW n \in ChanNames, Begin(c, n)
  PROVE  SingleInv'
<1>1. /\ phase = "idle" /\ phase' = "check" /\ before' = chan[n] /\ room' = n
      /\ checked' = checked /\ chan' = chan
  BY DEF Begin, vars, chanVars
<1>2. checked = <<>>
  BY <1>1 DEF ModeInv, CheckInv
<1> QED
  BY <1>1, <1>2 DEF SingleInv, Applying

\* What remains to be shown of a step within a command of one letter.
LEMMA SingleOnward ==
  ASSUME Onward,
         OneLetter => /\ checked' # <<>> => Granted
                      /\ Checking' \/ done' = 0 => chan'[room] = before
                      /\ Applying' /\ done' = 0 =>
                           Len(announced') = IF phase' = "apply" THEN 0 ELSE 1
                      /\ Applying' /\ done' > 0 => Changed(chan[room])'
  PROVE  SingleInv'
<1>1. OneLetter' => OneLetter
  BY DEF OneLetter, Onward
<1>2. Granted => Granted'
  BY GrantedStill DEF Onward
<1>3. room' = room /\ before' = before
  BY DEF Onward
<1> QED
  BY <1>1, <1>2, <1>3 DEF SingleInv

LEMMA SingleCheck ==
  ASSUME ModeInv, TellInv, SingleInv, CheckWord \/ CheckLetter \/ CheckedWord \/ Accept
  PROVE  SingleInv'
<1>1. Onward
  BY OnwardOrEnding
<1>2. Checking /\ Busy /\ chan' = chan /\ announced' = announced
  BY DEF CheckWord, CheckLetter, CheckedWord, Accept, Checking, Busy, vars, chanVars
<1>3. OneLetter => chan'[room] = before
  BY <1>2 DEF SingleInv
<1>4. CASE Accept
  <2>1. phase = "check" /\ phase' = "apply" /\ done' = done /\ checked' = checked
    BY <1>4 DEF Accept
  <2>2. done' = 0 /\ Len(announced') = 0
    BY <1>2, <2>1 DEF ModeInv, CheckInv, TellInv, Applying
  <2>3. OneLetter /\ checked' # <<>> => Granted
    BY <1>2, <2>1 DEF SingleInv
  <2> QED
    BY <1>1, <1>3, <2>1, <2>2, <2>3, SingleOnward DEF Applying
<1>5. CASE CheckWord \/ CheckedWord
  <2>1. checked' = checked /\ phase' \in {"check", "checkWord"}
    BY <1>5 DEF CheckWord, CheckedWord
  <2>2. OneLetter /\ checked' # <<>> => Granted
    BY <1>2, <2>1 DEF SingleInv
  <2> QED
    BY <1>1, <1>3, <2>1, <2>2, SingleOnward DEF Applying
<1>6. CASE CheckLetter
  <2>1. phase = "checkWord" /\ phase' = "checkWord" /\ Accepted
    BY <1>6 DEF CheckLetter
  <2>2. OneLetter => Granted
    <3> SUFFICES ASSUME OneLetter PROVE Granted
      OBVIOUS
    <3>1. CASE checked = <<>>
      <4>1. at = 1 /\ done = 0 /\ word = asked[1]
        BY <1>2, <2>1, <3>1, SoleIsNext
      <4>2. Letter = SoleLetter /\ (On <=> SoleOn)
        BY <4>1 DEF Letter, SoleLetter, On, SoleOn
      <4>3. chan[room] = before
        BY <1>2, <1>3
      <4>4. /\ SoleLetter # "x"
            /\ Takes(SoleLetter) => 2 <= Len(asked) /\ Acceptable(SoleLetter, asked[2])
        BY <2>1, <4>1, <4>2 DEF Accepted
      <4>5. SoleLetter \in {"k", "l", "o"} => Takes(SoleLetter) /\ SoleArgument = asked[2]
        BY DEF Takes, SoleArgument
      <4> QED
        BY <4>2, <4>3, <4>4, <4>5 DEF Granted, Acceptable
    <3>2. CASE checked # <<>>
      BY <1>2, <3>2 DEF SingleInv
    <3> QED
      BY <3>1, <3>2
  <2> QED
    BY <1>1, <1>3, <2>1, <2>2, SingleOnward DEF Applying
<1> QED
  BY <1>4, <1>5, <1>6

LEMMA SingleWord ==
  ASSUME ModeInv, SingleInv, TakeWord \/ AppliedWord
  PROVE  SingleInv'
<1>1. Onward
  BY OnwardOrEnding
<1>2. Applying /\ Busy /\ chan' = chan /\ done' = done /\ checked' = checked
      /\ phase' \in {"apply", "applyWord"}
  BY DEF TakeWord, AppliedWord, Applying, Busy, vars, chanVars
<1>3. OneLetter =>
        /\ checked # <<>> => Granted
        /\ done = 0 => chan[room] = before
        /\ done = 0 => Len(announced) = IF phase = "apply" THEN 0 ELSE 1
        /\ done > 0 => Changed(chan[room])
  BY <1>2 DEF SingleInv
<1>4. ASSUME OneLetter, done = 0
      PROVE  Len(announced') = IF phase' = "apply" THEN 0 ELSE 1
  <2>1. CASE TakeWord
    <3>1. phase = "apply" /\ phase' = "applyWord"
          /\ announced' = Append(announced, asked[at].sign)
      BY <1>4, <2>1 DEF TakeWord
    <3>2. announced \in Seq({"+", "-"} \cup Letters) /\ Len(announced) = 0
      BY <1>3, <1>4, <3>1, Typed
    <3>3. at = 1 /\ asked[1] \in Words
      BY <1>2, <1>4, SoleIsApplied, OneLetterHas
    <3>4. asked[at].sign \in {"+", "-"} \cup Letters
      BY <3>3, WordTyped
    <3>5. Len(announced') = Len(announced) + 1
      BY <3>1, <3>2, <3>4, AppendProperties
    <3> QED
      BY <3>1, <3>2, <3>5
  <2>2. CASE AppliedWord
    <3>1. phase = "applyWord" /\ ~Inside
      BY <2>2 DEF AppliedWord
    <3> QED
      BY <1>2, <1>4, <3>1, SoleIsApplied
  <2> QED
    BY <2>1, <2>2
<1>5. ASSUME OneLetter, done > 0 PROVE Changed(chan[room])'
  <2>1. Len(announced') = Len(announced)
    BY <1>5 DEF TakeWord, AppliedWord
  <2>2. UNCHANGED <<nickVars, asked, before, room>>
    BY <1>1 DEF Onward
  <2>3. PICK ch : ch = chan[room]
    OBVIOUS
  <2>4. Changed(ch)'
    BY <1>3, <1>5, <2>1, <2>2, <2>3, ChangedStill
  <2>5. chan'[room'] = ch
    BY <1>2, <2>2, <2>3
  <2> QED
    BY <2>4, <2>5 DEF Changed
<1>6. ~Checking'
  BY <1>2 DEF Checking
<1> QED
  BY <1>1, <1>2, <1>3, <1>4, <1>5, <1>6, SingleOnward DEF Onward

-----------------------------------------------------------------------------
\* Announcing the letter makes the announcement longer than a sign.
LEMMA LetterAnnounced ==
  ASSUME ModeInv, SingleInv, OneLetter, phase = "applyWord", Inside,
         NEW reported \in BOOLEAN, Applied(reported)
  PROVE  /\ done' > 0 /\ phase' = "applyWord" /\ checked' = checked
         /\ Len(announced') > 1 <=> reported
<1>1. Len(announced) = 1 /\ done = 0
  BY SoleIsRead
<1>2. announced \in Seq({"+", "-"} \cup Letters) /\ Letter \in {"+", "-"} \cup Letters
  <2>1. 0 \in Nat
    OBVIOUS
  <2> QED
    BY <2>1, Typed, LetterTyped
<1>3. announced' = IF reported THEN Append(announced, Letter) ELSE announced
  BY DEF Applied
<1>4. PICK letter \in {"+", "-"} \cup Letters : letter = Letter
  BY <1>2
<1>5. Len(Append(announced, letter)) = Len(announced) + 1
  BY <1>2, AppendProperties
<1>6. Len(announced') = IF reported THEN 2 ELSE 1
  BY <1>1, <1>3, <1>4, <1>5
<1>7. PICK size \in 1..2 : size = Len(announced') /\ (size = IF reported THEN 2 ELSE 1)
  BY <1>6
<1>8. size > 1 <=> reported
  BY <1>7
<1>9. Len(announced') > 1 <=> reported
  BY <1>7, <1>8
<1> QED
  BY <1>1, <1>9 DEF Applied

LEMMA SingleApplied ==
  ASSUME ModeInv, SingleInv, Onward, phase = "applyWord", Inside,
         NEW reported \in BOOLEAN, Applied(reported),
         OneLetter => Changed(chan[room])'
  PROVE  SingleInv'
<1>1. OneLetter => Granted /\ done' > 0 /\ phase' = "applyWord"
  BY SoleIsRead, LetterAnnounced
<1> QED
  BY <1>1, SingleOnward DEF Checking

LEMMA SingleChannelMode ==
  ASSUME ModeInv, SingleInv, ApplyChannelMode
  PROVE  SingleInv'
<1>1. /\ phase = "applyWord" /\ Inside /\ Letter \in {"i", "t", "k", "l"}
      /\ chan' = [chan EXCEPT ![room] = Set(@)] /\ Applied(Reported(chan[room]))
  BY DEF ApplyChannelMode
<1>2. Onward /\ UNCHANGED <<asked, before, room>>
  BY OnwardOrEnding DEF Onward
<1>3. PICK reported \in BOOLEAN : reported = Reported(chan[room])
  BY DEF Reported, On
<1>4. ASSUME OneLetter PROVE Changed(chan[room])'
  <2>1. /\ chan[room] = before /\ Letter = SoleLetter /\ On = SoleOn
        /\ Argument = SoleArgument
    BY <1>1, <1>4, SoleIsRead
  <2>2. chan'[room] = Set(chan[room])
    BY <1>1 DEF ModeInv, ModeTypeOK, ChansInv
  <2>3. chan'[room] = SetTo(before, SoleLetter, SoleOn, SoleArgument, LimitOf[SoleArgument])
    BY <2>1, <2>2 DEF Set, SetTo
  <2>4. Len(announced') > 1 <=> (SoleOn \/ SoleLetter \in before.modes)
    <3>1. Len(announced') > 1 <=> reported
      BY <1>1, <1>3, <1>4, LetterAnnounced
    <3>2. reported <=> (SoleOn \/ SoleLetter \in before.modes)
      BY <1>3, <2>1 DEF Reported
    <3> QED
      BY <3>1, <3>2
  <2>5. SoleLetter' = SoleLetter /\ (SoleOn' <=> SoleOn) /\ SoleArgument' = SoleArgument
    BY <1>2 DEF SoleLetter, SoleOn, SoleArgument
  <2>6. chan'[room'] = SetTo(before, SoleLetter, SoleOn, SoleArgument, LimitOf[SoleArgument])'
    BY <1>2, <2>3 DEF SoleLetter, SoleOn, SoleArgument, SetTo, SetMode
  <2>7. SoleLetter' \in {"i", "t", "k", "l"}
    BY <1>1, <2>1, <2>5
  <2>8. Len(announced') > 1 <=> (SoleOn' \/ SoleLetter' \in before'.modes)
    BY <1>2, <2>4, <2>5
  <2> QED
    BY <2>6, <2>7, <2>8 DEF Changed
<1> QED
  BY <1>1, <1>2, <1>3, <1>4, SingleApplied

LEMMA SingleOperator ==
  ASSUME ModeInv, SingleInv, ApplyOperator
  PROVE  SingleInv'
<1>1. phase = "applyWord" /\ Inside /\ Letter = "o" /\ Applied(TRUE)
  BY DEF ApplyOperator
<1>2. Onward /\ UNCHANGED <<nickVars, asked, before, room>>
  BY OnwardOrEnding DEF Onward
<1>3. PICK m \in Exact(chan[room], Argument) :
        chan' = [chan EXCEPT ![room].ops = IF On THEN @ \cup {m} ELSE @ \ {m},
                             ![room].opCount = IF On THEN @ + 1 ELSE @ - 1,
                             ![room].opRemoved = ~On]
  BY DEF ApplyOperator
<1>4. PICK old : old = chan[room]
  OBVIOUS
<1>5. room \in ChanNames /\ old \in Shape /\ chan \in [ChanNames -> Shape]
  BY <1>4 DEF ModeInv, ModeTypeOK, ChansInv
<1>6. PICK ops : ops = IF On THEN old.ops \cup {m} ELSE old.ops \ {m}
  OBVIOUS
<1>7. PICK count : count = IF On THEN old.opCount + 1 ELSE old.opCount - 1
  OBVIOUS
<1>8. PICK removed : removed = ~On
  OBVIOUS
<1>9. chan'[room] = [old EXCEPT !.ops = ops, !.opCount = count, !.opRemoved = removed]
  BY <1>3, <1>4, <1>5, <1>6, <1>7, <1>8 DEF Shape
<1>10. Operated(old, m, On) = [old EXCEPT !.ops = ops, !.opCount = count, !.opRemoved = removed]
  <2>1. PICK half : half = [old EXCEPT !.opCount = count, !.opRemoved = removed]
    OBVIOUS
  <2>2. half.ops = old.ops
    BY <1>5, <2>1 DEF Shape
  <2>3. [half EXCEPT !.ops = ops] = [old EXCEPT !.ops = ops, !.opCount = count, !.opRemoved = removed]
    BY <1>5, <2>1 DEF Shape
  <2>4. Operated(old, m, On) = [half EXCEPT !.ops = IF On THEN @ \cup {m} ELSE @ \ {m}]
    BY <1>7, <1>8, <2>1 DEF Operated
  <2> QED
    BY <1>6, <2>2, <2>3, <2>4
<1>11. chan'[room] = Operated(old, m, On)
  BY <1>9, <1>10
<1>12. ASSUME OneLetter PROVE Changed(chan[room])'
  <2>1. /\ old = before /\ Letter = SoleLetter /\ On = SoleOn
        /\ Argument = SoleArgument
    BY <1>1, <1>4, <1>12, SoleIsRead
  <2>2. SoleLetter' = SoleLetter /\ (SoleOn' <=> SoleOn) /\ SoleArgument' = SoleArgument
    BY <1>2 DEF SoleLetter, SoleOn, SoleArgument
  <2>3. SoleLetter' = "o" /\ Len(announced') > 1
    BY <1>1, <1>12, <2>1, <2>2, LetterAnnounced
  <2>4. m \in Exact(before, SoleArgument)'
    BY <1>2, <1>3, <1>4, <2>1, <2>2 DEF Exact, Live, nickVars
  <2>5. chan'[room'] = Operated(before, m, SoleOn)'
    BY <1>2, <1>11, <2>1, <2>2 DEF Operated
  <2> QED
    BY <2>3, <2>4, <2>5 DEF Changed
<1> QED
  BY <1>1, <1>2, <1>12, SingleApplied

\* q looks the mode word itself up, and nobody is called that.
LEMMA FounderCrashes ==
  ASSUME ChannelsCover, ModeInv, BusyInv, SingleInv, OneLetter, phase = "applyWord", Inside,
         Letter = "q"
  PROVE  LookupFails(chan[room], Argument)
<1>1. SoleLetter = "q" /\ Argument = SoleArgument
  BY SoleIsRead
<1>2. Argument = asked[1]
  BY <1>1 DEF SoleArgument, Takes
<1>3. asked[1].letters \in Seq(Letters) /\ Len(asked[1].letters) = 1 /\ asked[1] \in Words
  BY OneLetterHas, WordTyped
<1>4. asked[1].letters = <<"q">>
  BY <1>1, <1>3 DEF SoleLetter
<1>5. asked[1] \notin AllNicks
  BY <1>3, <1>4 DEF ChannelsCover
<1>6. \A m \in Clients : nick[m] \in AllNicks
  BY DEF BusyInv
<1>7. Exact(chan[room], asked[1]) = {}
  BY <1>5, <1>6 DEF Exact, Live
<1> QED
  BY <1>2, <1>7 DEF LookupFails

LEMMA SingleStep ==
  ChannelsCover =>
    (ModeInv /\ TellInv /\ BusyInv /\ SingleInv /\ [ModeNext]_allVars => SingleInv')
<1> SUFFICES ASSUME ChannelsCover, ModeInv, TellInv, BusyInv, SingleInv, [ModeNext]_allVars
             PROVE  SingleInv'
  OBVIOUS
<1>1. ASSUME NEW c \in Clients, NEW n \in ChanNames, Begin(c, n) PROVE SingleInv'
  BY <1>1, SingleBegin
<1>2. ASSUME phase = "idle", UNCHANGED modeVars PROVE SingleInv'
  BY <1>2 DEF modeVars, SingleInv, Busy
<1>3. CASE ApplyFounder
  <2>1. phase = "applyWord" /\ Inside /\ Letter = "q" /\ Applied(TRUE)
        /\ ~LookupFails(chan[room], Argument)
    BY <1>3 DEF ApplyFounder
  <2>2. ~OneLetter
    BY <2>1, FounderCrashes
  <2> QED
    BY <1>3, <2>1, <2>2, OnwardOrEnding, SingleApplied
<1>4. CASE Refuse \/ ApplyCrash \/ Finish
  BY <1>4, OnwardOrEnding DEF Ending, SingleInv, Busy
<1>5. CASE UNCHANGED allVars
  <2>1. UNCHANGED <<nickVars, phase, chan, room, asked, done, checked, announced, before>>
    BY <1>5 DEF allVars, vars, chanVars, modeVars, cursorVars
  <2>2. (Busy' <=> Busy) /\ (Applying' <=> Applying) /\ (Checking' <=> Checking)
        /\ (OneLetter' <=> OneLetter)
    BY <2>1 DEF Busy, Applying, Checking, OneLetter
  <2>3. Granted => Granted'
    BY <2>1, GrantedStill
  <2>4. Changed(chan[room]) => Changed(chan[room])'
    <3>1. PICK ch : ch = chan[room]
      OBVIOUS
    <3>2. Changed(ch) => Changed(ch)'
      BY <2>1, ChangedStill
    <3>3. ch = chan'[room']
      BY <2>1, <3>1
    <3> QED
      BY <3>1, <3>2, <3>3 DEF Changed
  <2> QED
    BY <2>1, <2>2, <2>3, <2>4 DEF SingleInv
<1> QED
  BY <1>1, <1>2, <1>3, <1>4, <1>5, SingleCheck, SingleWord, SingleChannelMode, SingleOperator
     DEF ModeNext, ModeStep

-----------------------------------------------------------------------------
\* Nobody else sees a step of a loop.
LEMMA SeenStill ==
  ASSUME ModeInv, Onward
  PROVE  Seen' = Seen
<1>1. Seen = [chan EXCEPT ![room] = before] /\ Seen' = [chan' EXCEPT ![room] = before]
  BY DEF Onward, Seen, Busy
<1>2. chan \in [ChanNames -> Shape]
  BY DEF ModeInv, ChansInv
<1>3. CASE chan' = chan
  BY <1>1, <1>3
<1>4. ASSUME NEW new, chan' = [chan EXCEPT ![room] = new] PROVE Seen' = Seen
  <2>1. [[chan EXCEPT ![room] = new] EXCEPT ![room] = before] = [chan EXCEPT ![room] = before]
    BY <1>2
  <2> QED
    BY <1>1, <1>4, <2>1
<1> QED
  BY <1>3, <1>4 DEF Onward

LEMMA AtomicStill ==
  ASSUME Seen' = Seen, UNCHANGED <<nickVars, open, joined, dangling, up>>
  PROVE  Atomic!vars' = Atomic!vars
  BY DEF Atomic!vars, Atomic!nickVars, Atomic!chanVars, Seen, nickVars

\* The caller may change the modes of the channel as others see it.
LEMMA SeenEntitled ==
  ASSUME ModeInv, BusyInv, Busy
  PROVE  Seen[room] = before /\ before \in Shape /\ Atomic!MayChangeModes(caller, room)
<1>1. Seen = [chan EXCEPT ![room] = before]
  BY DEF Seen, Busy
<1>2. Seen[room] = before
  BY <1>1 DEF ModeInv, ModeTypeOK, ChansInv
<1>3. Entitled(before) /\ before \in Shape
  BY DEF BusyInv
<1> QED
  BY <1>2, <1>3, SeenMayChange DEF Entitled

LEMMA SeenUntouched ==
  ASSUME ModeInv, Busy, chan[room] = before
  PROVE  Seen = chan
<1>1. Seen = [chan EXCEPT ![room] = before]
  BY DEF Seen, Busy
<1>2. chan \in [ChanNames -> Shape] /\ room \in ChanNames
  BY DEF ModeInv, ModeTypeOK, ChansInv
<1> QED
  BY <1>1, <1>2

LEMMA SameSet ==
  ASSUME NEW ch, NEW letter, NEW on, NEW key, NEW limit, NEW k, NEW l,
         letter = "k" /\ on => key = k, letter = "l" /\ on => limit = l
  PROVE  SetTo(ch, letter, on, key, limit) = SetTo(ch, letter, on, k, l)
<1>1. CASE letter = "k"
  BY <1>1 DEF SetTo
<1>2. CASE letter = "l"
  BY <1>2 DEF SetTo
<1>3. CASE letter # "k" /\ letter # "l"
  BY <1>3 DEF SetTo
<1> QED
  BY <1>1, <1>2, <1>3

\* The argument of o names somebody.
LEMMA SoleTarget ==
  ASSUME ChannelsCover, ModeInv, BusyInv, OneLetter, Granted, SoleLetter = "o"
  PROVE  SoleArgument \in Targets /\ IsClientInChannel(before, SoleArgument)
<1>1. IsClientInChannel(before, SoleArgument) /\ SoleArgument = asked[2] /\ 2 <= Len(asked)
  BY DEF Granted, SoleArgument, Takes
<1>2. SoleArgument # NoNick
  BY <1>1, OneLetterHas DEF ChannelsCover
<1>3. PICK m \in Clients : Lower[nick[m]] = SoleArgument
  BY <1>1 DEF IsClientInChannel, Matching, Live
<1>4. SoleArgument \in AllNicks
  BY <1>3, NickAssumption DEF BusyInv
<1> QED
  BY <1>1, <1>2, <1>4 DEF AllNicks, Targets

LEMMA CrashIsOneStep ==
  ASSUME ChannelsCover, ModeInv, BusyInv, SingleInv, OneLetter, ApplyCrash
  PROVE  Atomic!Next
<1>1. /\ phase = "applyWord" /\ Inside /\ Letter \in {"o", "q"}
      /\ LookupFails(chan[room], Argument) /\ Crash /\ Over
  BY DEF ApplyCrash
<1>2. Busy /\ caller \in Clients /\ room \in ChanNames
  BY <1>1 DEF Busy, ModeInv, ModeTypeOK
<1>3. Granted /\ chan[room] = before /\ Letter = SoleLetter /\ Argument = SoleArgument
  BY <1>1, SoleIsRead
<1>4. Seen = chan /\ Seen[room] = before /\ Atomic!MayChangeModes(caller, room)
  BY <1>2, <1>3, SeenUntouched, SeenEntitled
<1>5. Seen' = chan' /\ chan' = chan
  BY <1>1 DEF Seen, Over, Crash
<1>6. Atomic!Crash
  BY <1>1, <1>4, <1>5 DEF Crash, Atomic!Crash, Seen, nickVars, Atomic!nickVars
<1>7. \E t \in Targets : Atomic!ModeCrash(caller, room, t)
  <2>1. CASE Letter = "q"
    <3>1. PICK t \in Targets : TRUE
      BY DEF ChannelsCover
    <3>2. "q" \in ModeChars
      BY DEF ChannelsCover, Letters
    <3>3. Atomic!ModeCrash(caller, room, t)
      BY <1>4, <1>6, <3>2 DEF Atomic!ModeCrash
    <3> QED
      BY <3>3
  <2>2. CASE Letter = "o"
    <3>1. PICK t \in Targets : t = SoleArgument /\ IsClientInChannel(before, t)
      BY <1>3, <2>2, SoleTarget
    <3>2. "o" \in ModeChars
      BY DEF ChannelsCover, Letters
    <3>3. LookupFails(Seen[room], t) /\ IsClientInChannel(Seen[room], t)
      BY <1>1, <1>3, <1>4, <3>1
    <3>4. Atomic!LookupFails(Seen[room], t) /\ Atomic!IsClientInChannel(Seen[room], t)
      BY <3>3, AtomicLooksAlike
    <3>5. Atomic!ModeCrash(caller, room, t)
      BY <1>4, <1>6, <3>2, <3>4, Zenon DEF Atomic!ModeCrash, Seen
    <3> QED
      BY <3>5
  <2> QED
    BY <1>1, <2>1, <2>2
<1>8. Atomic!Targets = Targets
  BY DEF Atomic!Targets, Targets
<1>9. Atomic!OtherCommand(caller)
  BY <1>2, <1>7, <1>8 DEF Atomic!OtherCommand
<1> QED
  BY <1>2, <1>9 DEF Atomic!Next

LEMMA ChangeIsOneStep ==
  ASSUME ChannelsCover, ModeInv, BusyInv, Busy, OneLetter, Granted,
         SoleLetter \in {"i", "t", "k", "l"}, NEW reported \in BOOLEAN,
         reported <=> (SoleOn \/ SoleLetter \in before.modes),
         NEW p \in AfterMode(SetTo(before, SoleLetter, SoleOn, SoleArgument,
                                   LimitOf[SoleArgument]), caller, reported),
         Seen' = [Seen EXCEPT ![room] = p],
         UNCHANGED <<nickVars, open, joined, dangling, up>>
  PROVE  Atomic!OtherCommand(caller)
<1>1. Seen[room] = before /\ Atomic!MayChangeModes(caller, room) /\ room \in ChanNames
  BY SeenEntitled DEF ModeInv, ModeTypeOK
<1>2. PICK letter \in ModeChars : letter = SoleLetter /\ letter \in {"i", "t", "k", "l"}
  BY DEF ChannelsCover, Letters
<1>3. PICK on \in BOOLEAN : on = SoleOn
  BY DEF SoleOn
<1>4. ASSUME NEW key, NEW limit, letter = "k" /\ on => key = SoleArgument,
             letter = "l" /\ on => limit = LimitOf[SoleArgument]
      PROVE  Atomic!ModeChannel(caller, room, letter, on, key, limit)
  <2>1. PICK r : r = (on \/ letter \in Seen[room].modes)
    OBVIOUS
  <2>2. reported <=> r
    BY <1>1, <1>2, <1>3, <2>1
  <2>3. PICK ch : ch = SetTo(before, letter, on, key, limit)
    OBVIOUS
  <2>4. ch = SetTo(before, SoleLetter, SoleOn, SoleArgument, LimitOf[SoleArgument])
    BY <1>2, <1>3, <1>4, <2>3, SameSet
  <2>5. AfterMode(ch, caller, r) = AfterMode(ch, caller, reported)
    BY <2>2, Zenon DEF AfterMode
  <2>6. p \in AfterMode(SetTo(Seen[room], letter, on, key, limit), caller,
                        on \/ letter \in Seen[room].modes)
    BY <1>1, <2>1, <2>3, <2>4, <2>5
  <2> QED
    BY <1>1, <2>6, SeenModeChannel
<1>5. Takes(SoleLetter) => SoleArgument \in Plain
  BY OneLetterHas DEF Granted, SoleArgument
<1>6. CASE letter \in {"i", "t"}
  <2>1. Atomic!ModeChannel(caller, room, letter, on, NoKey, 0)
    BY <1>4, <1>6
  <2> QED
    BY <1>1, <1>6, <2>1 DEF Atomic!OtherCommand
<1>7. CASE letter = "k"
  <2>1. SoleOn => SoleArgument \in Keys
    BY <1>2, <1>5, <1>7 DEF Granted, Takes, ChannelsCover
  <2>2. PICK key \in Keys : on => key = SoleArgument
    BY <1>3, <2>1, ModeAssumption
  <2>3. Atomic!ModeChannel(caller, room, "k", on, key, 0)
    BY <1>4, <1>7, <2>2
  <2> QED
    BY <1>1, <2>3 DEF Atomic!OtherCommand
<1>8. CASE letter = "l"
  <2>1. SoleOn => LimitOf[SoleArgument] \in Limits
    BY <1>2, <1>5, <1>8 DEF Granted, Takes, ChannelsCover
  <2>2. PICK limit \in Limits : on => limit = LimitOf[SoleArgument]
    BY <1>3, <2>1 DEF ChannelsCover
  <2>3. Atomic!ModeChannel(caller, room, "l", on, NoKey, limit)
    BY <1>4, <1>8, <2>2
  <2> QED
    BY <1>1, <2>3 DEF Atomic!OtherCommand
<1> QED
  BY <1>2, <1>6, <1>7, <1>8

LEMMA OperatorIsOneStep ==
  ASSUME ChannelsCover, ModeInv, BusyInv, Busy, OneLetter, Granted, SoleLetter = "o",
         NEW m \in Exact(before, SoleArgument),
         NEW p \in AfterMode(Operated(before, m, SoleOn), caller, TRUE),
         Seen' = [Seen EXCEPT ![room] = p],
         UNCHANGED <<nickVars, open, joined, dangling, up>>
  PROVE  Atomic!OtherCommand(caller)
<1>1. /\ Seen[room] = before /\ before \in Shape
      /\ Atomic!MayChangeModes(caller, room) /\ room \in ChanNames
  BY SeenEntitled DEF ModeInv, ModeTypeOK
<1>2. PICK t \in Targets : t = SoleArgument /\ IsClientInChannel(before, t)
  BY SoleTarget
<1>3. "o" \in ModeChars
  BY DEF ChannelsCover, Letters
<1>4. PICK on \in BOOLEAN : on = SoleOn
  BY DEF SoleOn
<1>5. Operated(Seen[room], caller, on).opCount \in -MaxOpCount..MaxOpCount
  <2>1. PICK count \in -1..1 : count = before.opCount
    BY DEF BusyInv
  <2>2. Operated(before, caller, on).opCount = IF on THEN count + 1 ELSE count - 1
    BY <1>1, <2>1 DEF Operated, Shape
  <2>3. MaxOpCount \in Nat /\ MaxOpCount > 1
    BY ChannelAssumption DEF ChannelsCover
  <2>4. (IF on THEN count + 1 ELSE count - 1) \in -MaxOpCount..MaxOpCount
    BY <2>3
  <2> QED
    BY <1>1, <2>2, <2>4
<1>6. m \in Exact(Seen[room], t) /\ p \in AfterMode(Operated(Seen[room], m, on), caller, TRUE)
  BY <1>1, <1>2, <1>4
<1>7. Atomic!ModeOperator(caller, room, on, t)
  BY <1>1, <1>2, <1>3, <1>5, <1>6, SeenModeOperator
<1>8. t \in Atomic!Targets
  BY <1>2 DEF Atomic!Targets, Targets
<1> QED
  BY <1>1, <1>7, <1>8 DEF Atomic!OtherCommand

LEMMA FinishIsOneStep ==
  ASSUME ChannelsCover, ModeInv, BusyInv, SingleInv, OneLetter, Finish
  PROVE  Atomic!Next
<1>1. /\ phase = "apply" /\ ~(at <= Len(asked)) /\ phase' = "over" /\ room' = room
      /\ StoreMode(caller, room, chan[room], Len(announced) > 1)
  BY DEF Finish, More, Over, Announces
<1>2. Busy /\ Applying /\ caller \in Clients
  BY <1>1 DEF Busy, Applying, ModeInv, ModeTypeOK
<1>3. Granted /\ Changed(chan[room])
  <2>1. checked # <<>> /\ done # 0
    BY <1>1, <1>2, SoleIsApplied, OneLetterHas
  <2>2. done > 0
    BY <2>1, Typed
  <2> QED
    BY <1>2, <2>1, <2>2 DEF SingleInv
<1>4. PICK reported \in BOOLEAN : reported <=> Len(announced) > 1
  OBVIOUS
<1>5. PICK p \in AfterMode(chan[room], caller, Len(announced) > 1) :
        chan' = [chan EXCEPT ![room] = p]
  BY <1>1 DEF StoreMode
<1>6. p \in AfterMode(chan[room], caller, reported)
  BY <1>4, <1>5, Zenon DEF AfterMode
<1>7. Seen' = [Seen EXCEPT ![room] = p]
  <2>1. Seen = [chan EXCEPT ![room] = before] /\ Seen' = chan'
    BY <1>1, <1>2 DEF Seen, Busy
  <2>2. chan \in [ChanNames -> Shape]
    BY DEF ModeInv, ChansInv
  <2>3. [[chan EXCEPT ![room] = before] EXCEPT ![room] = p] = [chan EXCEPT ![room] = p]
    BY <2>2
  <2> QED
    BY <1>5, <2>1, <2>3
<1>8. UNCHANGED <<nickVars, open, joined, dangling, up>>
  BY <1>1 DEF StoreMode
<1>9. CASE SoleLetter \in {"i", "t", "k", "l"}
  <2>1. /\ chan[room] = SetTo(before, SoleLetter, SoleOn, SoleArgument, LimitOf[SoleArgument])
        /\ Len(announced) > 1 <=> (SoleOn \/ SoleLetter \in before.modes)
    BY <1>3, <1>9 DEF Changed
  <2>2. reported <=> (SoleOn \/ SoleLetter \in before.modes)
    BY <1>4, <2>1
  <2> QED
    BY <1>2, <1>3, <1>6, <1>7, <1>8, <1>9, <2>1, <2>2, ChangeIsOneStep DEF Atomic!Next
<1>10. CASE SoleLetter = "o"
  <2>1. PICK m \in Exact(before, SoleArgument) : chan[room] = Operated(before, m, SoleOn)
    BY <1>3, <1>10 DEF Changed
  <2>2. reported = TRUE
    BY <1>3, <1>4, <1>10 DEF Changed
  <2>3. p \in AfterMode(Operated(before, m, SoleOn), caller, TRUE)
    BY <1>6, <2>1, <2>2
  <2> QED
    BY <1>2, <1>3, <1>7, <1>8, <1>10, <2>3, OperatorIsOneStep DEF Atomic!Next
<1> QED
  BY <1>3, <1>9, <1>10 DEF Changed

LEMMA OneStep ==
  ChannelsCover =>
    (ModeInv /\ TellInv /\ BusyInv /\ SingleInv /\ [ModeNext]_allVars
       => [OneLetter => Atomic!Next]_Atomic!vars)
<1> SUFFICES ASSUME ChannelsCover, ModeInv, TellInv, BusyInv, SingleInv, [ModeNext]_allVars,
                    OneLetter
             PROVE  Atomic!Next \/ Atomic!vars' = Atomic!vars
  OBVIOUS
<1>1. phase # "idle"
  BY DEF BusyInv, OneLetter
<1>2. CASE Onward
  BY <1>2, SeenStill, AtomicStill DEF Onward
<1>3. CASE Refuse
  <2>1. Checking /\ Busy /\ Over /\ UNCHANGED vars
    BY <1>3 DEF Refuse, Checking, Busy
  <2>2. Seen = chan
    BY <2>1, SeenUntouched DEF SingleInv
  <2>3. Seen' = Seen /\ UNCHANGED <<nickVars, open, joined, dangling, up>>
    BY <2>1, <2>2 DEF Seen, Over, vars, chanVars
  <2> QED
    BY <2>3, AtomicStill
<1>4. CASE UNCHANGED allVars
  <2>1. Seen' = Seen /\ UNCHANGED <<nickVars, open, joined, dangling, up>>
    BY <1>4 DEF allVars, vars, chanVars, modeVars, Seen
  <2> QED
    BY <2>1, AtomicStill
<1>5. CASE ApplyCrash \/ Finish
  BY <1>5, CrashIsOneStep, FinishIsOneStep
<1> QED
  BY <1>1, <1>2, <1>3, <1>4, <1>5, OnwardOrEnding DEF ModeNext, ModeStep, Begin

LEMMA BusyInit == ModeInit => BusyInv /\ SingleInv
<1>1. ModeInit => SingleInv
  BY DEF ModeInit, SingleInv, Busy
<1>2. ModeInit => BusyInv
  BY DEF ModeInit, Init, NickInit, BusyInv, Busy, NewChannel, AllNicks
<1> QED
  BY <1>1, <1>2

\* A MODE of one letter, whose loops take many steps, is for everybody else one step of
\* Channels: what that module proves of MODE is true of the code's loops.
THEOREM OneLetterRefines ==
  ASSUME ChannelsCover
  PROVE  ModeSpec => OneLetterIsOneStep
<1>1. ModeInit => TellInv
  BY DEF ModeInit, TellInv, Applying
<1>2. ModeInv /\ TellInv /\ BusyInv /\ SingleInv /\ [ModeNext]_allVars => SingleInv'
  BY SingleStep
<1>3. ModeInv /\ TellInv /\ BusyInv /\ SingleInv /\ [ModeNext]_allVars
        => [OneLetter => Atomic!Next]_Atomic!vars
  BY OneStep
<1>4. ModeSpec => []BusyInv
  BY BusyInit, BusyStep, ModeAlways, PTL DEF ModeSpec
<1>5. ModeSpec => []TellInv
  BY <1>1, TellStep, ModeAlways, PTL DEF ModeSpec
<1>6. ModeSpec => []SingleInv
  BY <1>2, <1>4, <1>5, BusyInit, ModeAlways, PTL DEF ModeSpec
<1> QED
  BY <1>3, <1>4, <1>5, <1>6, ModeAlways, PTL DEF ModeSpec, OneLetterIsOneStep
=============================================================================
