------------------------- MODULE RegistrationProofs -------------------------
(* Registration comes out right for every set of clients and names: whoever  *)
(* is registered has sent all three of PASS, NICK and USER, and then waits    *)
(* its ten seconds.  The strengthening: a client that has not connected is    *)
(* not registered, and _clientReadyForInput is set after the wait only, so    *)
(* that it lets nobody past validateRegistrationTime early.                   *)
EXTENDS Registration, NickRegistryProofs

NoneBefore == \A c \in Clients : conn[c] = "none" => ~registered[c]

ReadyAfterWait == \A c \in Clients : ready[c] => settled[c]

RegInv ==
  /\ NickInv
  /\ TypeOK
  /\ NoneBefore
  /\ ReadyAfterWait
  /\ RegisteredProperly

\* The registry does not know of passwords: each step of this module is one of the
\* registry or leaves it alone.
LEMMA RegStepOfNicks == [Next]_vars => [NickNext]_nickVars
<1> SUFFICES ASSUME [Next]_vars PROVE [NickNext]_nickVars
  OBVIOUS
<1>1. ASSUME NEW c \in Clients, Open(c) \/ Remove(c) PROVE NickNext
  BY <1>1 DEF Open, Remove, NickNext
<1>2. ASSUME NEW c \in Clients, SetNick(c) PROVE NickNext
  BY <1>2 DEF SetNick, NickNext
<1>3. ASSUME NEW c \in Clients,
             \/ StartReading(c) \/ Settle(c) \/ PassRight(c) \/ PassWrong(c)
             \/ SetUser(c) \/ Quit(c) \/ Other(c) \/ Run(c)
      PROVE  UNCHANGED nickVars
  BY <1>3 DEF StartReading, Settle, PassRight, PassWrong, SetUser, Quit, Other, Run
<1>4. CASE StopReading
  BY <1>4 DEF StopReading
<1>5. CASE UNCHANGED vars
  BY <1>5 DEF vars
<1> QED
  BY <1>1, <1>2, <1>3, <1>4, <1>5 DEF Next

LEMMA RegInitInv == Init => RegInv
<1> SUFFICES ASSUME Init PROVE RegInv
  OBVIOUS
<1>1. NickInv /\ NickTypeOK /\ Live = {}
  BY NickInitInv DEF Init, NickInv, NickInit, Live
<1>2. TypeOK
  BY <1>1 DEF Init, No, TypeOK
<1> QED
  BY <1>1, <1>2 DEF Init, No, RegInv, NoneBefore, ReadyAfterWait, RegisteredProperly

\* A step between commands: nobody's flags change, and nobody new is named.
LEMMA QuietInv ==
  ASSUME RegInv, NickTypeOK', UNCHANGED <<pass, user, registered, ready, quit, ran>>,
         settled' \in [Clients -> BOOLEAN], \A c \in Clients : settled[c] => settled'[c],
         reading' \in Live' \cup {NoClient},
         \A c \in Clients : conn'[c] = "none" => conn[c] = "none",
         \A c \in Live' : Named(c)' <=> Named(c),
         \A c \in Live' : c \in Live \/ (~registered[c] /\ ~Named(c))
  PROVE  TypeOK' /\ NoneBefore' /\ ReadyAfterWait' /\ RegisteredProperly'
<1>1. TypeOK'
  BY DEF RegInv, TypeOK
<1>2. NoneBefore' /\ ReadyAfterWait'
  BY DEF RegInv, NoneBefore, ReadyAfterWait
<1>3. RegisteredProperly'
  BY DEF RegInv, RegisteredProperly
<1> QED
  BY <1>1, <1>2, <1>3

LEMMA OpenInv ==
  ASSUME RegInv, NickTypeOK', NEW c \in Clients, Open(c)
  PROVE  TypeOK' /\ NoneBefore' /\ ReadyAfterWait' /\ RegisteredProperly'
<1>1. conn' = [conn EXCEPT ![c] = "live"] /\ conn[c] = "none" /\ nick' = nick
  BY DEF Open, Connect
<1>2. Live' = Live \cup {c} /\ c \notin Live
  BY <1>1 DEF Live, RegInv, NickInv, NickTypeOK
<1>3. \A d \in Clients : conn'[d] = "none" => conn[d] = "none"
  BY <1>1 DEF RegInv, NickInv, NickTypeOK
<1>4. ~registered[c] /\ ~Named(c)
  BY <1>1, <1>2 DEF RegInv, NoneBefore, NickInv, OwnEntry, Named
<1>5. reading' \in Live' \cup {NoClient}
  BY <1>2 DEF Open, regVars, RegInv, TypeOK
<1>6. UNCHANGED regVars
  BY DEF Open
<1> QED
  BY <1>1, <1>2, <1>3, <1>4, <1>5, <1>6, QuietInv DEF regVars, RegInv, TypeOK, Named

LEMMA RemoveInv ==
  ASSUME RegInv, NickTypeOK', NEW c \in Clients, Remove(c)
  PROVE  TypeOK' /\ NoneBefore' /\ ReadyAfterWait' /\ RegisteredProperly'
<1>1. /\ conn' = [conn EXCEPT ![c] = "gone"]
      /\ nick' = [nick EXCEPT ![c] = NoNick]
      /\ reading = NoClient
      /\ UNCHANGED regVars
  BY DEF Remove, Forget
<1>2. Live' = Live \ {c}
  BY <1>1 DEF Live, RegInv, NickInv, NickTypeOK
<1>3. \A d \in Clients : conn'[d] = "none" => conn[d] = "none"
  BY <1>1 DEF RegInv, NickInv, NickTypeOK
<1>4. \A d \in Live' : nick'[d] = nick[d]
  BY <1>1, <1>2 DEF RegInv, NickInv, NickTypeOK, Live
<1> QED
  BY <1>1, <1>2, <1>3, <1>4, QuietInv DEF regVars, RegInv, TypeOK, Named

LEMMA ReadingInv ==
  ASSUME RegInv, NickTypeOK', StopReading \/ \E c \in Clients : StartReading(c)
  PROVE  TypeOK' /\ NoneBefore' /\ ReadyAfterWait' /\ RegisteredProperly'
<1>1. Live' = Live /\ conn' = conn /\ nick' = nick
  BY DEF StopReading, StartReading, nickVars, Live
<1>2. reading' \in Live' \cup {NoClient}
  BY <1>1 DEF StopReading, StartReading
<1> QED
  BY <1>1, <1>2, QuietInv DEF StopReading, StartReading, RegInv, TypeOK, Named

LEMMA SettleInv ==
  ASSUME RegInv, NickTypeOK', NEW c \in Clients, Settle(c)
  PROVE  TypeOK' /\ NoneBefore' /\ ReadyAfterWait' /\ RegisteredProperly'
<1>1. Live' = Live /\ conn' = conn /\ nick' = nick
  BY DEF Settle, nickVars, Live
<1>2. settled' = [settled EXCEPT ![c] = TRUE] /\ settled \in [Clients -> BOOLEAN]
  BY DEF Settle, RegInv, TypeOK
<1>3. settled' \in [Clients -> BOOLEAN] /\ \A d \in Clients : settled[d] => settled'[d]
  BY <1>2
<1>4. reading' \in Live' \cup {NoClient}
  BY <1>1 DEF Settle, RegInv, TypeOK
<1> QED
  BY <1>1, <1>3, <1>4, QuietInv DEF Settle, RegInv, TypeOK, Named

-----------------------------------------------------------------------------
\* What each command shares: it is run for a live client whose wait, if it has one,
\* is over, and it touches nobody else's flags.
LEMMA CommandReady ==
  ASSUME RegInv, NEW c \in Clients, Command(c)
  PROVE  /\ c \in Live
         /\ ready' \in [Clients -> BOOLEAN]
         /\ \A d \in Clients : ready'[d] => settled[d]
<1>1. reading = c /\ GateOpen(c) /\ ready' = [ready EXCEPT ![c] = ready[c] \/ registered[c]]
  BY DEF Command
<1>2. c \in Live
  BY <1>1, RegistrationAssumption DEF RegInv, TypeOK
<1>3. ready \in [Clients -> BOOLEAN] /\ registered \in [Clients -> BOOLEAN]
  BY DEF RegInv, TypeOK
<1>4. (ready[c] \/ registered[c]) \in BOOLEAN
  OBVIOUS
<1>5. ready' \in [Clients -> BOOLEAN]
  BY <1>1, <1>3, <1>4
<1>6. ASSUME NEW d \in Clients, ready'[d] PROVE settled[d]
  <2>1. CASE d = c
    <3>1. ready[c] \/ registered[c]
      BY <1>1, <1>3, <1>6, <2>1
    <3> QED
      BY <1>1, <2>1, <3>1 DEF GateOpen, RegInv, ReadyAfterWait
  <2>2. CASE d # c
    BY <1>1, <1>3, <1>6, <2>2 DEF RegInv, ReadyAfterWait
  <2> QED
    BY <2>1, <2>2
<1> QED
  BY <1>2, <1>5, <1>6

\* tryRegisterClient gives a verdict on its client, if there is one to give.
LEMMA TryRegisterVerdict ==
  ASSUME RegInv, NEW c \in Clients, NEW p \in BOOLEAN, NEW named \in BOOLEAN,
         NEW u \in BOOLEAN, TryRegister(c, p, named, u)
  PROVE  /\ registered' \in [Clients -> BOOLEAN] /\ quit' \in [Clients -> BOOLEAN]
         /\ \A d \in Clients : d # c => registered'[d] = registered[d] /\ quit'[d] = quit[d]
         /\ registered'[c] <=> registered[c] \/ (named /\ u /\ p)
         /\ named /\ u => registered'[c] \/ quit'[c]
<1> DEFINE complete == ~registered[c] /\ named /\ u
<1>1. /\ registered' = [registered EXCEPT ![c] = registered[c] \/ (complete /\ p)]
      /\ quit' = [quit EXCEPT ![c] = quit[c] \/ (complete /\ ~p)]
  BY DEF TryRegister
<1>2. registered \in [Clients -> BOOLEAN] /\ quit \in [Clients -> BOOLEAN]
  BY DEF RegInv, TypeOK
<1>3. (registered[c] \/ (complete /\ p)) \in BOOLEAN /\ (quit[c] \/ (complete /\ ~p)) \in BOOLEAN
  OBVIOUS
<1>4. /\ registered'[c] = (registered[c] \/ (complete /\ p))
      /\ quit'[c] = (quit[c] \/ (complete /\ ~p))
  BY <1>1, <1>2
<1>5. registered' \in [Clients -> BOOLEAN] /\ quit' \in [Clients -> BOOLEAN]
  BY <1>1, <1>2, <1>3
<1>6. \A d \in Clients : d # c => registered'[d] = registered[d] /\ quit'[d] = quit[d]
  BY <1>1, <1>2
<1>7. registered'[c] <=> registered[c] \/ (named /\ u /\ p)
  BY <1>4, Zenon
<1>8. named /\ u => registered'[c] \/ quit'[c]
  BY <1>4, Zenon
<1> QED
  BY <1>5, <1>6, <1>7, <1>8

\* A command keeps the invariant if it leaves its own client in order.
LEMMA CommandInv ==
  ASSUME RegInv, NickTypeOK', NEW c \in Clients, Command(c),
         conn' = conn, UNCHANGED <<settled, reading>>,
         pass' \in [Clients -> BOOLEAN], user' \in [Clients -> BOOLEAN],
         registered' \in [Clients -> BOOLEAN], quit' \in [Clients -> BOOLEAN],
         ran' \subseteq Clients,
         \A d \in Clients : d # c =>
           /\ pass'[d] = pass[d] /\ user'[d] = user[d] /\ nick'[d] = nick[d]
           /\ registered'[d] = registered[d] /\ quit'[d] = quit[d],
         registered'[c] => pass'[c] /\ Named(c)' /\ user'[c],
         Named(c)' /\ user'[c] => registered'[c] \/ quit'[c]
  PROVE  TypeOK' /\ NoneBefore' /\ ReadyAfterWait' /\ RegisteredProperly'
<1>1. Live' = Live /\ c \in Live
  BY CommandReady DEF Live
<1>2. TypeOK'
  BY <1>1, CommandReady DEF RegInv, TypeOK
<1>3. NoneBefore'
  <2> SUFFICES ASSUME NEW d \in Clients, conn[d] = "none" PROVE ~registered'[d]
    BY DEF NoneBefore
  <2>1. d # c
    BY <1>1 DEF Live
  <2> QED
    BY <2>1 DEF RegInv, NoneBefore
<1>4. ReadyAfterWait'
  BY CommandReady DEF ReadyAfterWait
<1>5. RegisteredProperly'
  <2> SUFFICES ASSUME NEW d \in Live
               PROVE  /\ registered'[d] => pass'[d] /\ Named(d)' /\ user'[d]
                      /\ Named(d)' /\ user'[d] => registered'[d] \/ quit'[d]
    BY <1>1 DEF RegisteredProperly
  <2>1. CASE d = c
    BY <2>1
  <2>2. CASE d # c
    BY <2>2 DEF RegInv, RegisteredProperly, Live, Named
  <2> QED
    BY <2>1, <2>2
<1> QED
  BY <1>2, <1>3, <1>4, <1>5

\* What the invariant says of the client a command is run for.
LEMMA BeforeCommand ==
  ASSUME RegInv, NEW c \in Clients, Command(c)
  PROVE  /\ registered[c] => pass[c] /\ Named(c) /\ user[c]
         /\ Named(c) /\ user[c] => registered[c] \/ quit[c]
         /\ pass \in [Clients -> BOOLEAN] /\ user \in [Clients -> BOOLEAN]
         /\ registered \in [Clients -> BOOLEAN] /\ quit \in [Clients -> BOOLEAN]
         /\ ran \subseteq Clients
         /\ Named(c) \in BOOLEAN /\ pass[c] \in BOOLEAN /\ user[c] \in BOOLEAN
<1>1. c \in Live
  BY CommandReady
<1> QED
  BY <1>1 DEF RegInv, RegisteredProperly, TypeOK, Named

LEMMA PassRightInv ==
  ASSUME RegInv, NickTypeOK', NEW c \in Clients, PassRight(c)
  PROVE  TypeOK' /\ NoneBefore' /\ ReadyAfterWait' /\ RegisteredProperly'
<1>1. /\ Command(c) /\ pass' = [pass EXCEPT ![c] = TRUE]
      /\ TryRegister(c, TRUE, Named(c), user[c])
      /\ UNCHANGED <<conn, nick, user, settled, reading, ran>>
  BY DEF PassRight, nickVars
<1>2. Named(c)' <=> Named(c)
  BY <1>1 DEF Named
<1>3. pass' \in [Clients -> BOOLEAN] /\ pass'[c] /\ \A d \in Clients : d # c => pass'[d] = pass[d]
  BY <1>1, BeforeCommand
<1>4. /\ registered' \in [Clients -> BOOLEAN] /\ quit' \in [Clients -> BOOLEAN]
      /\ \A d \in Clients : d # c => registered'[d] = registered[d] /\ quit'[d] = quit[d]
      /\ registered'[c] <=> registered[c] \/ (Named(c) /\ user[c] /\ TRUE)
      /\ Named(c) /\ user[c] => registered'[c] \/ quit'[c]
  <2>1. TRUE \in BOOLEAN /\ Named(c) \in BOOLEAN /\ user[c] \in BOOLEAN
    BY <1>1, BeforeCommand
  <2> QED
    BY <1>1, <2>1, TryRegisterVerdict, Zenon
<1> QED
  BY <1>1, <1>2, <1>3, <1>4, BeforeCommand, CommandInv

LEMMA PassWrongInv ==
  ASSUME RegInv, NickTypeOK', NEW c \in Clients, PassWrong(c)
  PROVE  TypeOK' /\ NoneBefore' /\ ReadyAfterWait' /\ RegisteredProperly'
<1>1. /\ Command(c)
      /\ registered' = [registered EXCEPT
           ![c] = registered[c] \/ (Named(c) /\ user[c] /\ pass[c])]
      /\ quit' = [quit EXCEPT ![c] = TRUE]
      /\ UNCHANGED <<conn, nick, pass, user, settled, reading, ran>>
  BY DEF PassWrong, nickVars
<1>2. Named(c)' <=> Named(c)
  BY <1>1 DEF Named
<1>3. (registered[c] \/ (Named(c) /\ user[c] /\ pass[c])) \in BOOLEAN
  OBVIOUS
<1>4. registered' \in [Clients -> BOOLEAN] /\ quit' \in [Clients -> BOOLEAN] /\ quit'[c]
  BY <1>1, <1>3, BeforeCommand
<1>5. registered'[c] = (registered[c] \/ (Named(c) /\ user[c] /\ pass[c]))
  BY <1>1, BeforeCommand
<1>6. \A d \in Clients : d # c => registered'[d] = registered[d] /\ quit'[d] = quit[d]
  BY <1>1, BeforeCommand
<1>7. registered'[c] => pass[c] /\ Named(c) /\ user[c]
  BY <1>1, <1>5, BeforeCommand
<1> QED
  BY <1>1, <1>2, <1>4, <1>6, <1>7, BeforeCommand, CommandInv

\* NICK: the first name may complete the registration, the next ones do not.
LEMMA SetNickInv ==
  ASSUME RegInv, NickTypeOK', NEW c \in Clients, SetNick(c)
  PROVE  TypeOK' /\ NoneBefore' /\ ReadyAfterWait' /\ RegisteredProperly'
<1>1. PICK n \in Nicks \cup AnonNicks : UpdateNickname(c, n)
  BY DEF SetNick, TakeNick, TakeAnonNick
<1>2. n # NoNick /\ nick' = [nick EXCEPT ![c] = n] /\ conn' = conn
  BY <1>1, NickAssumption DEF UpdateNickname
<1>3. Named(c)' /\ \A d \in Clients : d # c => nick'[d] = nick[d]
  BY <1>2 DEF Named, RegInv, NickInv, NickTypeOK
<1>4. Command(c) /\ UNCHANGED <<pass, user, settled, reading, ran>>
  BY DEF SetNick
<1>5. CASE Named(c)
  <2>1. UNCHANGED <<registered, quit>>
    BY <1>5 DEF SetNick
  <2> QED
    BY <1>2, <1>3, <1>4, <1>5, <2>1, BeforeCommand, CommandInv
<1>6. CASE ~Named(c)
  <2>1. TryRegister(c, pass[c], TRUE, user[c])
    BY <1>6 DEF SetNick
  <2>2. /\ registered' \in [Clients -> BOOLEAN] /\ quit' \in [Clients -> BOOLEAN]
        /\ \A d \in Clients : d # c => registered'[d] = registered[d] /\ quit'[d] = quit[d]
        /\ registered'[c] <=> registered[c] \/ (TRUE /\ user[c] /\ pass[c])
        /\ TRUE /\ user[c] => registered'[c] \/ quit'[c]
    <3>1. TRUE \in BOOLEAN /\ pass[c] \in BOOLEAN /\ user[c] \in BOOLEAN
      BY <1>4, BeforeCommand
    <3> QED
      BY <2>1, <3>1, TryRegisterVerdict, Zenon
  <2> QED
    BY <1>2, <1>3, <1>4, <2>2, BeforeCommand, CommandInv
<1> QED
  BY <1>5, <1>6

LEMMA SetUserInv ==
  ASSUME RegInv, NickTypeOK', NEW c \in Clients, SetUser(c)
  PROVE  TypeOK' /\ NoneBefore' /\ ReadyAfterWait' /\ RegisteredProperly'
<1>1. /\ Command(c) /\ user' = [user EXCEPT ![c] = TRUE]
      /\ TryRegister(c, pass[c], Named(c), TRUE)
      /\ UNCHANGED <<conn, nick, pass, settled, reading, ran>>
  BY DEF SetUser, nickVars
<1>2. Named(c)' <=> Named(c)
  BY <1>1 DEF Named
<1>3. user' \in [Clients -> BOOLEAN] /\ user'[c] /\ \A d \in Clients : d # c => user'[d] = user[d]
  BY <1>1, BeforeCommand
<1>4. /\ registered' \in [Clients -> BOOLEAN] /\ quit' \in [Clients -> BOOLEAN]
      /\ \A d \in Clients : d # c => registered'[d] = registered[d] /\ quit'[d] = quit[d]
      /\ registered'[c] <=> registered[c] \/ (Named(c) /\ TRUE /\ pass[c])
      /\ Named(c) /\ TRUE => registered'[c] \/ quit'[c]
  <2>1. TRUE \in BOOLEAN /\ pass[c] \in BOOLEAN /\ Named(c) \in BOOLEAN
    BY <1>1, BeforeCommand
  <2> QED
    BY <1>1, <2>1, TryRegisterVerdict, Zenon
<1> QED
  BY <1>1, <1>2, <1>3, <1>4, BeforeCommand, CommandInv

\* The commands that do not register anybody.
LEMMA OtherCommandsInv ==
  ASSUME RegInv, NickTypeOK', NEW c \in Clients, Quit(c) \/ Other(c) \/ Run(c)
  PROVE  TypeOK' /\ NoneBefore' /\ ReadyAfterWait' /\ RegisteredProperly'
<1>1. /\ Command(c)
      /\ UNCHANGED <<conn, nick, pass, user, registered, settled, reading>>
  BY DEF Quit, Other, Run, nickVars
<1>2. quit' = quit \/ quit' = [quit EXCEPT ![c] = TRUE]
  BY DEF Quit, Other, Run
<1>3. /\ quit' \in [Clients -> BOOLEAN] /\ (quit[c] => quit'[c])
      /\ \A d \in Clients : d # c => quit'[d] = quit[d]
  BY <1>1, <1>2, BeforeCommand
<1>4. ran' \subseteq Clients
  BY <1>1, BeforeCommand DEF Quit, Other, Run
<1>5. Named(c)' <=> Named(c)
  BY <1>1 DEF Named
<1> QED
  BY <1>1, <1>3, <1>4, <1>5, BeforeCommand, CommandInv

\* Every step keeps the invariant.
LEMMA RegStepInv == RegInv /\ [Next]_vars => RegInv'
<1> SUFFICES ASSUME RegInv, [Next]_vars PROVE RegInv'
  OBVIOUS
<1>1. NickInv' /\ NickTypeOK'
  BY NickStepInv, RegStepOfNicks DEF RegInv, NickInv
<1> DEFINE Rest == TypeOK' /\ NoneBefore' /\ ReadyAfterWait' /\ RegisteredProperly'
<1>2. ASSUME NEW c \in Clients, Open(c) \/ Remove(c) \/ Settle(c) PROVE Rest
  BY <1>1, <1>2, OpenInv, RemoveInv, SettleInv
<1>3. ASSUME StopReading \/ \E c \in Clients : StartReading(c) PROVE Rest
  BY <1>1, <1>3, ReadingInv
<1>4. ASSUME NEW c \in Clients, PassRight(c) \/ PassWrong(c) PROVE Rest
  BY <1>1, <1>4, PassRightInv, PassWrongInv
<1>5. ASSUME NEW c \in Clients, SetNick(c) \/ SetUser(c) PROVE Rest
  BY <1>1, <1>5, SetNickInv, SetUserInv
<1>6. ASSUME NEW c \in Clients, Quit(c) \/ Other(c) \/ Run(c) PROVE Rest
  BY <1>1, <1>6, OtherCommandsInv
<1>7. ASSUME UNCHANGED vars PROVE Rest
  BY <1>1, <1>7 DEF vars, regVars, nickVars, RegInv, TypeOK, NoneBefore, ReadyAfterWait,
                    RegisteredProperly, Live, Named
<1>8. Rest
  <2> HIDE DEF Rest
  <2> QED
    BY <1>2, <1>3, <1>4, <1>5, <1>6, <1>7 DEF Next
<1> QED
  BY <1>1, <1>8 DEF RegInv

\* A client that waits is not the one whose commands run.
LEMMA WaitingIsSilent ==
  ASSUME RegInv, NEW c \in Live, registered[c], ~settled[c], [Next]_vars
  PROVE  /\ c \in Live' => nick'[c] = nick[c]
         /\ quit'[c] = quit[c]
         /\ c \in ran' => c \in ran
<1>1. c \in Clients /\ ~GateOpen(c)
  BY DEF Live, GateOpen, RegInv, ReadyAfterWait
<1>2. nick \in [Clients -> AllNicks] /\ quit \in [Clients -> BOOLEAN]
      /\ conn \in [Clients -> {"none", "live", "gone"}]
  BY DEF RegInv, TypeOK, NickTypeOK
<1>3. ASSUME NEW d \in Clients, Command(d) PROVE d # c
  BY <1>1, <1>3 DEF Command
<1>4. ASSUME NEW d \in Clients, Open(d) \/ StartReading(d) \/ Settle(d)
      PROVE  UNCHANGED <<nick, quit, ran>>
  BY <1>4 DEF Open, Connect, StartReading, Settle, nickVars, regVars
<1>5. ASSUME NEW d \in Clients, Remove(d)
      PROVE  UNCHANGED <<quit, ran>> /\ (c \in Live' => nick'[c] = nick[c])
  BY <1>1, <1>2, <1>5 DEF Remove, Forget, regVars, Live
<1>6. ASSUME NEW d \in Clients, PassRight(d) \/ PassWrong(d) \/ SetUser(d) \/ Quit(d) \/ Other(d)
      PROVE  nick' = nick /\ ran' = ran /\ quit'[c] = quit[c]
  BY <1>1, <1>2, <1>3, <1>6
  DEF PassRight, PassWrong, SetUser, Quit, Other, TryRegister, nickVars
<1>7. ASSUME NEW d \in Clients, SetNick(d)
      PROVE  nick'[c] = nick[c] /\ ran' = ran /\ quit'[c] = quit[c]
  <2>1. d # c
    BY <1>3, <1>7 DEF SetNick
  <2>2. \E n : nick' = [nick EXCEPT ![d] = n]
    BY <1>7 DEF SetNick, TakeNick, TakeAnonNick, UpdateNickname
  <2>3. quit'[c] = quit[c] /\ ran' = ran
    BY <1>1, <1>2, <1>7, <2>1 DEF SetNick, TryRegister
  <2> QED
    BY <1>1, <1>2, <2>1, <2>2, <2>3
<1>8. ASSUME NEW d \in Clients, Run(d)
      PROVE  nick' = nick /\ quit' = quit /\ (c \in ran' => c \in ran)
  BY <1>3, <1>8 DEF Run, nickVars
<1>9. CASE StopReading \/ UNCHANGED vars
  BY <1>9 DEF StopReading, vars, regVars, nickVars
<1> QED
  BY <1>4, <1>5, <1>6, <1>7, <1>8, <1>9 DEF Next

LEMMA RegInvHolds == Spec => []RegInv
  BY RegInitInv, RegStepInv, PTL DEF Spec

LEMMA RegInvParts == RegInv => TypeOK /\ RegisteredProperly /\ NicksUnique /\ NickReaches
  BY InvUnique, InvReaches DEF RegInv

\* The flags keep their types, and commands are read from live clients only.
THEOREM RegTypeCorrect == Spec => []TypeOK
  BY RegInvHolds, RegInvParts, PTL

\* Nobody is registered without PASS, NICK and USER, and nobody who has sent the
\* last two is left without a verdict.
THEOREM RegistrationIsProper == Spec => []RegisteredProperly
  BY RegInvHolds, RegInvParts, PTL

\* Nicknames stay unique and lead to the right client while clients register.
THEOREM NicksWhileRegistering == Spec => [](NicksUnique /\ NickReaches)
  BY RegInvHolds, RegInvParts, PTL

\* The ten seconds of silence have no way around them.
THEOREM GateIsTight == Spec => GateHolds
<1>1. RegInv /\ [Next]_vars =>
        [\A c \in Live : registered[c] /\ ~settled[c] =>
           /\ c \in Live' => nick'[c] = nick[c]
           /\ quit'[c] = quit[c]
           /\ c \in ran' => c \in ran]_vars
  BY WaitingIsSilent
<1> QED
  BY <1>1, RegInvHolds, PTL DEF Spec, GateHolds
=============================================================================
