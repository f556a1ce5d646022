---------------------------- MODULE Registration ----------------------------
(***************************************************************************)
(* From accept to a client that may talk: PASS, NICK and USER in any order  *)
(* (handlePassword, handleNickCommand, handleUser, tryRegisterClient), the   *)
(* ten seconds of silence that validateRegistrationTime imposes, and the    *)
(* way out (Client::_quit, which main honours on EPOLLOUT).  NICK itself is  *)
(* NickRegistry's.                                                          *)
(*                                                                         *)
(* main looks at _quit before it reads from a socket and handleReadEvent    *)
(* then runs every command it finds in what it read, so commands come in    *)
(* batches; no other client is served before the batch ends.               *)
(***************************************************************************)
EXTENDS NickRegistry

CONSTANT NoClient   \* handleReadEvent is not running

ASSUME RegistrationAssumption == NoClient \notin Clients

VARIABLES
  pass,        \* pass[c]: _passwordValid
  user,        \* user[c]: _hasSentUser
  registered,  \* registered[c]: _registered
  settled,     \* settled[c]: ten seconds have passed since _pleaseWait was set
  ready,       \* ready[c]: _clientReadyForInput
  quit,        \* quit[c]: _quit
  reading,     \* the client handleReadEvent is running for
  ran          \* the clients for whom a command that is not PASS, CAP, NICK,
               \* USER, PING, PONG or QUIT has reached its handler

regVars == <<pass, user, registered, settled, ready, quit, reading, ran>>
vars == <<nickVars, regVars>>

TypeOK ==
  /\ NickTypeOK
  /\ pass \in [Clients -> BOOLEAN]
  /\ user \in [Clients -> BOOLEAN]
  /\ registered \in [Clients -> BOOLEAN]
  /\ settled \in [Clients -> BOOLEAN]
  /\ ready \in [Clients -> BOOLEAN]
  /\ quit \in [Clients -> BOOLEAN]
  /\ reading \in Live \cup {NoClient}
  /\ ran \subseteq Clients

No == [c \in Clients |-> FALSE]

Init ==
  /\ NickInit
  /\ pass = No
  /\ user = No
  /\ registered = No
  /\ settled = No
  /\ ready = No
  /\ quit = No
  /\ reading = NoClient
  /\ ran = {}

-----------------------------------------------------------------------------
(* The event loop's part                                                    *)

Open(c) == reading = NoClient /\ Connect(c) /\ UNCHANGED regVars

\* EPOLLIN of a client that is not quitting.
StartReading(c) ==
  /\ reading = NoClient
  /\ c \in Live /\ ~quit[c]
  /\ reading' = c
  /\ UNCHANGED <<nickVars, pass, user, registered, settled, ready, quit, ran>>

StopReading ==
  /\ reading # NoClient
  /\ reading' = NoClient
  /\ UNCHANGED <<nickVars, pass, user, registered, settled, ready, quit, ran>>

\* Faulty variant: a client is removed by the command it sent.
RemoveAtOnce(c) ==
  /\ quit[c] \/ reading = NoClient
  /\ Forget(c)
  /\ UNCHANGED regVars

\* remove_Client: on the EPOLLOUT of a client that is quitting, or when the
\* connection is found to be broken.
Remove(c) ==
  /\ reading = NoClient
  /\ Forget(c)
  /\ UNCHANGED regVars

\* Ten seconds later.
Settle(c) ==
  /\ c \in Live /\ registered[c] /\ ~settled[c]
  /\ settled' = [settled EXCEPT ![c] = TRUE]
  /\ UNCHANGED <<nickVars, pass, user, registered, ready, quit, reading, ran>>

-----------------------------------------------------------------------------
(* Commands                                                                 *)

\* Faulty variant: nobody waits.
GateOpenAlways(c) == TRUE

\* validateRegistrationTime: a client that has not registered is let through (its
\* _pleaseWait is the clock's epoch), one that has waits.
GateOpen(c) == ready[c] \/ (registered[c] => settled[c])

\* What every command does before its handler runs.
Command(c) ==
  /\ reading = c
  /\ GateOpen(c)
  /\ ready' = [ready EXCEPT ![c] = @ \/ registered[c]]

\* tryRegisterClient, given whether the password was valid, and NICK and USER sent.
TryRegister(c, p, named, u) ==
  LET complete == ~registered[c] /\ named /\ u
  IN  /\ registered' = [registered EXCEPT ![c] = @ \/ (complete /\ p)]
      /\ quit' = [quit EXCEPT ![c] = @ \/ (complete /\ ~p)]

Named(c) == nick[c] # NoNick

\* PASS with the server's password.
PassRight(c) ==
  /\ Command(c)
  /\ pass' = [pass EXCEPT ![c] = TRUE]
  /\ TryRegister(c, TRUE, Named(c), user[c])
  /\ UNCHANGED <<nickVars, user, settled, reading, ran>>

\* PASS with another: the client has to go, yet may be registered first.
PassWrong(c) ==
  /\ Command(c)
  /\ registered' = [registered EXCEPT ![c] = @ \/ (Named(c) /\ user[c] /\ pass[c])]
  /\ quit' = [quit EXCEPT ![c] = TRUE]
  /\ UNCHANGED <<nickVars, pass, user, settled, reading, ran>>

\* NICK that sets a name, the first one or another.
SetNick(c) ==
  /\ Command(c)
  /\ \/ \E n \in Nicks : TakeNick(c, n)
     \/ \E n \in Nicks, a \in AnonNicks : TakeAnonNick(c, n, a)
  /\ IF Named(c) THEN UNCHANGED <<registered, quit>>
                 ELSE TryRegister(c, pass[c], TRUE, user[c])
  /\ UNCHANGED <<pass, user, settled, reading, ran>>

\* Faulty variant: USER does not register.
SetUserOnly(c) ==
  /\ Command(c)
  /\ ~user[c]
  /\ user' = [user EXCEPT ![c] = TRUE]
  /\ UNCHANGED <<nickVars, pass, registered, settled, quit, reading, ran>>

\* USER, once.
SetUser(c) ==
  /\ Command(c)
  /\ ~user[c]
  /\ user' = [user EXCEPT ![c] = TRUE]
  /\ TryRegister(c, pass[c], Named(c), TRUE)
  /\ UNCHANGED <<nickVars, pass, settled, reading, ran>>

Quit(c) ==
  /\ Command(c)
  /\ quit' = [quit EXCEPT ![c] = TRUE]
  /\ UNCHANGED <<nickVars, pass, user, registered, settled, reading, ran>>

\* Any other line: CAP, PING, PONG, a second USER, a NICK that is refused, an
\* unknown word.
Other(c) ==
  /\ Command(c)
  /\ UNCHANGED <<nickVars, pass, user, registered, settled, quit, reading, ran>>

\* JOIN, PART, KICK, TOPIC, INVITE, MODE, PRIVMSG and WHOIS.
Run(c) ==
  /\ Command(c)
  /\ ran' = ran \cup {c}
  /\ UNCHANGED <<nickVars, pass, user, registered, settled, quit, reading>>

Next ==
  \/ StopReading
  \/ \E c \in Clients :
       \/ Open(c) \/ StartReading(c) \/ Remove(c) \/ Settle(c)
       \/ PassRight(c) \/ PassWrong(c) \/ SetNick(c) \/ SetUser(c) \/ Quit(c)
       \/ Other(c) \/ Run(c)

Spec == Init /\ [][Next]_vars

-----------------------------------------------------------------------------
\* Whoever is registered has given the right password, a nickname and a user name,
\* in whichever order; and a client that has given the last two is registered or
\* on its way out, so that nobody stays without a verdict.
RegisteredProperly ==
  \A c \in Live :
    /\ registered[c] => pass[c] /\ Named(c) /\ user[c]
    /\ Named(c) /\ user[c] => registered[c] \/ quit[c]

\* For ten seconds after it registered, whatever a client sends is dropped: it
\* renames nobody, runs nothing and does not even quit.
GateHolds ==
  [][\A c \in Live : registered[c] /\ ~settled[c] =>
       /\ c \in Live' => nick'[c] = nick[c]
       /\ quit'[c] = quit[c]
       /\ c \in ran' => c \in ran]_vars
=============================================================================
