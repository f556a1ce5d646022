------------------------------ MODULE Audience ------------------------------
(***************************************************************************)
(* Who is told what: broadcast.cpp and what the handlers of Channels send   *)
(* with it, seen from the clients' end.  view[a] is the list of members     *)
(* that a's IRC client shows, which it knows from nothing but messages:     *)
(* the NAMES list of its own JOIN, and then JOIN, PART, KICK, QUIT and NICK *)
(* of the others.                                                          *)
(*                                                                         *)
(* A message counts as shown once it is queued: SendQueue has how it gets   *)
(* out, in order.  A client that sends QUIT stays a member until its own    *)
(* farewell is sent; what came in the same read is still obeyed, what comes *)
(* later is not looked at.                                                 *)
(***************************************************************************)
EXTENDS Channels

CONSTANT MaxQuitting  \* bound on how many clients are between QUIT and their removal

VARIABLES
  view,      \* view[a]: the <<channel, member, name>> that a's client shows
  quit       \* quit[c]: "yes" when Client::_quit is set, "reading" while the handler
             \* that set it may still find commands in its buffer

audienceVars == <<vars, view, quit>>

Shown == ChanNames \X Clients \X (Nicks \cup AnonNicks \cup {NoNick})

AudienceTypeOK ==
  /\ view \in [Clients -> SUBSET Shown]
  /\ quit \in [Clients -> {"no", "reading", "yes"}]

AudienceInit ==
  /\ Init
  /\ view = [a \in Clients |-> {}]
  /\ quit = [c \in Clients |-> "no"]

-----------------------------------------------------------------------------
(* Recipients                                                               *)

\* getChannelRecipients, the sender included: expired entries get nothing.
ChannelRecipients(n) == chan[n].members \cap Live

\* Faulty variant: of the channels of the client only one is looked at.
OneChannelRecipients(c) ==
  IF joined[c] \ dangling[c] = {} THEN {}
  ELSE ChannelRecipients(CHOOSE n \in joined[c] \ dangling[c] : TRUE)

\* getSharedChannelRecipients, the sender included.
SharedChannelRecipients(c) == UNION {ChannelRecipients(n) : n \in joined[c] \ dangling[c]}

-----------------------------------------------------------------------------
(* What the messages do to a client's list                                  *)

Entry(n, m) == <<n, m, nick[m]>>

\* NAMES with c among them: the reply to c's JOIN.
NamesList(c, n) == {Entry(n, m) : m \in ChannelRecipients(n) \cup {c}}

\* JOIN: the newcomer gets the list, the others its name.
ShowJoin(c, n) ==
  view' = [a \in Clients |->
             IF a = c THEN view[a] \cup NamesList(c, n)
             ELSE IF a \in ChannelRecipients(n) THEN view[a] \cup {Entry(n, c)}
             ELSE view[a]]

\* Faulty variant: the message goes out after removeClientByNickname.
ShowLeaveLate(m, n) ==
  view' = [a \in Clients |->
             IF a \in ChannelRecipients(n) \ {m} THEN {e \in view[a] : e[1] # n \/ e[2] # m}
             ELSE view[a]]

\* PART or KICK of m: whoever is in the channel takes m off its list, and m the channel.
ShowLeave(m, n) ==
  view' = [a \in Clients |->
             IF a \notin ChannelRecipients(n) THEN view[a]
             ELSE IF a = m THEN {e \in view[a] : e[1] # n}
             ELSE {e \in view[a] : e[1] # n \/ e[2] # m}]

\* QUIT of c, to told.
WithoutQuitter(c, told) ==
  [a \in Clients |-> IF a \in told THEN {e \in view[a] : e[2] # c} ELSE view[a]]

\* NICK of c.
ShowRename(c) ==
  view' = [a \in Clients |->
             IF a \in SharedChannelRecipients(c) \cup {c}
             THEN {<<e[1], e[2], IF e[2] = c THEN nick'[c] ELSE e[3]>> : e \in view[a]}
             ELSE view[a]]

-----------------------------------------------------------------------------
(* The handlers                                                             *)

\* A step of c ends whatever read another client's commands came with.
ReadBy(c) ==
  quit' = [d \in Clients |-> IF d # c /\ quit[d] = "reading" THEN "yes" ELSE quit[d]]

Removal(c) ==
  quit' = [d \in Clients |-> IF d = c THEN "no"
                              ELSE IF quit[d] = "reading" THEN "yes" ELSE quit[d]]

Entering(c, n) ==
  /\ JoinNew(c, n) \/ \E key \in Keys \cup {NoKey} : Join(c, n, key)
  /\ ShowJoin(c, n)
  /\ ReadBy(c)

Parting(c, n) ==
  /\ Part(c, n)
  /\ ShowLeave(c, n)
  /\ ReadBy(c)

Kicking(c, n, t) ==
  /\ Kick(c, n, t)
  /\ \E m \in ClientsNamed(t) : ShowLeave(m, n)
  /\ ReadBy(c)

\* accept and NICK.
Naming(c) ==
  /\ Session(c)
  /\ ShowRename(c)
  /\ ReadBy(c)

\* handleQuit: told now, removed when the queue is empty.
Quit(c) ==
  /\ Acting(c)
  /\ Cardinality({d \in Clients : quit[d] # "no"} \ {c}) < MaxQuitting
  /\ view' = WithoutQuitter(c, SharedChannelRecipients(c) \cup {c})
  /\ quit' = [d \in Clients |-> IF d = c THEN "reading"
                                 ELSE IF quit[d] = "reading" THEN "yes" ELSE quit[d]]
  /\ UNCHANGED vars

\* remove_Client: recv() returned 0 or an error, the timeout, or after QUIT.
Disconnect(c) ==
  /\ RemoveClient(c)
  /\ view' = [view EXCEPT ![c] = {}]
  /\ Removal(c)

\* send() failed: a QUIT to all but the sender first.
SendFails(c) ==
  /\ RemoveClient(c)
  /\ view' = [WithoutQuitter(c, SharedChannelRecipients(c)) EXCEPT ![c] = {}]
  /\ Removal(c)

Other(c) ==
  /\ OtherCommand(c)
  /\ ReadBy(c)
  /\ UNCHANGED view

Command(c) ==
  /\ quit[c] # "yes"
  /\ \/ Naming(c)
     \/ Quit(c)
     \/ Other(c)
     \/ \E n \in ChanNames :
          \/ Entering(c, n)
          \/ Parting(c, n)
          \/ \E t \in Targets : Kicking(c, n, t)

AudienceNext == \E c \in Clients : Command(c) \/ Disconnect(c) \/ SendFails(c)

AudienceSpec == AudienceInit /\ [][AudienceNext]_audienceVars

-----------------------------------------------------------------------------
\* As long as two clients are connected, each is shown the other in exactly the
\* channels they share and under its present nickname, although every handler picks
\* the recipients of its message by another list and some before, some after the
\* change.  Who has sent QUIT is out of it.
ViewsAgree ==
  \A a \in Live, b \in {m \in Live : quit[m] = "no"}, n \in ChanNames :
    {e \in view[a] : e[1] = n /\ e[2] = b} =
      IF {a, b} \subseteq chan[n].members THEN {Entry(n, b)} ELSE {}

\* A client that quits is taken off the list of everybody who shows it: who is told is
\* found through the channels of the client, who shows it has come about by all that
\* was told before.  (A connection that ends by recv() or a timeout tells nobody, and
\* who joins between a QUIT and the removal is shown the quitter until its send()
\* fails, if it does.)
FarewellsAreHeard ==
  [][\A c \in Live : quit[c] = "no" /\ quit'[c] # "no" =>
       \A a \in Live \ {c} : \A e \in view'[a] : e[2] # c]_audienceVars
=============================================================================
