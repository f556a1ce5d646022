------------------------------- MODULE Outbox -------------------------------
(* What a server owes its clients: a message posted to a client is handed to *)
(* it once, after the ones posted before it, unless the client leaves first. *)
EXTENDS Sequences

CONSTANTS Clients, Msgs
VARIABLES here, owed, got

outboxVars == <<here, owed, got>>

Init ==
  /\ here = {}
  /\ owed = [c \in Clients |-> <<>>]
  /\ got = [c \in Clients |-> <<>>]

\* Posting to several clients at once; a newcomer gets its first message.
Post(m, receivers) ==
  /\ receivers \subseteq here
  /\ owed' = [c \in Clients |-> IF c \in receivers THEN Append(owed[c], m) ELSE owed[c]]
  /\ UNCHANGED <<here, got>>

Come(c, m) ==
  /\ c \notin here
  /\ here' = here \cup {c}
  /\ owed' = [owed EXCEPT ![c] = <<m>>]
  /\ UNCHANGED got

Hand(c) ==
  /\ c \in here
  /\ owed[c] # <<>>
  /\ got' = [got EXCEPT ![c] = Append(@, Head(owed[c]))]
  /\ owed' = [owed EXCEPT ![c] = Tail(@)]
  /\ UNCHANGED here

\* Leaving drops what is owed; the others may be told in the same step.
Leave(c, m, receivers) ==
  /\ c \in here
  /\ here' = here \ {c}
  /\ receivers \subseteq here'
  /\ owed' = [d \in Clients |-> IF d = c THEN <<>>
                                ELSE IF d \in receivers THEN Append(owed[d], m)
                                ELSE owed[d]]
  /\ UNCHANGED got

Next ==
  \E c \in Clients, m \in Msgs :
    \/ Come(c, m)
    \/ Hand(c)
    \/ \E receivers \in SUBSET Clients : Post(m, receivers) \/ Leave(c, m, receivers)

Spec == Init /\ [][Next]_outboxVars
=============================================================================
