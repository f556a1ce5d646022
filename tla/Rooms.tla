-------------------------------- MODULE Rooms --------------------------------
(* What a chat server promises about who is where: people come online once,  *)
(* enter rooms, leave or are removed from them one at a time, and somebody   *)
(* who goes is in no room any more, all at once.                             *)
CONSTANTS People, Names
VARIABLES arrived, online, rooms

roomVars == <<arrived, online, rooms>>

Init ==
  /\ arrived = {}
  /\ online = {}
  /\ rooms = [r \in Names |-> {}]

Arrive(p) ==
  /\ p \notin arrived
  /\ arrived' = arrived \cup {p}
  /\ online' = online \cup {p}
  /\ UNCHANGED rooms

Enter(p, r) ==
  /\ p \in online \ rooms[r]
  /\ rooms' = [rooms EXCEPT ![r] = @ \cup {p}]
  /\ UNCHANGED <<arrived, online>>

Leave(p, r) ==
  /\ p \in rooms[r]
  /\ rooms' = [rooms EXCEPT ![r] = @ \ {p}]
  /\ UNCHANGED <<arrived, online>>

Go(p) ==
  /\ p \in online
  /\ online' = online \ {p}
  /\ rooms' = [r \in Names |-> rooms[r] \ {p}]
  /\ UNCHANGED arrived

Next ==
  \E p \in People :
    \/ Arrive(p)
    \/ Go(p)
    \/ \E r \in Names : Enter(p, r) \/ Leave(p, r)

Spec == Init /\ [][Next]_roomVars
=============================================================================
