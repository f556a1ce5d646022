-------------------------- MODULE SendQueueProofs --------------------------
(* EPOLLOUT is asked for whenever it is needed, for every set of clients,    *)
(* messages, lengths and buffer sizes: a queue that is not empty is armed,    *)
(* and a client marked by _quit has the event that removes it to come.  The   *)
(* second needs the first (QUIT asks for EPOLLOUT only if the queue was       *)
(* empty), and together with the types they are inductive.  Then wakeups, and  *)
(* the implementation of Outbox, as far as the offsets stay right.            *)
EXTENDS SendQueue, SequenceTheorems, TLAPS

SendInv == TypeOK /\ QueueArmed /\ QuitHasEvent

\* A size_t stays one.
LEMMA ModRange ==
  ASSUME NEW x \in Int, NEW n \in Nat \ {0}
  PROVE  x % n \in 0..n - 1
  OBVIOUS

LEMMA LeastOfTwo ==
  ASSUME NEW a \in Int, NEW b \in Int
  PROVE  Least(a, b) \in {a, b} /\ Least(a, b) <= a /\ Least(a, b) <= b
  BY DEF Least

\* What _bytesSentForCurrentMessage and its helpers return is a size_t.
LEMMA OffsetTypes ==
  ASSUME NEW m \in Msgs, NEW off \in 0..SizeMod - 1, NEW k \in Nat
  PROVE  /\ Remaining(m, off) \in 0..SizeMod - 1
         /\ Advanced(m, off, k) \in 0..SizeMod - 1
<1>1. Size[m] \in Nat /\ SizeMod \in Nat \ {0} /\ off \in Int
  BY SendAssumption
<1>2. Remaining(m, off) \in 0..SizeMod - 1
  <2>1. Size[m] - off \in Int
    BY <1>1
  <2> QED
    BY <1>1, <2>1, ModRange, Zenon DEF Remaining
<1>3. (off + k) % SizeMod \in Int
  BY <1>1, ModRange
<1>4. Least((off + k) % SizeMod, Size[m]) \in Int
  BY <1>1, <1>3, LeastOfTwo
<1>5. Advanced(m, off, k) \in 0..SizeMod - 1
  <2>1. off + Least((off + k) % SizeMod, Size[m]) \in Int
    BY <1>1, <1>4
  <2> QED
    BY <1>1, <2>1, ModRange, Zenon DEF Advanced
<1> QED
  BY <1>2, <1>5

\* send() takes no more than there is room for, and something.
LEMMA TakenFits ==
  ASSUME NEW m \in Msgs, NEW off \in 0..SizeMod - 1, NEW free \in 1..Cap,
         NEW k \in Taken(m, off, free)
  PROVE  k \in 0..free
<1> DEFINE asked == Least(Remaining(m, off), free)
<1>1. SizeMod \in Nat \ {0} /\ Cap \in Nat
  BY SendAssumption
<1>2. Remaining(m, off) \in 0..SizeMod - 1
  BY OffsetTypes, 0 \in Nat
<1>3. asked \in 0..free
  BY <1>1, <1>2 DEF Least
<1>4. k = asked \/ k \in 1..asked
  BY DEF Taken
<1> QED
  BY <1>1, <1>3, <1>4

\* The queues start empty.
LEMMA SendInitInv == Init => SendInv
<1> SUFFICES ASSUME Init PROVE SendInv
  OBVIOUS
<1>1. 0 \in 0..SizeMod - 1 /\ Cap \in 0..Cap /\ 0 \in 0..MaxPosts
  BY SendAssumption
<1>2. TypeOK
  <2>1. queue \in [Clients -> Seq(Msgs)] /\ wire \in [Clients -> Seq(Msgs)]
    BY DEF Init
  <2>2. /\ conn \in [Clients -> {"none", "live", "gone"}]
        /\ offset \in [Clients -> 0..SizeMod - 1]
        /\ room \in [Clients -> 0..Cap]
        /\ sent \in [Clients -> Nat]
    BY <1>1 DEF Init
  <2> QED
    BY <1>1, <2>1, <2>2 DEF Init, TypeOK
<1>3. Live = {}
  BY DEF Init, Live
<1> QED
  BY <1>2, <1>3 DEF SendInv, QueueArmed, QuitHasEvent

\* A message in the queues of its receivers, with EPOLLOUT asked for where the
\* queue was empty, leaves every queue armed.
LEMMA QueuedTypes ==
  ASSUME TypeOK, NEW m \in Msgs, NEW receivers
  PROVE  /\ Queued(m, receivers) \in [Clients -> Seq(Msgs)]
         /\ \A c \in Clients : c \notin receivers => Queued(m, receivers)[c] = queue[c]
  BY DEF TypeOK, Queued

LEMMA TellInv ==
  ASSUME SendInv, NEW m \in Msgs, NEW receivers \in SUBSET Clients,
         Tell(m, receivers)
  PROVE  /\ quit' \in [Clients -> BOOLEAN] => TypeOK'
         /\ QueueArmed'
         /\ \A c \in Clients : wants[c] => wants'[c]
         /\ \A c \in receivers : wants'[c]
         /\ Live' = Live /\ sending' = sending
<1> USE DEF SendInv
<1>1. queue' = Queued(m, receivers) /\ conn' = conn /\ sending' = sending
  BY DEF Tell, Enqueue
<1>2. wants' = [c \in Clients |-> wants[c] \/ c \in receivers \cap Idle]
  BY DEF Tell, Enqueue, AskEpollOut
<1>3. Live' = Live
  BY <1>1 DEF Live
<1>4. ASSUME quit' \in [Clients -> BOOLEAN] PROVE TypeOK'
  <2>1. queue' \in [Clients -> Seq(Msgs)]
    BY <1>1, QueuedTypes
  <2>2. ready' \in [Clients -> BOOLEAN] /\ wants' \in [Clients -> BOOLEAN]
    BY DEF Tell, Enqueue, AskEpollOut, TypeOK
  <2>3. posts' \in 0..MaxPosts
    BY SendAssumption DEF Tell, TypeOK
  <2>4. UNCHANGED <<conn, offset, acked, room, sending, returned, sent, wire, intact>>
    BY DEF Tell, wireVars
  <2> QED
    BY <1>4, <2>1, <2>2, <2>3, <2>4 DEF TypeOK
<1>5. \A c \in Clients : wants[c] => wants'[c]
  BY <1>2
<1>6. ASSUME NEW c \in receivers PROVE wants'[c]
  <2>1. c \in Live /\ c \in Clients
    BY DEF Tell, Live
  <2>2. queue[c] # <<>> => wants[c]
    BY <2>1 DEF QueueArmed
  <2> QED
    BY <1>2, <2>1, <2>2 DEF Idle
<1>7. QueueArmed'
  <2> SUFFICES ASSUME NEW c \in Live, queue'[c] # <<>> PROVE wants'[c]
    BY <1>3 DEF QueueArmed
  <2>1. CASE c \in receivers
    BY <1>6, <2>1
  <2>2. CASE c \notin receivers
    BY <1>1, <1>5, <2>2, QueuedTypes DEF QueueArmed, Live
  <2> QED
    BY <2>1, <2>2
<1> QED
  BY <1>1, <1>3, <1>4, <1>5, <1>6, <1>7

\* An action that leaves the queues alone and takes no EPOLLOUT back.
LEMMA QuietInv ==
  ASSUME SendInv, TypeOK', UNCHANGED <<queue, wants, quit>>,
         Live' \subseteq Live, \A c \in Live' : sending = c => sending' = c
  PROVE  SendInv'
  BY DEF SendInv, QueueArmed, QuitHasEvent

LEMMA AcceptInv ==
  ASSUME SendInv, NEW c \in Clients, NEW m \in Msgs, Accept(c, m)
  PROVE  SendInv'
<1> USE DEF SendInv
<1>1. TypeOK'
  <2>1. posts' \in 0..MaxPosts
    BY SendAssumption DEF Accept, TypeOK
  <2> QED
    BY <2>1 DEF Accept, TypeOK, wireVars
<1>2. Live' = Live \cup {c} /\ wants' = [wants EXCEPT ![c] = TRUE]
  BY DEF Accept, TypeOK, Live
<1>3. \A d \in Live' : d = c \/ (d \in Live /\ queue'[d] = queue[d])
  BY <1>2 DEF Accept, TypeOK, Live
<1>4. \A d \in Live' : wants'[d] \/ (d \in Live /\ d # c /\ wants'[d] = wants[d])
  BY <1>2, <1>3 DEF TypeOK, Live
<1>5. QueueArmed'
  BY <1>3, <1>4 DEF QueueArmed
<1>6. QuitHasEvent'
  BY <1>4 DEF QuitHasEvent, Accept
<1> QED
  BY <1>1, <1>5, <1>6

LEMMA PostInv ==
  ASSUME SendInv, NEW m \in Msgs, NEW receivers \in SUBSET Clients,
         Post(m, receivers)
  PROVE  SendInv'
<1>1. Tell(m, receivers) /\ quit' = quit /\ quit \in [Clients -> BOOLEAN]
  BY DEF Post, SendInv, TypeOK
<1>2. QuitHasEvent'
  BY <1>1, TellInv DEF QuitHasEvent, SendInv, Live
<1> QED
  BY <1>1, <1>2, TellInv DEF SendInv

\* QUIT tells the client itself: its queue is not empty, so it is armed.
LEMMA QuitInv ==
  ASSUME SendInv, NEW c \in Clients, NEW m \in Msgs,
         NEW receivers \in SUBSET Clients, Quit(c, m, receivers)
  PROVE  SendInv'
<1>1. Tell(m, receivers) /\ c \in receivers /\ quit' = [quit EXCEPT ![c] = TRUE]
  BY DEF Quit
<1>2. quit' \in [Clients -> BOOLEAN]
  BY <1>1 DEF SendInv, TypeOK
<1>3. \A d \in Clients : quit'[d] => d = c \/ quit[d]
  BY <1>1 DEF SendInv, TypeOK
<1>4. QuitHasEvent'
  BY <1>1, <1>3, TellInv DEF QuitHasEvent, SendInv, Live
<1> QED
  BY <1>1, <1>2, <1>4, TellInv DEF SendInv

LEMMA EpollOutInv ==
  ASSUME SendInv, NEW c \in Clients, EpollOut(c)
  PROVE  SendInv'
<1>1. TypeOK'
  BY DEF EpollOut, SendInv, TypeOK, wireVars
<1>2. Live' = Live /\ \A d \in Live : sending # d
  BY SendAssumption DEF EpollOut, Live
<1> QED
  BY <1>1, <1>2, QuietInv DEF EpollOut

\* A send() takes bytes and at most the message in front: the queue was armed.
LEMMA SendSomeInv ==
  ASSUME SendInv, NEW c \in Clients, SendSome(c)
  PROVE  SendInv'
<1> DEFINE m == Head(queue[c])
           off == offset[c]
<1>1. m \in Msgs /\ off \in 0..SizeMod - 1 /\ queue[c] \in Seq(Msgs) /\ queue[c] # <<>>
  BY DEF SendSome, SendInv, TypeOK
<1>2. room[c] \in 1..Cap
  BY SendAssumption DEF SendSome, SendInv, TypeOK
<1>3. PICK k \in Taken(m, off, room[c]) :
        LET new == Advanced(m, off, k)
            done == Remaining(m, new) = 0
            from == Least(off, Size[m])
            clean == from = sent[c] /\ from + k <= Size[m]
            whole == clean /\ from + k = Size[m]
        IN  /\ room' = [room EXCEPT ![c] = @ - k]
            /\ queue' = [queue EXCEPT ![c] = IF done THEN Tail(@) ELSE @]
            /\ offset' = [offset EXCEPT ![c] = IF done THEN 0 ELSE new]
            /\ returned' = ~done
            /\ sent' = [sent EXCEPT ![c] = IF done THEN 0 ELSE IF clean THEN @ + k ELSE @]
            /\ wire' = [wire EXCEPT ![c] = IF whole THEN Append(@, m) ELSE @]
            /\ intact' = [intact EXCEPT ![c] = @ /\ clean /\ (whole <=> done)]
  BY DEF SendSome
<1> DEFINE new == Advanced(m, off, k)
           done == Remaining(m, new) = 0
           clean == Least(off, Size[m]) = sent[c] /\ Least(off, Size[m]) + k <= Size[m]
           whole == clean /\ Least(off, Size[m]) + k = Size[m]
<1>4. k \in 0..room[c]
  BY <1>1, <1>2, <1>3, TakenFits
<1>5. new \in 0..SizeMod - 1 /\ 0 \in 0..SizeMod - 1
  <2>1. k \in Nat /\ SizeMod \in Nat \ {0}
    BY <1>2, <1>4, SendAssumption
  <2>2. new \in 0..SizeMod - 1
    BY <1>1, <2>1, OffsetTypes, Zenon
  <2> QED
    BY <2>1, <2>2
<1>6. UNCHANGED <<conn, quit, acked, wants, ready, sending, posts>>
  BY DEF SendSome
<1>7. Tail(queue[c]) \in Seq(Msgs)
  BY <1>1
<1>8. TypeOK'
  <2>1. room' \in [Clients -> 0..Cap]
    <3>1. room[c] - k \in 0..Cap
      BY <1>2, <1>4, SendAssumption
    <3> QED
      BY <1>3, <3>1 DEF SendInv, TypeOK
  <2>2. queue' \in [Clients -> Seq(Msgs)]
    <3>1. queue' = [queue EXCEPT ![c] = IF done THEN Tail(queue[c]) ELSE queue[c]]
      BY <1>3
    <3> HIDE DEF done, m
    <3> QED
      BY <1>7, <3>1 DEF SendInv, TypeOK
  <2>3. offset' \in [Clients -> 0..SizeMod - 1] /\ returned' \in BOOLEAN
    <3>1. offset' = [offset EXCEPT ![c] = IF done THEN 0 ELSE new] /\ returned' = ~done
      BY <1>3
    <3> HIDE DEF done, new
    <3> QED
      BY <1>5, <3>1 DEF SendInv, TypeOK
  <2>4. sent' \in [Clients -> Nat]
    <3>1. sent' = [sent EXCEPT ![c] = IF done THEN 0
                                      ELSE IF clean THEN sent[c] + k ELSE sent[c]]
      BY <1>3
    <3>2. k \in Nat
      BY <1>2, <1>4, SendAssumption
    <3> HIDE DEF done, clean
    <3> QED
      BY <3>1, <3>2 DEF SendInv, TypeOK
  <2>5. wire' \in [Clients -> Seq(Msgs)]
    <3>1. wire' = [wire EXCEPT ![c] = IF whole THEN Append(wire[c], m) ELSE wire[c]]
      BY <1>3
    <3>2. Append(wire[c], m) \in Seq(Msgs)
      BY <1>1 DEF SendInv, TypeOK
    <3> HIDE DEF whole, m
    <3> QED
      BY <3>1, <3>2 DEF SendInv, TypeOK
  <2>6. intact' \in [Clients -> BOOLEAN]
    <3>1. intact' = [intact EXCEPT ![c] = intact[c] /\ clean /\ (whole <=> done)]
      BY <1>3
    <3>2. (intact[c] /\ clean /\ (whole <=> done)) \in BOOLEAN
      OBVIOUS
    <3> HIDE DEF whole, clean, done
    <3> QED
      BY <3>1, <3>2 DEF SendInv, TypeOK
  <2> QED
    BY <1>6, <2>1, <2>2, <2>3, <2>4, <2>5, <2>6 DEF SendInv, TypeOK
<1>9. \A d \in Clients : queue'[d] # <<>> => queue[d] # <<>>
  BY <1>1, <1>3 DEF SendInv, TypeOK
<1>10. Live' = Live
  BY <1>6 DEF Live
<1>11. QueueArmed' /\ QuitHasEvent'
  BY <1>6, <1>9, <1>10 DEF SendInv, QueueArmed, QuitHasEvent, Live
<1> QED
  BY <1>8, <1>11 DEF SendInv

LEMMA SendFullInv ==
  ASSUME SendInv, NEW c \in Clients, SendFull(c)
  PROVE  SendInv'
<1>1. TypeOK'
  BY DEF SendFull, SendInv, TypeOK, wireVars
<1>2. Live' = Live
  BY DEF SendFull, Live
<1> QED
  BY <1>1, <1>2, QuietInv DEF SendFull

\* EPOLLOUT is taken back where the queue is empty, while it is being handled.
LEMMA FlushedInv ==
  ASSUME SendInv, NEW c \in Clients, Flushed(c)
  PROVE  SendInv'
<1>1. TypeOK'
  BY DEF Flushed, Disarm, SendInv, TypeOK, wireVars
<1>2. Live' = Live /\ wants' = [wants EXCEPT ![c] = FALSE]
  BY DEF Flushed, Disarm, Live
<1>3. \A d \in Live : d # c => wants'[d] = wants[d]
  BY <1>2 DEF SendInv, TypeOK, Live
<1>4. queue' = queue /\ queue[c] = <<>> /\ sending' = sending /\ sending = c /\ quit' = quit
  BY DEF Flushed, Disarm, InLoop
<1>5. QueueArmed' /\ QuitHasEvent'
  BY <1>2, <1>3, <1>4 DEF SendInv, QueueArmed, QuitHasEvent
<1> QED
  BY <1>1, <1>5 DEF SendInv

\* A client that goes takes its obligations with it; nobody else's change.
LEMMA DestroyedInv ==
  ASSUME SendInv, NEW c \in Clients, Destroyed(c),
         queue' \in [Clients -> Seq(Msgs)], wants' \in [Clients -> BOOLEAN],
         ready' \in [Clients -> BOOLEAN], posts' \in 0..MaxPosts,
         sending \in {c, NoOne},
         \A d \in Live \ {c} : wants[d] => wants'[d],
         \A d \in Live \ {c} : queue'[d] # <<>> => queue[d] # <<>> \/ wants'[d]
  PROVE  SendInv'
<1>1. 0 \in 0..SizeMod - 1 /\ Cap \in 0..Cap
  BY SendAssumption
<1>2. TypeOK'
  BY <1>1 DEF Destroyed, SendInv, TypeOK
<1>3. Live' = Live \ {c}
  BY DEF Destroyed, Live, SendInv, TypeOK
<1>4. QueueArmed'
  BY <1>3 DEF SendInv, QueueArmed
<1>5. QuitHasEvent'
  <2> SUFFICES ASSUME NEW d \in Live \ {c}, quit'[d] PROVE wants'[d]
    BY <1>3 DEF QuitHasEvent
  <2>1. d \in Clients /\ d # NoOne /\ quit[d]
    BY SendAssumption DEF Destroyed, Live, SendInv, TypeOK
  <2> QED
    BY <2>1 DEF SendInv, QuitHasEvent
<1> QED
  BY <1>2, <1>4, <1>5 DEF SendInv

LEMMA SilencedDestroyedInv ==
  ASSUME SendInv, NEW c \in Clients, Silenced(c), Destroyed(c), posts' = posts,
         sending \in {c, NoOne}
  PROVE  SendInv'
<1>1. queue' \in [Clients -> Seq(Msgs)]
  BY DEF Silenced, SendInv, TypeOK
<1>2. /\ wants' \in [Clients -> BOOLEAN]
      /\ ready' \in [Clients -> BOOLEAN]
      /\ posts' \in 0..MaxPosts
  BY DEF Silenced, SendInv, TypeOK
<1>3. \A d \in Live \ {c} : wants'[d] = wants[d] /\ queue'[d] = queue[d]
  BY DEF Silenced, SendInv, TypeOK, Live
<1> QED
  BY <1>1, <1>2, <1>3, DestroyedInv

LEMMA SendFailsInv ==
  ASSUME SendInv, NEW c \in Clients, NEW m \in Msgs,
         NEW receivers \in SUBSET Clients, SendFails(c, m, receivers)
  PROVE  SendInv'
<1>1. queue' \in [Clients -> Seq(Msgs)]
  BY QueuedTypes DEF SendFails, SendInv
<1>2. /\ wants' = [d \in Clients |-> d # c /\ (wants[d] \/ d \in receivers \cap Idle)]
      /\ wants' \in [Clients -> BOOLEAN]
      /\ ready' \in [Clients -> BOOLEAN]
  BY DEF SendFails, SendInv, TypeOK
<1>3. posts' \in 0..MaxPosts
  BY SendAssumption DEF SendFails, SendInv, TypeOK
<1>4. ASSUME NEW d \in Live \ {c}
      PROVE  /\ wants[d] => wants'[d]
             /\ queue'[d] # <<>> => queue[d] # <<>> \/ wants'[d]
  <2>1. d \in Clients
    BY DEF Live
  <2>2. d \notin receivers => queue'[d] = queue[d]
    BY <2>1, QueuedTypes DEF SendFails, SendInv
  <2> QED
    BY <1>2, <2>1, <2>2 DEF Idle
<1> QED
  BY <1>1, <1>2, <1>3, <1>4, DestroyedInv DEF SendFails, InLoop

LEMMA ReturnAndStayInv ==
  ASSUME SendInv, NEW c \in Clients, ReturnAndStay(c)
  PROVE  SendInv'
<1>1. TypeOK'
  BY DEF ReturnAndStay, Done, SendInv, TypeOK, wireVars
<1>2. Live' = Live /\ sending = c /\ ~quit[c] /\ UNCHANGED <<queue, wants, quit>>
  BY DEF ReturnAndStay, Done, Live
<1>3. QueueArmed' /\ QuitHasEvent'
  BY <1>2 DEF SendInv, QueueArmed, QuitHasEvent
<1> QED
  BY <1>1, <1>3 DEF SendInv

LEMMA DrainInv ==
  ASSUME SendInv, NEW c \in Clients, NEW free \in 1..Cap, Drain(c, free)
  PROVE  SendInv'
<1>1. free \in 0..Cap
  BY SendAssumption
<1>2. TypeOK'
  BY <1>1 DEF Drain, SendInv, TypeOK, wireVars
<1>3. Live' = Live
  BY DEF Drain, Live
<1> QED
  BY <1>2, <1>3, QuietInv DEF Drain

LEMMA ArriveInv ==
  ASSUME SendInv, NEW c \in Clients, Arrive(c)
  PROVE  SendInv'
<1>1. TypeOK'
  BY DEF Arrive, SendInv, TypeOK, wireVars
<1>2. Live' = Live
  BY DEF Arrive, Live
<1> QED
  BY <1>1, <1>2, QuietInv DEF Arrive

\* Every step of the server, the kernel and the peers keeps the invariant.
LEMMA SendStepInv == SendInv /\ [Next]_vars => SendInv'
<1> SUFFICES ASSUME SendInv, [Next]_vars PROVE SendInv'
  OBVIOUS
<1>1. ASSUME NEW c \in Clients, EpollOut(c) PROVE SendInv'
  BY <1>1, EpollOutInv
<1>2. ASSUME NEW c \in Clients, SendStep(c) PROVE SendInv'
  <2>1. ASSUME Return(c) PROVE SendInv'
    BY <2>1, SilencedDestroyedInv DEF Return
  <2> QED
    BY <1>2, <2>1, SendSomeInv, SendFullInv, FlushedInv, ReturnAndStayInv DEF SendStep
<1>3. ASSUME NEW c \in Clients, Disconnect(c) PROVE SendInv'
  BY <1>3, SilencedDestroyedInv DEF Disconnect
<1>4. ASSUME NEW c \in Clients, Arrive(c) PROVE SendInv'
  BY <1>4, ArriveInv
<1>5. ASSUME NEW c \in Clients, NEW free \in 1..Cap, Drain(c, free) PROVE SendInv'
  BY <1>5, DrainInv
<1>6. ASSUME NEW c \in Clients, NEW m \in Msgs, Accept(c, m) PROVE SendInv'
  BY <1>6, AcceptInv
<1>7. ASSUME NEW c \in Clients, NEW m \in Msgs, NEW receivers \in SUBSET Clients,
             Post(m, receivers) \/ Quit(c, m, receivers) \/ SendFails(c, m, receivers)
      PROVE  SendInv'
  BY <1>7, PostInv, QuitInv, SendFailsInv
<1>8. CASE UNCHANGED vars
  BY <1>8 DEF vars, outVars, wireVars, SendInv, TypeOK, QueueArmed, QuitHasEvent, Live
<1> QED
  BY <1>1, <1>2, <1>3, <1>4, <1>5, <1>6, <1>7, <1>8 DEF Next

LEMMA InvParts == SendInv => TypeOK /\ QueueArmed /\ QuitHasEvent
  BY DEF SendInv

\* The offset stays a size_t and the buffers within their size, whatever is sent.
THEOREM SendTypeCorrect == Spec => []TypeOK
  BY SendInitInv, SendStepInv, InvParts, PTL DEF Spec

\* No queue is ever left without EPOLLOUT being asked for.
THEOREM QueuesStayArmed == Spec => []QueueArmed
  BY SendInitInv, SendStepInv, InvParts, PTL DEF Spec

\* A client that is to be removed always has the event that removes it to come.
THEOREM QuitWillBeSeen == Spec => []QuitHasEvent
  BY SendInitInv, SendStepInv, InvParts, PTL DEF Spec

-----------------------------------------------------------------------------
(* No wakeup is lost.  Between handlers a client with an empty queue does not *)
(* ask for EPOLLOUT, so that the next message changes its mask and epoll looks *)
(* at the socket again; and a send() that takes a part fills the socket, so    *)
(* that the peer's next read is an edge.                                       *)

IdleDisarmed == \A c \in Live : queue[c] = <<>> /\ wants[c] => InLoop(c)

WakeInv == IdleDisarmed /\ NoLostWakeup

\* What is asked of one client: the others of a step keep it, as far as they
\* keep what it is about.
IdleOf(c) == queue[c] = <<>> /\ wants[c] => InLoop(c)

WakeOf(c) == intact[c] /\ queue[c] # <<>> /\ room[c] > 0 => ready[c] \/ InLoop(c)

LEMMA WakeParts == WakeInv <=> \A c \in Live : IdleOf(c) /\ WakeOf(c)
  BY DEF WakeInv, IdleDisarmed, NoLostWakeup, IdleOf, WakeOf

LEMMA WakePartsNext == (\A c \in Live' : IdleOf(c)' /\ WakeOf(c)') => WakeInv'
  BY DEF WakeInv, IdleDisarmed, NoLostWakeup, IdleOf, WakeOf

LEMMA AppendedTo ==
  ASSUME NEW s \in Seq(Msgs), NEW m \in Msgs
  PROVE  Append(s, m) # <<>> /\ Len(Append(s, m)) = Len(s) + 1
  BY AppendProperties

LEMMA WakeFrame ==
  ASSUME WakeInv, NEW d \in Live,
         queue'[d] = queue[d], wants'[d] = wants[d], room'[d] = room[d],
         ready'[d] = ready[d], intact'[d] = intact[d], InLoop(d) => InLoop(d)'
  PROVE  IdleOf(d)' /\ WakeOf(d)'
  BY WakeParts DEF IdleOf, WakeOf

\* While no handler of EPOLLOUT runs, and when the client whose handler runs has
\* gone, the message a client is told wakes it.
LEMMA WakeTold ==
  ASSUME SendInv, WakeInv, NEW m \in Msgs, NEW receivers \in SUBSET Clients,
         NEW d \in Live, ~InLoop(d),
         queue'[d] = Queued(m, receivers)[d],
         wants'[d] = (wants[d] \/ d \in receivers \cap Idle),
         ready'[d] = (ready[d] \/ (d \in receivers \cap Idle /\ ~wants[d] /\ room[d] > 0)),
         room'[d] = room[d], intact'[d] = intact[d]
  PROVE  IdleOf(d)' /\ WakeOf(d)'
<1>1. d \in Clients /\ queue[d] \in Seq(Msgs) /\ IdleOf(d) /\ WakeOf(d)
  BY WakeParts DEF Live, SendInv, TypeOK
<1>2. CASE d \in receivers /\ queue[d] = <<>>
  <2>1. d \in Idle /\ ~wants[d]
    BY <1>1, <1>2 DEF Idle, IdleOf
  <2>2. Append(queue[d], m) # <<>> /\ queue'[d] = Append(queue[d], m)
    BY <1>1, <1>2, AppendedTo DEF Queued
  <2> QED
    BY <1>2, <2>1, <2>2 DEF IdleOf, WakeOf
<1>3. CASE d \in receivers /\ queue[d] # <<>>
  <2>1. d \notin Idle
    BY <1>3 DEF Idle
  <2>2. Append(queue[d], m) # <<>> /\ queue'[d] = Append(queue[d], m)
    BY <1>1, <1>3, AppendedTo DEF Queued
  <2> QED
    BY <1>1, <1>3, <2>1, <2>2 DEF IdleOf, WakeOf
<1>4. CASE d \notin receivers
  <2>1. queue'[d] = queue[d]
    BY <1>1, <1>4, QueuedTypes DEF SendInv
  <2> QED
    BY <1>1, <1>4, <2>1 DEF IdleOf, WakeOf
<1> QED
  BY <1>2, <1>3, <1>4

LEMMA TellWake ==
  ASSUME SendInv, WakeInv, NEW m \in Msgs, NEW receivers \in SUBSET Clients,
         Tell(m, receivers)
  PROVE  WakeInv'
<1>1. Live' = Live
  BY DEF Tell, Live
<1> SUFFICES ASSUME NEW d \in Live PROVE IdleOf(d)' /\ WakeOf(d)'
  BY <1>1, WakePartsNext
<1>2. d \in Clients /\ ~InLoop(d)
  BY SendAssumption DEF Tell, InLoop, Live
<1>3. /\ queue'[d] = Queued(m, receivers)[d]
      /\ wants'[d] = (wants[d] \/ d \in receivers \cap Idle)
      /\ ready'[d] = (ready[d] \/ (d \in receivers \cap Idle /\ ~wants[d] /\ room[d] > 0))
      /\ room'[d] = room[d] /\ intact'[d] = intact[d]
  BY <1>2 DEF Tell, Enqueue, AskEpollOut, wireVars
<1> QED
  BY <1>2, <1>3, WakeTold

LEMMA AcceptWake ==
  ASSUME SendInv, WakeInv, NEW c \in Clients, NEW m \in Msgs, Accept(c, m)
  PROVE  WakeInv'
<1> SUFFICES ASSUME NEW d \in Live' PROVE IdleOf(d)' /\ WakeOf(d)'
  BY WakePartsNext
<1>1. CASE d = c
  BY <1>1 DEF Accept, SendInv, TypeOK, IdleOf, WakeOf
<1>2. CASE d # c
  <2>1. d \in Live /\ d \in Clients
    BY <1>2 DEF Accept, Live, SendInv, TypeOK
  <2>2. /\ queue'[d] = queue[d] /\ wants'[d] = wants[d] /\ room'[d] = room[d]
        /\ ready'[d] = ready[d] /\ intact'[d] = intact[d] /\ InLoop(d)' = InLoop(d)
    BY <1>2, <2>1 DEF Accept, SendInv, TypeOK, wireVars, InLoop
  <2> QED
    BY <2>1, <2>2, WakeFrame
<1> QED
  BY <1>1, <1>2

\* The edge is reported, and the handler that looks at the queue begins.
LEMMA EpollOutWake ==
  ASSUME SendInv, WakeInv, NEW c \in Clients, EpollOut(c)
  PROVE  WakeInv'
<1> SUFFICES ASSUME NEW d \in Live' PROVE IdleOf(d)' /\ WakeOf(d)'
  BY WakePartsNext
<1>1. d \in Live /\ d \in Clients /\ ~InLoop(d)
  BY SendAssumption DEF EpollOut, Live, InLoop
<1>2. CASE d = c
  BY <1>2 DEF EpollOut, InLoop, IdleOf, WakeOf
<1>3. CASE d # c
  <2>1. /\ queue'[d] = queue[d] /\ wants'[d] = wants[d] /\ room'[d] = room[d]
        /\ ready'[d] = ready[d] /\ intact'[d] = intact[d]
    BY <1>1, <1>3 DEF EpollOut, SendInv, TypeOK, wireVars
  <2> QED
    BY <1>1, <2>1, WakeFrame
<1> QED
  BY <1>2, <1>3

\* send_message leaves after a part of a message only when the socket is full,
\* as long as the offset has not gone wrong.
LEMMA PartFillsSocket ==
  ASSUME NEW m \in Msgs, NEW off \in 0..SizeMod - 1, NEW free \in 1..Cap,
         NEW k \in Taken(m, off, free), Least(off, Size[m]) + k < Size[m]
  PROVE  k = free
<1> DEFINE asked == Least(Remaining(m, off), free)
<1>1. Size[m] \in Nat /\ SizeMod \in Nat \ {0} /\ Size[m] < SizeMod /\ Cap \in Nat \ {0}
  BY SendAssumption
<1>2. Remaining(m, off) \in 0..SizeMod - 1
  BY OffsetTypes, 0 \in Nat
<1>3. k \in 0..free
  BY TakenFits
<1>4. off < Size[m] /\ Least(off, Size[m]) = off
  BY <1>1, <1>3 DEF Least
<1>5. Remaining(m, off) = Size[m] - off
  BY <1>1, <1>4 DEF Remaining
<1>6. asked <= Size[m] - off
  BY <1>1, <1>4, <1>5 DEF Least
<1>7. k = asked
  <2>1. asked \in Int /\ off + asked <= Size[m]
    BY <1>1, <1>2, <1>4, <1>6, LeastOfTwo
  <2> QED
    BY <1>4, <2>1 DEF Taken
<1> QED
  BY <1>1, <1>4, <1>5, <1>7 DEF Least

LEMMA SendSomeWake ==
  ASSUME SendInv, WakeInv, NEW c \in Clients, SendSome(c)
  PROVE  WakeInv'
<1> DEFINE m == Head(queue[c])
           off == offset[c]
<1>1. m \in Msgs /\ off \in 0..SizeMod - 1 /\ queue[c] \in Seq(Msgs) /\ queue[c] # <<>>
  BY DEF SendSome, SendInv, TypeOK
<1>2. room[c] \in 1..Cap
  BY SendAssumption DEF SendSome, SendInv, TypeOK
<1>3. PICK k \in Taken(m, off, room[c]) :
        LET new == Advanced(m, off, k)
            done == Remaining(m, new) = 0
            from == Least(off, Size[m])
            clean == from = sent[c] /\ from + k <= Size[m]
            whole == clean /\ from + k = Size[m]
        IN  /\ room' = [room EXCEPT ![c] = @ - k]
            /\ queue' = [queue EXCEPT ![c] = IF done THEN Tail(@) ELSE @]
            /\ returned' = ~done
            /\ intact' = [intact EXCEPT ![c] = @ /\ clean /\ (whole <=> done)]
  BY DEF SendSome
<1> DEFINE done == Remaining(m, Advanced(m, off, k)) = 0
           from == Least(off, Size[m])
<1>4. UNCHANGED <<conn, wants, ready, sending>> /\ sending = c /\ Live' = Live
  BY DEF SendSome, InLoop, Live
<1>5. k \in 0..room[c]
  BY <1>1, <1>2, <1>3, TakenFits
<1>6. Size[m] \in Nat /\ from \in Nat /\ Cap \in Nat /\ SizeMod \in Nat
  BY <1>1, SendAssumption DEF Least
<1> SUFFICES ASSUME NEW d \in Live PROVE IdleOf(d)' /\ WakeOf(d)'
  BY <1>4, WakePartsNext
<1>7. CASE d # c
  <2>1. d \in Clients /\ queue'[d] = queue[d] /\ room'[d] = room[d] /\ intact'[d] = intact[d]
    BY <1>3, <1>7 DEF SendInv, TypeOK, Live
  <2>2. InLoop(d) => InLoop(d)'
    BY <1>4, <1>7 DEF InLoop
  <2> QED
    BY <1>4, <2>1, <2>2, WakeFrame
<1>8. CASE d = c /\ done
  <2>1. InLoop(c)'
    BY <1>3, <1>4, <1>8 DEF InLoop
  <2> QED
    BY <1>8, <2>1 DEF IdleOf, WakeOf
<1>9. CASE d = c /\ ~done
  <2>1. queue'[c] = queue[c]
    BY <1>3, <1>9 DEF SendInv, TypeOK
  <2>2. ASSUME intact'[c] PROVE room'[c] = 0
    <3>1. from + k <= Size[m] /\ from + k # Size[m]
      BY <1>3, <1>9, <2>2 DEF SendInv, TypeOK
    <3>2. from + k < Size[m]
      <4> HIDE DEF from
      <4> QED
        BY <1>2, <1>5, <1>6, <3>1
    <3>3. k = room[c]
      BY <1>1, <1>2, <3>2, PartFillsSocket
    <3> QED
      BY <1>2, <1>3, <1>6, <3>3 DEF SendInv, TypeOK
  <2> QED
    BY <1>1, <1>9, <2>1, <2>2 DEF IdleOf, WakeOf
<1> QED
  BY <1>7, <1>8, <1>9

LEMMA SendFullWake ==
  ASSUME SendInv, WakeInv, NEW c \in Clients, SendFull(c)
  PROVE  WakeInv'
<1> SUFFICES ASSUME NEW d \in Live PROVE IdleOf(d)' /\ WakeOf(d)'
  <2>1. Live' = Live
    BY DEF SendFull, Live
  <2> QED
    BY <2>1, WakePartsNext
<1>1. CASE d = c
  BY <1>1 DEF SendFull, IdleOf, WakeOf
<1>2. CASE d # c
  <2>1. ~InLoop(d)
    BY <1>2 DEF SendFull, InLoop
  <2> QED
    BY <2>1, WakeFrame DEF SendFull, wireVars
<1> QED
  BY <1>1, <1>2

\* EPOLLOUT is taken back where there is nothing left to send.
LEMMA FlushedWake ==
  ASSUME SendInv, WakeInv, NEW c \in Clients, Flushed(c)
  PROVE  WakeInv'
<1> SUFFICES ASSUME NEW d \in Live PROVE IdleOf(d)' /\ WakeOf(d)'
  <2>1. Live' = Live
    BY DEF Flushed, Disarm, Live
  <2> QED
    BY <2>1, WakePartsNext
<1>1. CASE d = c
  BY <1>1 DEF Flushed, Disarm, SendInv, TypeOK, IdleOf, WakeOf
<1>2. CASE d # c
  <2>1. ~InLoop(d) /\ d \in Clients
    BY <1>2 DEF Flushed, InLoop, Live
  <2>2. /\ queue'[d] = queue[d] /\ wants'[d] = wants[d] /\ room'[d] = room[d]
        /\ ready'[d] = ready[d] /\ intact'[d] = intact[d]
    BY <1>2, <2>1 DEF Flushed, Disarm, SendInv, TypeOK, wireVars
  <2> QED
    BY <2>1, <2>2, WakeFrame
<1> QED
  BY <1>1, <1>2

\* The client whose handler runs goes: nobody else was in its loop.
LEMMA DestroyedOthers ==
  ASSUME SendInv, NEW c \in Clients, Destroyed(c), sending \in {c, NoOne},
         NEW d \in Live'
  PROVE  /\ d \in Live /\ d # c /\ d \in Clients /\ ~InLoop(d)
         /\ room'[d] = room[d] /\ intact'[d] = intact[d]
<1>1. d \in Clients /\ d # c /\ d \in Live
  BY DEF Destroyed, Live, SendInv, TypeOK
<1>2. ~InLoop(d)
  BY <1>1, SendAssumption DEF InLoop
<1>3. room'[d] = room[d] /\ intact'[d] = intact[d]
  BY <1>1 DEF Destroyed, SendInv, TypeOK
<1> QED
  BY <1>1, <1>2, <1>3

LEMMA SilencedWake ==
  ASSUME SendInv, WakeInv, NEW c \in Clients, Silenced(c), Destroyed(c),
         sending \in {c, NoOne}
  PROVE  WakeInv'
<1> SUFFICES ASSUME NEW d \in Live' PROVE IdleOf(d)' /\ WakeOf(d)'
  BY WakePartsNext
<1>1. d \in Clients /\ d # c
  BY DestroyedOthers
<1>2. queue'[d] = queue[d] /\ wants'[d] = wants[d] /\ ready'[d] = ready[d]
  BY <1>1 DEF Silenced, SendInv, TypeOK
<1> QED
  BY <1>2, DestroyedOthers, WakeFrame

LEMMA SendFailsWake ==
  ASSUME SendInv, WakeInv, NEW c \in Clients, NEW m \in Msgs,
         NEW receivers \in SUBSET Clients, SendFails(c, m, receivers)
  PROVE  WakeInv'
<1> SUFFICES ASSUME NEW d \in Live' PROVE IdleOf(d)' /\ WakeOf(d)'
  BY WakePartsNext
<1>1. Destroyed(c) /\ sending \in {c, NoOne}
  BY DEF SendFails, InLoop
<1>2. d \in Clients /\ d # c /\ d \in Live /\ ~InLoop(d)
  BY <1>1, DestroyedOthers
<1>3. /\ queue'[d] = Queued(m, receivers)[d]
      /\ wants'[d] = (wants[d] \/ d \in receivers \cap Idle)
      /\ ready'[d] = (ready[d] \/ (d \in receivers \cap Idle /\ ~wants[d] /\ room[d] > 0))
  BY <1>2 DEF SendFails, Queued
<1> QED
  BY <1>1, <1>2, <1>3, DestroyedOthers, WakeTold

LEMMA ReturnAndStayWake ==
  ASSUME SendInv, WakeInv, NEW c \in Clients, ReturnAndStay(c)
  PROVE  WakeInv'
<1> SUFFICES ASSUME NEW d \in Live PROVE IdleOf(d)' /\ WakeOf(d)'
  <2>1. Live' = Live
    BY DEF ReturnAndStay, Done, Live
  <2> QED
    BY <2>1, WakePartsNext
<1>1. ~InLoop(d)
  BY DEF ReturnAndStay, Done, InLoop
<1> QED
  BY <1>1, WakeFrame DEF ReturnAndStay, Done, wireVars

\* The peer reads: an armed queue that found the socket full gets its edge.
LEMMA DrainWake ==
  ASSUME SendInv, WakeInv, NEW c \in Clients, NEW free \in 1..Cap, Drain(c, free)
  PROVE  WakeInv'
<1> SUFFICES ASSUME NEW d \in Live PROVE IdleOf(d)' /\ WakeOf(d)'
  <2>1. Live' = Live
    BY DEF Drain, Live
  <2> QED
    BY <2>1, WakePartsNext
<1>1. d \in Clients /\ InLoop(d)' = InLoop(d)
  BY DEF Drain, Live, InLoop
<1>2. CASE d # c
  <2>1. /\ queue'[d] = queue[d] /\ wants'[d] = wants[d] /\ room'[d] = room[d]
        /\ ready'[d] = ready[d] /\ intact'[d] = intact[d]
    BY <1>1, <1>2 DEF Drain, SendInv, TypeOK, wireVars
  <2> QED
    BY <1>1, <2>1, WakeFrame
<1>3. CASE d = c
  <2>1. /\ queue'[c] = queue[c] /\ wants'[c] = wants[c] /\ intact'[c] = intact[c]
        /\ ready'[c] = (ready[c] \/ (wants[c] /\ room[c] = 0))
    BY <1>1, <1>3 DEF Drain, SendInv, TypeOK, wireVars
  <2>2. queue[c] # <<>> => wants[c]
    BY <1>3 DEF SendInv, QueueArmed
  <2>3. room[c] = 0 \/ room[c] > 0
    BY SendAssumption DEF SendInv, TypeOK
  <2> QED
    BY <1>1, <1>3, <2>1, <2>2, <2>3, WakeParts DEF IdleOf, WakeOf
<1> QED
  BY <1>2, <1>3

LEMMA ArriveWake ==
  ASSUME SendInv, WakeInv, NEW c \in Clients, Arrive(c)
  PROVE  WakeInv'
<1> SUFFICES ASSUME NEW d \in Live PROVE IdleOf(d)' /\ WakeOf(d)'
  <2>1. Live' = Live
    BY DEF Arrive, Live
  <2> QED
    BY <2>1, WakePartsNext
<1>1. d \in Clients /\ InLoop(d)' = InLoop(d)
  BY DEF Arrive, Live, InLoop
<1>2. ready[d] => ready'[d]
  BY <1>1 DEF Arrive, SendInv, TypeOK
<1> QED
  BY <1>1, <1>2, WakeParts DEF Arrive, wireVars, IdleOf, WakeOf

LEMMA WakeStep == SendInv /\ WakeInv /\ [Next]_vars => WakeInv'
<1> SUFFICES ASSUME SendInv, WakeInv, [Next]_vars PROVE WakeInv'
  OBVIOUS
<1>1. ASSUME NEW c \in Clients, EpollOut(c) PROVE WakeInv'
  BY <1>1, EpollOutWake
<1>2. ASSUME NEW c \in Clients, SendStep(c) PROVE WakeInv'
  <2>1. ASSUME Return(c) PROVE WakeInv'
    BY <2>1, SilencedWake DEF Return
  <2> QED
    BY <1>2, <2>1, SendSomeWake, SendFullWake, FlushedWake, ReturnAndStayWake DEF SendStep
<1>3. ASSUME NEW c \in Clients, Disconnect(c) PROVE WakeInv'
  BY <1>3, SilencedWake DEF Disconnect
<1>4. ASSUME NEW c \in Clients, Arrive(c) PROVE WakeInv'
  BY <1>4, ArriveWake
<1>5. ASSUME NEW c \in Clients, NEW free \in 1..Cap, Drain(c, free) PROVE WakeInv'
  BY <1>5, DrainWake
<1>6. ASSUME NEW c \in Clients, NEW m \in Msgs, Accept(c, m) PROVE WakeInv'
  BY <1>6, AcceptWake
<1>7. ASSUME NEW c \in Clients, NEW m \in Msgs, NEW receivers \in SUBSET Clients,
             Post(m, receivers) \/ Quit(c, m, receivers) \/ SendFails(c, m, receivers)
      PROVE  WakeInv'
  BY <1>7, TellWake, SendFailsWake DEF Post, Quit
<1>8. CASE UNCHANGED vars
  BY <1>8 DEF vars, outVars, wireVars, WakeInv, IdleDisarmed, NoLostWakeup, Live, InLoop
<1> QED
  BY <1>1, <1>2, <1>3, <1>4, <1>5, <1>6, <1>7, <1>8 DEF Next

LEMMA WakeInit == Init => WakeInv
  BY DEF Init, WakeInv, IdleDisarmed, NoLostWakeup, Live

\* Whatever lengths and buffers, and however the peer's reads fall between the
\* send() calls: as long as the offset of a client has not gone wrong, there is
\* always an edge to come for a socket that can take some of its queue.
THEOREM NoWakeupIsLost == Spec => []NoLostWakeup
<1>1. WakeInv => NoLostWakeup
  BY DEF WakeInv
<1> QED
  BY <1>1, SendInitInv, SendStepInv, WakeInit, WakeStep, PTL DEF Spec

-----------------------------------------------------------------------------
(* The queues are an outbox, unless the offset of some client goes wrong.     *)

FlowInv ==
  /\ sending # NoOne => sending \in Live
  /\ Live # {} => Msgs # {}

LEMMA FlowInit == Init => FlowInv
  BY DEF Init, FlowInv, Live

LEMMA FlowStep == SendInv /\ FlowInv /\ [Next]_vars => FlowInv'
<1> SUFFICES ASSUME SendInv, FlowInv, [Next]_vars PROVE FlowInv'
  OBVIOUS
<1> USE DEF FlowInv
<1>1. ASSUME Live' = Live, sending' \in {sending, NoOne} PROVE FlowInv'
  BY <1>1
<1>2. ASSUME NEW c \in Clients, Destroyed(c) PROVE FlowInv'
  BY <1>2 DEF Destroyed, Live, SendInv, TypeOK
<1>3. ASSUME NEW c \in Clients, EpollOut(c) PROVE FlowInv'
  BY <1>3 DEF EpollOut, Live
<1>4. ASSUME NEW c \in Clients, SendStep(c) PROVE FlowInv'
  BY <1>1, <1>2, <1>4
     DEF SendStep, SendSome, SendFull, Flushed, Disarm, Return, ReturnAndStay, Done, Live
<1>5. ASSUME NEW c \in Clients, Disconnect(c) \/ Arrive(c) PROVE FlowInv'
  BY <1>1, <1>2, <1>5 DEF Disconnect, Arrive, Live
<1>6. ASSUME NEW c \in Clients, NEW free \in 1..Cap, Drain(c, free) PROVE FlowInv'
  BY <1>1, <1>6 DEF Drain, Live
<1>7. ASSUME NEW c \in Clients, NEW m \in Msgs, Accept(c, m) PROVE FlowInv'
  BY <1>7 DEF Accept, Live
<1>8. ASSUME NEW c \in Clients, NEW m \in Msgs, NEW receivers \in SUBSET Clients,
             Post(m, receivers) \/ Quit(c, m, receivers) \/ SendFails(c, m, receivers)
      PROVE  FlowInv'
  BY <1>1, <1>2, <1>8 DEF Post, Quit, Tell, SendFails, Live
<1>9. CASE UNCHANGED vars
  BY <1>1, <1>9 DEF vars, outVars, Live
<1> QED
  BY <1>3, <1>4, <1>5, <1>6, <1>7, <1>8, <1>9 DEF Next

\* Steps that change neither the queues, nor the wire, nor who is there.
LEMMA OutboxStutter ==
  ASSUME UNCHANGED <<Live, queue, wire>>
  PROVE  [Outbox!Next]_(Outbox!outboxVars)
  BY DEF Outbox!outboxVars

LEMMA TellIsPost ==
  ASSUME NEW c \in Clients, NEW m \in Msgs, NEW receivers \in SUBSET Clients,
         Tell(m, receivers)
  PROVE  Outbox!Next
<1>1. Outbox!Post(m, receivers)
  BY DEF Tell, Enqueue, Queued, wireVars, Live, Outbox!Post
<1> QED
  BY <1>1 DEF Outbox!Next

\* A client that goes drops its queue, and the members of its channels are told.
LEMMA DestroyedIsLeave ==
  ASSUME SendInv, NEW c \in Live, NEW m \in Msgs, NEW receivers \in SUBSET Clients,
         Destroyed(c), receivers \subseteq Live \ {c},
         queue' = [Queued(m, receivers) EXCEPT ![c] = <<>>]
  PROVE  Outbox!Next
<1>1. Live' = Live \ {c} /\ c \in Clients /\ wire' = wire
  BY DEF Destroyed, Live, SendInv, TypeOK
<1>2. queue' = [d \in Clients |-> IF d = c THEN <<>>
                                  ELSE IF d \in receivers THEN Append(queue[d], m)
                                  ELSE queue[d]]
  BY DEF Queued
<1>3. Outbox!Leave(c, m, receivers)
  BY <1>1, <1>2 DEF Outbox!Leave
<1> QED
  BY <1>1, <1>3 DEF Outbox!Next

LEMMA SilencedIsLeave ==
  ASSUME SendInv, FlowInv, NEW c \in Live, Silenced(c), Destroyed(c)
  PROVE  Outbox!Next
<1>1. PICK m \in Msgs : TRUE
  BY DEF FlowInv
<1>2. Queued(m, {}) = queue
  BY DEF Queued, SendInv, TypeOK
<1>3. queue' = [Queued(m, {}) EXCEPT ![c] = <<>>]
  BY <1>2 DEF Silenced
<1> QED
  BY <1>1, <1>3, DestroyedIsLeave

\* The message in front leaves the queue exactly when it is on the wire whole.
LEMMA SendSomeHands ==
  ASSUME SendInv, FlowInv, StreamIntact', NEW c \in Clients, SendSome(c)
  PROVE  [Outbox!Next]_(Outbox!outboxVars)
<1> DEFINE m == Head(queue[c])
           off == offset[c]
<1>1. m \in Msgs /\ queue[c] # <<>> /\ c \in Live
  BY SendAssumption DEF SendSome, InLoop, SendInv, TypeOK, FlowInv
<1>2. PICK k \in Taken(m, off, room[c]) :
        LET done == Remaining(m, Advanced(m, off, k)) = 0
            from == Least(off, Size[m])
            clean == from = sent[c] /\ from + k <= Size[m]
            whole == clean /\ from + k = Size[m]
        IN  /\ queue' = [queue EXCEPT ![c] = IF done THEN Tail(@) ELSE @]
            /\ wire' = [wire EXCEPT ![c] = IF whole THEN Append(@, m) ELSE @]
            /\ intact' = [intact EXCEPT ![c] = @ /\ clean /\ (whole <=> done)]
  BY DEF SendSome
<1> DEFINE done == Remaining(m, Advanced(m, off, k)) = 0
           clean == Least(off, Size[m]) = sent[c] /\ Least(off, Size[m]) + k <= Size[m]
           whole == clean /\ Least(off, Size[m]) + k = Size[m]
<1>3. Live' = Live
  BY DEF SendSome, Live
<1>4. whole <=> done
  <2>1. intact'[c] = (intact[c] /\ clean /\ (whole <=> done))
    BY <1>2 DEF SendInv, TypeOK
  <2>2. intact'[c]
    BY DEF StreamIntact
  <2> QED
    BY <2>1, <2>2
<1>5. /\ queue' = [queue EXCEPT ![c] = IF done THEN Tail(queue[c]) ELSE queue[c]]
      /\ wire' = [wire EXCEPT ![c] = IF whole THEN Append(wire[c], m) ELSE wire[c]]
  BY <1>2
<1> HIDE DEF done, whole
<1>6. CASE done
  <2>1. Outbox!Hand(c)
    BY <1>1, <1>3, <1>4, <1>5, <1>6 DEF Outbox!Hand
  <2> QED
    BY <1>1, <2>1 DEF Outbox!Next
<1>7. CASE ~done
  BY <1>3, <1>4, <1>5, <1>7, OutboxStutter DEF SendInv, TypeOK
<1> QED
  BY <1>6, <1>7

LEMMA OutboxInit == Init => Outbox!Init
  BY DEF Init, Live, Outbox!Init

LEMMA OutboxStep ==
  SendInv /\ FlowInv /\ StreamIntact' /\ [Next]_vars => [Outbox!Next]_(Outbox!outboxVars)
<1> SUFFICES ASSUME SendInv, FlowInv, StreamIntact', [Next]_vars
             PROVE  [Outbox!Next]_(Outbox!outboxVars)
  OBVIOUS
<1> DEFINE Goal == [Outbox!Next]_(Outbox!outboxVars)
<1>1. ASSUME NEW c \in Clients,
             EpollOut(c) \/ SendFull(c) \/ Flushed(c) \/ ReturnAndStay(c) \/ Arrive(c)
      PROVE  Goal
  BY <1>1, OutboxStutter
     DEF EpollOut, SendFull, Flushed, Disarm, ReturnAndStay, Done, Arrive, wireVars, Live
<1>2. ASSUME NEW c \in Clients, NEW free \in 1..Cap, Drain(c, free) PROVE Goal
  BY <1>2, OutboxStutter DEF Drain, wireVars, Live
<1>3. ASSUME NEW c \in Clients, SendSome(c) PROVE Goal
  BY <1>3, SendSomeHands
<1>4. ASSUME NEW c \in Clients, Return(c) \/ Disconnect(c) PROVE Goal
  <2>1. c \in Live
    BY <1>4, SendAssumption DEF Return, Disconnect, FlowInv
  <2> QED
    BY <1>4, <2>1, SilencedIsLeave DEF Return, Disconnect
<1>5. ASSUME NEW c \in Clients, NEW m \in Msgs, Accept(c, m) PROVE Goal
  <2>1. Live' = Live \cup {c} /\ c \notin Live
    BY <1>5 DEF Accept, Live, SendInv, TypeOK
  <2>2. Outbox!Come(c, m)
    BY <1>5, <2>1 DEF Accept, wireVars, Outbox!Come
  <2> QED
    BY <2>2 DEF Outbox!Next
<1>6. ASSUME NEW c \in Clients, NEW m \in Msgs, NEW receivers \in SUBSET Clients,
             Post(m, receivers) \/ Quit(c, m, receivers)
      PROVE  Goal
  BY <1>6, TellIsPost DEF Post, Quit
<1>7. ASSUME NEW c \in Clients, NEW m \in Msgs, NEW receivers \in SUBSET Clients,
             SendFails(c, m, receivers)
      PROVE  Goal
  <2>1. c \in Live
    BY <1>7, SendAssumption DEF SendFails, InLoop, FlowInv
  <2> QED
    BY <1>7, <2>1, DestroyedIsLeave DEF SendFails
<1>8. CASE UNCHANGED vars
  BY <1>8, OutboxStutter DEF vars, outVars, wireVars, Live
<1> QED
  BY <1>1, <1>2, <1>3, <1>4, <1>5, <1>6, <1>7, <1>8 DEF Next, SendStep

\* The offset is all that can damage what clients are sent: as long as no stream
\* is damaged, every message is handed to its client once, in the order it was
\* queued in, however broadcastMessage, send_message and the peers interleave.
THEOREM IntactStreamIsOutbox == Spec /\ []StreamIntact => OutboxSpec
<1>1. []StreamIntact /\ Spec => Outbox!Init /\ [][Outbox!Next]_(Outbox!outboxVars)
  BY SendInitInv, SendStepInv, FlowInit, FlowStep, OutboxInit, OutboxStep, PTL DEF Spec
<1> QED
  BY <1>1 DEF OutboxSpec, Outbox!Spec

-----------------------------------------------------------------------------
(* Messages that the socket takes whole or not at all never meet the offset.  *)

WholeInv == StreamIntact /\ \A c \in Clients : offset[c] = 0 /\ sent[c] = 0

LEMMA WholeSend ==
  ASSUME NEW m \in Msgs, Size[m] = 1, NEW free \in 1..Cap, NEW k \in Taken(m, 0, free)
  PROVE  k = 1 /\ Remaining(m, Advanced(m, 0, k)) = 0 /\ Least(0, Size[m]) = 0
<1>1. SizeMod \in Nat /\ SizeMod > 1 /\ Cap \in Nat
  BY SendAssumption
<1>2. 1 % SizeMod = 1 /\ 0 % SizeMod = 0
  BY <1>1
<1>3. Remaining(m, 0) = 1
  BY <1>2 DEF Remaining
<1>4. k = 1
  BY <1>1, <1>3 DEF Taken, Least
<1>5. Advanced(m, 0, 1) = 1
  BY <1>2 DEF Advanced, Least
<1>6. Remaining(m, 1) = 0
  BY <1>2 DEF Remaining
<1> QED
  BY <1>4, <1>5, <1>6 DEF Least

LEMMA WholeSendSome ==
  ASSUME \A m \in Msgs : Size[m] = 1, SendInv, WholeInv, NEW c \in Clients, SendSome(c)
  PROVE  WholeInv'
<1> DEFINE m == Head(queue[c])
<1>1. m \in Msgs /\ room[c] \in 1..Cap /\ offset[c] = 0 /\ sent[c] = 0 /\ Size[m] = 1
  BY SendAssumption DEF SendSome, SendInv, TypeOK, WholeInv
<1>2. PICK k \in Taken(m, 0, room[c]) :
        LET done == Remaining(m, Advanced(m, 0, k)) = 0
            from == Least(0, Size[m])
            clean == from = sent[c] /\ from + k <= Size[m]
            whole == clean /\ from + k = Size[m]
        IN  /\ offset' = [offset EXCEPT ![c] = IF done THEN 0 ELSE Advanced(m, 0, k)]
            /\ sent' = [sent EXCEPT ![c] = IF done THEN 0 ELSE IF clean THEN @ + k ELSE @]
            /\ intact' = [intact EXCEPT ![c] = @ /\ clean /\ (whole <=> done)]
  BY <1>1 DEF SendSome
<1>3. k = 1 /\ Remaining(m, Advanced(m, 0, k)) = 0 /\ Least(0, Size[m]) = 0
  BY <1>1, WholeSend
<1>4. /\ offset' = [offset EXCEPT ![c] = 0]
      /\ sent' = [sent EXCEPT ![c] = 0]
      /\ intact' = [intact EXCEPT ![c] = intact[c] /\ TRUE]
  <2>1. 0 = sent[c] /\ 0 + 1 <= Size[m] /\ 0 + 1 = Size[m]
    BY <1>1
  <2> HIDE DEF m
  <2> QED
    BY <1>2, <1>3, <2>1
<1>5. intact[c]
  BY DEF WholeInv, StreamIntact
<1> QED
  BY <1>4, <1>5 DEF WholeInv, StreamIntact, SendInv, TypeOK

LEMMA WholeStep ==
  ASSUME \A m \in Msgs : Size[m] = 1
  PROVE  SendInv /\ WholeInv /\ [Next]_vars => WholeInv'
<1> SUFFICES ASSUME SendInv, WholeInv, [Next]_vars PROVE WholeInv'
  OBVIOUS
<1>1. ASSUME UNCHANGED <<offset, sent, intact>> PROVE WholeInv'
  BY <1>1 DEF WholeInv, StreamIntact
<1>2. ASSUME NEW c \in Clients, Destroyed(c) PROVE WholeInv'
  BY <1>2 DEF Destroyed, WholeInv, StreamIntact, SendInv, TypeOK
<1>3. ASSUME NEW c \in Clients, SendStep(c) PROVE WholeInv'
  BY <1>1, <1>2, <1>3, WholeSendSome
     DEF SendStep, SendFull, Flushed, Disarm, Return, ReturnAndStay, Done, wireVars
<1>4. ASSUME NEW c \in Clients, EpollOut(c) \/ Disconnect(c) \/ Arrive(c) PROVE WholeInv'
  BY <1>1, <1>2, <1>4 DEF EpollOut, Disconnect, Arrive, wireVars
<1>5. ASSUME NEW c \in Clients, NEW free \in 1..Cap, Drain(c, free) PROVE WholeInv'
  BY <1>1, <1>5 DEF Drain, wireVars
<1>6. ASSUME NEW c \in Clients, NEW m \in Msgs, NEW receivers \in SUBSET Clients,
             Accept(c, m) \/ Post(m, receivers) \/ Quit(c, m, receivers)
               \/ SendFails(c, m, receivers)
      PROVE  WholeInv'
  BY <1>1, <1>2, <1>6 DEF Accept, Post, Quit, Tell, SendFails, wireVars
<1>7. CASE UNCHANGED vars
  BY <1>1, <1>7 DEF vars, outVars, wireVars
<1> QED
  BY <1>3, <1>4, <1>5, <1>6, <1>7 DEF Next

\* A server that the sockets never leave in the middle of a message sends every
\* client its messages undamaged, and is an outbox.
THEOREM WholeMessagesFlow ==
  ASSUME \A m \in Msgs : Size[m] = 1
  PROVE  Spec => []StreamIntact /\ OutboxSpec
<1>1. Init => WholeInv
  BY DEF Init, WholeInv, StreamIntact
<1>2. WholeInv => StreamIntact
  BY DEF WholeInv
<1>3. SendInv /\ WholeInv /\ [Next]_vars => WholeInv'
  BY WholeStep
<1>4. Spec => []StreamIntact
  BY <1>1, <1>2, <1>3, SendInitInv, SendStepInv, PTL DEF Spec
<1> QED
  BY <1>4, IntactStreamIsOutbox, PTL
=============================================================================
