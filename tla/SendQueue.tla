----------------------------- MODULE SendQueue -----------------------------
(***************************************************************************)
(* The way of a message out of the server: broadcastMessage puts it in the *)
(* queue of every recipient (IrcMessage::_messageQue) and asks epoll for    *)
(* EPOLLOUT, which is edge-triggered; Server::send_message writes the queue *)
(* to the socket until it is empty or the socket takes no more.            *)
(*                                                                         *)
(* The peer reads its end of the socket at any time, also between two       *)
(* send() calls of one send_message, so that function is a step per call;   *)
(* no other handler runs before it returns (sending # NoOne).               *)
(*                                                                         *)
(* A message is its length; its bytes are 1 .. Size[m].  What arrives is    *)
(* told by sent, wire and intact, which only observe.                       *)
(***************************************************************************)
EXTENDS Integers, Sequences, FiniteSets

CONSTANTS
  Clients,
  NoOne,      \* no EPOLLOUT is being handled
  Msgs,       \* messages
  Size,       \* Size[m]: length of message m in bytes
  Cap,        \* bytes a socket buffer holds
  SizeMod,    \* size_t counts modulo this
  MaxPosts    \* bound on the messages queued in a run

ASSUME SendAssumption ==
  /\ NoOne \notin Clients
  /\ Size \in [Msgs -> Nat \ {0}]
  /\ Cap \in Nat \ {0}
  /\ SizeMod \in Nat \ {0}
  /\ \A m \in Msgs : Size[m] < SizeMod
  /\ MaxPosts \in Nat

VARIABLES
  conn,       \* conn[c]: "none" before accept, "live" in _Clients, "gone" after
  queue,      \* queue[c]: IrcMessage::_messageQue
  offset,     \* offset[c]: _bytesSentForCurrentMessage
  quit,       \* quit[c]: Client::_quit
  acked,      \* acked[c]: Client::_acknowledged
  wants,      \* wants[c]: EPOLLOUT is in the client's mask in _epollEventMap
  ready,      \* ready[c]: epoll has an EPOLLOUT edge to report
  room,       \* room[c]: free bytes in the socket buffer
  sending,    \* the client whose EPOLLOUT is being handled
  returned,   \* send_message has returned, its caller has not finished
  posts,      \* messages queued so far
  sent,       \* sent[c]: bytes of the message in front that are on the wire
  wire,       \* wire[c]: the messages that are on the wire completely
  intact      \* intact[c]: no byte was skipped, repeated or read past the end

outVars == <<conn, queue, offset, quit, acked, wants, ready, room, sending, returned,
            posts>>
wireVars == <<sent, wire, intact>>
vars == <<outVars, wireVars>>

Live == {c \in Clients : conn[c] = "live"}

TypeOK ==
  /\ conn \in [Clients -> {"none", "live", "gone"}]
  /\ queue \in [Clients -> Seq(Msgs)]
  /\ offset \in [Clients -> 0..SizeMod - 1]
  /\ quit \in [Clients -> BOOLEAN]
  /\ acked \in [Clients -> BOOLEAN]
  /\ wants \in [Clients -> BOOLEAN]
  /\ ready \in [Clients -> BOOLEAN]
  /\ room \in [Clients -> 0..Cap]
  /\ sending \in Clients \cup {NoOne}
  /\ returned \in BOOLEAN
  /\ posts \in 0..MaxPosts
  /\ sent \in [Clients -> Nat]
  /\ wire \in [Clients -> Seq(Msgs)]
  /\ intact \in [Clients -> BOOLEAN]

Init ==
  /\ conn = [c \in Clients |-> "none"]
  /\ queue = [c \in Clients |-> <<>>]
  /\ offset = [c \in Clients |-> 0]
  /\ quit = [c \in Clients |-> FALSE]
  /\ acked = [c \in Clients |-> FALSE]
  /\ wants = [c \in Clients |-> FALSE]
  /\ ready = [c \in Clients |-> FALSE]
  /\ room = [c \in Clients |-> Cap]
  /\ sending = NoOne
  /\ returned = FALSE
  /\ posts = 0
  /\ sent = [c \in Clients |-> 0]
  /\ wire = [c \in Clients |-> <<>>]
  /\ intact = [c \in Clients |-> TRUE]

-----------------------------------------------------------------------------
(* Queueing                                                                 *)

Queued(m, receivers) ==
  [c \in Clients |-> IF c \in receivers THEN Append(queue[c], m) ELSE queue[c]]

Idle == {c \in Clients : queue[c] = <<>>}

\* updateEpollEvents(EPOLLOUT, true) for some clients: a mask that changes is set
\* again, which reports a socket that is writable now.
AskEpollOut(clients) ==
  /\ wants' = [c \in Clients |-> wants[c] \/ c \in clients]
  /\ ready' = [c \in Clients |-> ready[c] \/ (c \in clients /\ ~wants[c] /\ room[c] > 0)]

\* Faulty variants: the message goes to the front; the queue must NOT be empty.
EnqueueFront(m, receivers) ==
  /\ queue' = [c \in Clients |-> IF c \in receivers THEN <<m>> \o queue[c] ELSE queue[c]]
  /\ AskEpollOut(receivers \cap Idle)

EnqueueLate(m, receivers) ==
  /\ queue' = Queued(m, receivers)
  /\ AskEpollOut(receivers \ Idle)

\* The last loop of broadcastMessage.
Enqueue(m, receivers) ==
  /\ queue' = Queued(m, receivers)
  /\ AskEpollOut(receivers \cap Idle)

\* create_Client: the socket is registered for EPOLLOUT before its first message.
Accept(c, m) ==
  /\ sending = NoOne
  /\ conn[c] = "none"
  /\ posts < MaxPosts
  /\ conn' = [conn EXCEPT ![c] = "live"]
  /\ queue' = [queue EXCEPT ![c] = <<m>>]
  /\ wants' = [wants EXCEPT ![c] = TRUE]
  /\ ready' = [ready EXCEPT ![c] = TRUE]
  /\ posts' = posts + 1
  /\ UNCHANGED <<offset, quit, acked, room, sending, returned, wireVars>>

\* A handler tells the receivers something.
Tell(m, receivers) ==
  /\ sending = NoOne
  /\ posts < MaxPosts
  /\ receivers \subseteq Live
  /\ Enqueue(m, receivers)
  /\ posts' = posts + 1
  /\ UNCHANGED <<conn, offset, acked, room, sending, returned, wireVars>>

Post(m, receivers) ==
  /\ receivers # {}
  /\ Tell(m, receivers)
  /\ UNCHANGED quit

\* Faulty variant: only the others are told.
QuitSilently(c, m, receivers) ==
  /\ acked[c] /\ ~quit[c]
  /\ Tell(m, receivers \ {c})
  /\ quit' = [quit EXCEPT ![c] = TRUE]

\* QUIT, or a wrong password: the client is told, and marked for removal.
Quit(c, m, receivers) ==
  /\ acked[c] /\ ~quit[c]
  /\ c \in receivers
  /\ Tell(m, receivers)
  /\ quit' = [quit EXCEPT ![c] = TRUE]

-----------------------------------------------------------------------------
(* Sending                                                                  *)

\* The handler of EPOLLOUT in main's loop begins; the edge has been reported.
EpollOut(c) ==
  /\ sending = NoOne
  /\ c \in Live /\ ready[c]
  /\ sending' = c
  /\ returned' = FALSE
  /\ ready' = [ready EXCEPT ![c] = FALSE]
  /\ UNCHANGED <<conn, queue, offset, quit, acked, wants, room, posts, wireVars>>

InLoop(c) == sending = c /\ ~returned

Least(a, b) == IF a <= b THEN a ELSE b

\* getRemainingBytesInCurrentMessage: a difference of two size_t.
Remaining(m, off) == (Size[m] - off) % SizeMod

\* advanceCurrentMessageOffset: the offset itself is part of what is added.
Advanced(m, off, k) == (off + Least((off + k) % SizeMod, Size[m])) % SizeMod

\* How many bytes send() may take from a buffer that holds the rest of message
\* m: all there is room for.  A count that goes past the end of the buffer reads
\* memory that may end anywhere.
Taken(m, off, free) ==
  LET asked == Least(Remaining(m, off), free)
  IN  IF Least(off, Size[m]) + asked <= Size[m] THEN {asked} ELSE 1..asked

\* One send() that takes k > 0 bytes, and what the loop does after it: the next
\* message when none of this one remains, return otherwise.
SendSome(c) ==
  LET m   == Head(queue[c])
      off == offset[c]
  IN  /\ InLoop(c)
      /\ queue[c] # <<>> /\ room[c] > 0
      /\ \E k \in Taken(m, off, room[c]) :
           LET new   == Advanced(m, off, k)
               done  == Remaining(m, new) = 0
               from  == Least(off, Size[m])
               clean == from = sent[c] /\ from + k <= Size[m]
               whole == clean /\ from + k = Size[m]
           IN  /\ room' = [room EXCEPT ![c] = @ - k]
               /\ queue' = [queue EXCEPT ![c] = IF done THEN Tail(@) ELSE @]
               /\ offset' = [offset EXCEPT ![c] = IF done THEN 0 ELSE new]
               /\ returned' = ~done
               /\ sent' = [sent EXCEPT ![c] = IF done THEN 0 ELSE IF clean THEN @ + k ELSE @]
               /\ wire' = [wire EXCEPT ![c] = IF whole THEN Append(@, m) ELSE @]
               /\ intact' = [intact EXCEPT ![c] = @ /\ clean /\ (whole <=> done)]
      /\ UNCHANGED <<conn, quit, acked, wants, ready, sending, posts>>

\* send() finds no room: EAGAIN.
SendFull(c) ==
  /\ InLoop(c)
  /\ queue[c] # <<>> /\ room[c] = 0
  /\ returned' = TRUE
  /\ UNCHANGED <<conn, queue, offset, quit, acked, wants, ready, room, sending, posts, wireVars>>

\* The client may talk now, and EPOLLOUT is taken back.
Disarm(c) ==
  /\ acked' = [acked EXCEPT ![c] = TRUE]
  /\ wants' = [wants EXCEPT ![c] = FALSE]
  /\ ready' = [ready EXCEPT ![c] = FALSE]
  /\ returned' = TRUE
  /\ UNCHANGED <<conn, queue, offset, quit, room, sending, posts, wireVars>>

\* Faulty variant: EPOLLOUT is taken back after each message.
FlushedEarly(c) == InLoop(c) /\ Disarm(c)

\* The loop ends with an empty queue.
Flushed(c) == InLoop(c) /\ queue[c] = <<>> /\ Disarm(c)

-----------------------------------------------------------------------------
(* Leaving                                                                  *)

\* remove_Client, as far as output goes: the Client and its socket are gone.
Destroyed(c) ==
  /\ conn' = [conn EXCEPT ![c] = "gone"]
  /\ offset' = [offset EXCEPT ![c] = 0]
  /\ quit' = [quit EXCEPT ![c] = FALSE]
  /\ acked' = [acked EXCEPT ![c] = FALSE]
  /\ room' = [room EXCEPT ![c] = Cap]
  /\ sent' = [sent EXCEPT ![c] = 0]
  /\ sending' = NoOne
  /\ returned' = FALSE
  /\ UNCHANGED <<wire, intact>>

Silenced(c) ==
  /\ queue' = [queue EXCEPT ![c] = <<>>]
  /\ wants' = [wants EXCEPT ![c] = FALSE]
  /\ ready' = [ready EXCEPT ![c] = FALSE]

\* send() fails: the members of shared channels are told, the client removed.
SendFails(c, m, receivers) ==
  /\ InLoop(c)
  /\ queue[c] # <<>>
  /\ receivers \subseteq Live \ {c}
  /\ posts < MaxPosts
  /\ posts' = posts + 1
  /\ queue' = [Queued(m, receivers) EXCEPT ![c] = <<>>]
  /\ wants' = [d \in Clients |-> d # c /\ (wants[d] \/ d \in receivers \cap Idle)]
  /\ ready' = [d \in Clients |->
       d # c /\ (ready[d] \/ (d \in receivers \cap Idle /\ ~wants[d] /\ room[d] > 0))]
  /\ Destroyed(c)

\* The handler ends.
Done(c) ==
  /\ sending = c /\ returned
  /\ sending' = NoOne
  /\ returned' = FALSE
  /\ UNCHANGED <<conn, queue, offset, quit, acked, wants, ready, room, posts, wireVars>>

\* Faulty variant: main does not look at _quit.
ReturnAnyway(c) == Done(c)

\* main, after send_message: a client that is quitting is removed, whatever is
\* still in its queue.
Return(c) ==
  /\ sending = c /\ returned
  /\ quit[c]
  /\ Silenced(c)
  /\ Destroyed(c)
  /\ UNCHANGED posts

ReturnAndStay(c) == ~quit[c] /\ Done(c)

\* recv() says that the peer has gone.
Disconnect(c) ==
  /\ sending = NoOne
  /\ c \in Live /\ acked[c] /\ ~quit[c]
  /\ Silenced(c)
  /\ Destroyed(c)
  /\ UNCHANGED posts

\* The peer reads: a full socket that becomes writable is an EPOLLOUT edge.
Drain(c, free) ==
  /\ c \in Live
  /\ free > room[c]
  /\ room' = [room EXCEPT ![c] = free]
  /\ ready' = [ready EXCEPT ![c] = @ \/ (wants[c] /\ room[c] = 0)]
  /\ UNCHANGED <<conn, queue, offset, quit, acked, wants, sending, returned, posts, wireVars>>

\* The peer sends: epoll looks at the socket and reports EPOLLOUT along with
\* EPOLLIN if it can be written.
Arrive(c) ==
  /\ c \in Live
  /\ wants[c] /\ room[c] > 0 /\ ~ready[c]
  /\ ready' = [ready EXCEPT ![c] = TRUE]
  /\ UNCHANGED <<conn, queue, offset, quit, acked, wants, room, sending, returned, posts,
                 wireVars>>

SendStep(c) == SendSome(c) \/ SendFull(c) \/ Flushed(c) \/ Return(c) \/ ReturnAndStay(c)

Next ==
  \E c \in Clients :
    \/ EpollOut(c)
    \/ SendStep(c)
    \/ Disconnect(c)
    \/ Arrive(c)
    \/ \E free \in 1..Cap : Drain(c, free)
    \/ \E m \in Msgs :
         \/ Accept(c, m)
         \/ \E receivers \in SUBSET Clients :
              Post(m, receivers) \/ Quit(c, m, receivers) \/ SendFails(c, m, receivers)

Spec == Init /\ [][Next]_vars

\* main's loop handles every event it is told of, one handler ends before the
\* next begins, and a peer that stays keeps reading.
FairSpec ==
  /\ Spec
  /\ \A c \in Clients :
       /\ WF_vars(EpollOut(c))
       /\ WF_vars(SendStep(c))
       /\ WF_vars(\E free \in 1..Cap : Drain(c, free))

-----------------------------------------------------------------------------
Outbox == INSTANCE Outbox WITH here <- Live, owed <- queue, got <- wire

\* The queues are an outbox: whatever interleaving of broadcastMessage, send_message
\* and the peer's reads, each message reaches the wire once, in the order it was
\* queued in, and only a client that leaves loses what it was owed.
OutboxSpec == Outbox!Spec

\* A client with something in its queue has EPOLLOUT asked for, although
\* broadcastMessage asks only when the queue was empty and send_message takes it
\* back whenever it has emptied the queue.
QueueArmed == \A c \in Live : queue[c] # <<>> => wants[c]

\* No wakeup is lost between an edge-triggered epoll and a send_message that
\* leaves on EAGAIN or on a part of a message: as long as the offset has not gone
\* wrong, a socket that can take some of the queue has its edge pending or being
\* handled.
NoLostWakeup ==
  \A c \in Live : intact[c] /\ queue[c] # <<>> /\ room[c] > 0 => ready[c] \/ InLoop(c)

\* A client marked by _quit, whose input main ignores, still has its EPOLLOUT to
\* come, the only event that removes it.
QuitHasEvent ==
  \A c \in Live : quit[c] => wants[c] \/ sending = c

\* A message in front of the queue is at an offset that is where the bytes on
\* the wire end, and leaves when all of them are: the bytes a client receives
\* are those of its messages ("prevent overflow and returning of neg values",
\* IrcMessage.cpp:45).
StreamIntact == \A c \in Clients : intact[c]

\* With a peer that reads, each message queued for a client arrives, unless the
\* client goes.
MessagesArrive ==
  \A c \in Clients : \A n \in 0..MaxPosts :
    (c \in Live /\ queue[c] # <<>> /\ Len(wire[c]) = n)
      ~> (Len(wire[c]) > n \/ c \notin Live)

\* A client that has quit is removed in the end.
QuitLeaves == \A c \in Clients : quit[c] ~> c \notin Live
=============================================================================
