------------------------------ MODULE EventLoop ------------------------------
(***************************************************************************)
(* main's loop: epoll_pwait hands it batches of at most MAX_CLIENTS events  *)
(* and it runs the handlers of each, EPOLLIN before EPOLLOUT.  Sockets of   *)
(* clients are edge-triggered, so an event that is taken and not used is    *)
(* gone; the listening socket, the signal descriptor and the timers are     *)
(* level-triggered.  What the handlers do to descriptors is in Timers.      *)
(*                                                                         *)
(* Peers, the clock and whoever sends signals act between any two handlers, *)
(* also within a batch.  ready is the kernel's ready list, in any order; a  *)
(* batch is any choice from it.  A socket takes all the output there is     *)
(* (SendQueue has the ones that do not), so wants[c] also says that c's     *)
(* queue is not empty.                                                     *)
(***************************************************************************)
EXTENDS Timers, SequencesExt

CONSTANTS
  ListenFd,   \* Server::_fd
  SignalFd,   \* Server::_signal_fd
  NoClient,   \* the listening socket and the signal descriptor are nobody's
  MaxUnread   \* bound on what a peer has sent and the server not read, in recv()s

ASSUME LoopAssumption ==
  /\ ListenFd # SignalFd
  /\ {ListenFd, SignalFd} \cap (Fds \cup {NoFd}) = {}
  /\ Clients \subseteq Nat  \* in the order of their connections
  /\ NoClient \notin Clients
  /\ MaxUnread \in Nat \ {0}

VARIABLES
  pc,         \* where the thread is: in the for loop ("batch"), at epoll_pwait
              \* ("polling"), or behind it with EINTR ("interrupted")
  ready,      \* epoll's ready list, without what no longer holds (epoll drops it later)
  batch,      \* the events reported and not handled yet
  backlog,    \* the peers whose connection is not accepted yet
  signalled,  \* SIGUSR1, SIGTSTP or SIGQUIT is pending on the signal descriptor
  shouldExit, \* should_exit
  unread,     \* unread[c]: how many recv()s of c's input wait in the socket
  closed,     \* closed[c]: c's peer has closed its end
  acked,      \* acked[c]: Client::_acknowledged
  quit,       \* quit[c]: Client::_quit
  wants,      \* wants[c]: EPOLLOUT is in c's mask
  left,       \* left[c]: recv() has left something of c's, and c has not been ready since
  dropped     \* dropped[c]: an event of c was thrown away, and c has not been ready since

loopVars == <<pc, ready, batch, backlog, signalled, shouldExit>>
peerVars == <<unread, closed, acked, quit, wants, left, dropped>>
allVars == <<vars, loopVars, peerVars>>

PolledFds == Fds \cup {ListenFd, SignalFd}

LoopTypeOK ==
  /\ TypeOK
  /\ pc \in {"batch", "polling", "interrupted"}
  /\ ready \subseteq PolledFds
  /\ batch \in Seq([fd : PolledFds, in : BOOLEAN, out : BOOLEAN,
                   of : Clients \cup {NoClient}])
  /\ backlog \subseteq Clients
  /\ signalled \in BOOLEAN
  /\ shouldExit \in BOOLEAN
  /\ unread \in [Clients -> 0..MaxUnread]
  /\ \A f \in {closed, acked, quit, wants, left, dropped} : f \in [Clients -> BOOLEAN]

Nobody == [c \in Clients |-> FALSE]

\* Before the first event.
Blank ==
  /\ pc = "batch"
  /\ ready = {}
  /\ batch = <<>>
  /\ backlog = {}
  /\ signalled = FALSE
  /\ shouldExit = FALSE
  /\ unread = [c \in Clients |-> 0]
  /\ closed = Nobody
  /\ acked = Nobody
  /\ quit = Nobody
  /\ wants = Nobody
  /\ left = Nobody
  /\ dropped = Nobody

LoopInit == Init /\ Blank

\* Nothing of it matters once the process is gone.
Ended ==
  /\ pc' = "batch"
  /\ ready' = {}
  /\ batch' = <<>>
  /\ backlog' = {}
  /\ signalled' = FALSE
  /\ shouldExit' = FALSE
  /\ unread' = [c \in Clients |-> 0]
  /\ closed' = Nobody
  /\ acked' = Nobody
  /\ quit' = Nobody
  /\ wants' = Nobody
  /\ left' = Nobody
  /\ dropped' = Nobody

-----------------------------------------------------------------------------
(* epoll                                                                    *)

Owner(f) == {c \in Live : fdOf[c] = f}

\* Those whose sockets hold input, or the end of it.
Unread == {c \in Live : unread[c] > 0 \/ closed[c]}

Readable(f) ==
  \/ f = ListenFd /\ backlog # {}
  \/ f = SignalFd /\ signalled
  \/ f \in expired
  \/ Owner(f) \cap Unread # {}

Writable(f) == \E c \in Owner(f) : wants[c]

LevelTriggered(f) == Owner(f) = {}

\* list is the ready list now, and of halfRead recv() has not taken all there is; the
\* last conjunct of an action.
ReadyAfter(list, halfRead) ==
  /\ ready' = {f \in list : (Readable(f) \/ Writable(f))'}
  /\ dropped' = [c \in Clients |-> dropped[c] /\ c \in Live' /\ fdOf'[c] \notin ready']
  /\ left' = [c \in Clients |->
                (left[c] \/ c \in halfRead) /\ c \in Live' /\ fdOf'[c] \notin ready']

ReadyIs(list) == ReadyAfter(list, {})

\* Faulty variant: the size of the array is 3.
ThreeEvents == 3

\* config::MAX_CLIENTS, which is the number of events in a batch.
MAX_CLIENTS == 2

\* Whose event one on f is (of is for the properties only).
Concerned(f) == {c \in Live : f \in {fdOf[c], timerOf[c]}}

Event(f) ==
  [fd |-> f, in |-> Readable(f), out |-> Writable(f),
   of |-> IF Concerned(f) = {} THEN NoClient ELSE CHOOSE c \in Concerned(f) : TRUE]

-----------------------------------------------------------------------------
(* The others                                                               *)

\* A client that sends, or closes its end.  (What it does before it is accepted is as
\* good as done right after; that it sends nothing after QUIT is a bound.)
PeerActs(c) ==
  /\ up
  /\ c \in Live /\ ~closed[c]
  /\ \/ /\ unread[c] < MaxUnread /\ ~quit[c]
        /\ unread' = [unread EXCEPT ![c] = @ + 1]
        /\ UNCHANGED closed
     \/ /\ closed' = [closed EXCEPT ![c] = TRUE]
        /\ UNCHANGED unread
  /\ UNCHANGED <<vars, pc, batch, backlog, signalled, shouldExit, acked, quit, wants>>
  /\ ReadyIs(ready \cup {fdOf[c]})

PeerConnects(c) ==
  /\ up
  /\ conn[c] = "none" /\ c \notin backlog
  /\ \A d \in Clients : d < c => conn[d] # "none" \/ d \in backlog
  /\ backlog' = backlog \cup {c}
  /\ ready' = ready \cup {ListenFd}
  /\ UNCHANGED <<vars, pc, batch, signalled, shouldExit, peerVars>>

\* (Of the timers that run out and the signals that come, one at a time, and no timer
\* after SIGINT: bounds.)
TimerExpires(c) ==
  /\ expired = {} /\ ~signalled /\ ~shouldExit
  /\ Expire(c)
  /\ ready' = ready \cup {timerOf[c]}
  /\ UNCHANGED <<pc, batch, backlog, signalled, shouldExit, peerVars>>

\* One of the signals that signal_mask blocks and the signal descriptor reads.
SignalArrives ==
  /\ up
  /\ expired = {} /\ ~signalled
  /\ signalled' = TRUE
  /\ ready' = ready \cup {SignalFd}
  /\ UNCHANGED <<vars, pc, batch, backlog, shouldExit, peerVars>>

\* SIGINT or SIGTERM, which nothing blocks: handle_signal runs wherever the thread
\* is, and only a thread that already waits in epoll_pwait notices (EINTR).
Interrupt ==
  /\ up
  /\ expired = {} /\ ~signalled
  /\ shouldExit' = TRUE
  /\ \/ UNCHANGED pc
     \/ pc = "polling" /\ ready = {} /\ pc' = "interrupted"
  /\ UNCHANGED <<vars, ready, batch, backlog, signalled, peerVars>>

-----------------------------------------------------------------------------
(* The loop                                                                 *)

\* Server::shutDown, after which main returns.
Stop == ShutDown /\ Ended

\* while (!should_exit)
Again ==
  /\ up
  /\ pc = "batch" /\ batch = <<>>
  /\ ~shouldExit
  /\ pc' = "polling"
  /\ UNCHANGED <<vars, ready, batch, backlog, signalled, shouldExit, peerVars>>

Leave == pc = "batch" /\ batch = <<>> /\ shouldExit /\ Stop

\* epoll_pwait returns the events of taken.  The level-triggered descriptors among them
\* stay on the list.
Fetch(taken) ==
  /\ up
  /\ pc = "polling"
  /\ taken # {}
  /\ Cardinality(taken) = Min({MAX_CLIENTS, Cardinality(ready)})
  /\ pc' = "batch"
  /\ \E order \in SetToSeqs(taken) : batch' = [i \in DOMAIN order |-> Event(order[i])]
  /\ ready' = {f \in ready : f \in taken => LevelTriggered(f)}
  /\ UNCHANGED <<vars, backlog, signalled, shouldExit, peerVars>>

\* Faulty variant: epoll_pwait is called again.
InterruptedRetries ==
  /\ pc = "interrupted"
  /\ pc' = "polling"
  /\ UNCHANGED <<vars, ready, batch, backlog, signalled, shouldExit, peerVars>>

\* EINTR: the signal descriptor is read; with nothing there the server stops, with
\* something the loop goes on to look at should_exit.
Interrupted ==
  /\ pc = "interrupted"
  /\ IF ~signalled
     THEN Stop
     ELSE /\ signalled' = FALSE
          /\ ready' = ready \ {SignalFd}
          /\ pc' = "batch"
          /\ UNCHANGED <<vars, batch, backlog, shouldExit, peerVars>>

(* The EPOLLIN branch *)

Current(f) == up /\ pc = "batch" /\ batch # <<>> /\ Head(batch).fd = f
InEvent(f) == Current(f) /\ Head(batch).in
OutEvent(f) == Current(f) /\ ~Head(batch).in /\ Head(batch).out

\* The event goes on to its EPOLLOUT branch, or is over.
InDone ==
  /\ batch' = IF Head(batch).out THEN [batch EXCEPT ![1].in = FALSE] ELSE Tail(batch)
  /\ UNCHANGED <<pc, backlog, signalled, shouldExit>>

EventDone ==
  /\ batch' = Tail(batch)
  /\ UNCHANGED <<pc, backlog, signalled, shouldExit>>

\* It is SIGUSR1, which breaks out of the batch.
SignalBreaks ==
  /\ InEvent(SignalFd)
  /\ signalled' = FALSE
  /\ batch' = <<>>
  /\ ready' = ready \ {SignalFd}
  /\ dropped' = [c \in Clients |->
                   /\ fdOf[c] \notin ready
                   /\ dropped[c] \/ \E i \in 2..Len(batch) : c \in Owner(batch[i].fd)]
  /\ UNCHANGED <<vars, pc, backlog, shouldExit, unread, closed, acked, quit, wants, left>>

\* Any other signal: shutDown, and then get_Client of a descriptor no client has, whose
\* exception ends main.
SignalStops ==
  /\ InEvent(SignalFd)
  /\ Stop

\* The connection that accept() takes.
Earliest(c) == c \in backlog /\ \A d \in backlog : c <= d

\* create_Client: the new socket is registered for EPOLLOUT, its first message queued.
AcceptEvent(c) ==
  /\ InEvent(ListenFd)
  /\ Earliest(c)
  /\ Accept(c)
  /\ backlog' = backlog \ {c}
  /\ wants' = [wants EXCEPT ![c] = TRUE]
  /\ batch' = Tail(batch)
  /\ UNCHANGED <<pc, signalled, shouldExit, unread, closed, acked, quit>>
  /\ ReadyIs(ready \cup {fdOf'[c]})

AcceptCrash(c) ==
  /\ InEvent(ListenFd)
  /\ Earliest(c)
  /\ AcceptWithoutTimer(c)
  /\ Ended

\* accept() fails, with no descriptor left or for a reason of the kernel's; main ignores
\* ACCEPT_FAILURE.
AcceptFails ==
  /\ InEvent(ListenFd)
  /\ EventDone
  /\ UNCHANGED <<vars, ready, peerVars>>

\* Faulty variant: the masks change in _epollEventMap only.
ToldQuietly(told) == {}

\* broadcastMessage to told: epoll looks again at the sockets whose mask changes.
Told(told) == {fdOf[d] : d \in {e \in told : ~wants[e]}}

\* remove_Client, after told have been told: its two descriptors leave epoll.
Gone(c, told) ==
  /\ wants' = [d \in Clients |-> d # c /\ (wants[d] \/ d \in told)]
  /\ unread' = [unread EXCEPT ![c] = 0]
  /\ closed' = [closed EXCEPT ![c] = FALSE]
  /\ acked' = [acked EXCEPT ![c] = FALSE]
  /\ quit' = [quit EXCEPT ![c] = FALSE]
  /\ ReadyIs((ready \ {fdOf[c], timerOf[c]}) \cup Told(told))

\* A timer that ran out: the server ends, see CheckTimer, unless the client goes.
TimerEvent(c, t) ==
  /\ InEvent(t)
  /\ CheckTimer(c, t)
  /\ IF up' THEN EventDone /\ Gone(c, {}) ELSE Ended

\* The client that had the timer is gone; its entry is not.
StaleTimerEvent(t) ==
  /\ InEvent(t)
  /\ timerMap[t] # NoFd /\ Owner(timerMap[t]) = {}
  /\ EventDone
  /\ UNCHANGED <<vars, ready, peerVars>>

ClientEvent(c) == c \in Live /\ InEvent(fdOf[c]) /\ timerMap[fdOf[c]] = NoFd

\* The input of a client that is not acknowledged, or quitting, is not looked at.
Ignore(c) ==
  /\ ClientEvent(c)
  /\ ~acked[c] \/ quit[c]
  /\ InDone
  /\ UNCHANGED <<vars, ready, peerVars>>

\* handleReadEvent: one recv() and the commands it completes, which tell told
\* something, among them c if it quits or is answered.
Read(c) ==
  /\ ClientEvent(c)
  /\ acked[c] /\ ~quit[c]
  /\ unread[c] > 0
  /\ InDone
  /\ KeepAlive(c) \/ UNCHANGED vars
  /\ UNCHANGED <<closed, acked>>
  /\ unread' = [unread EXCEPT ![c] = @ - 1]
  /\ \E told \in SUBSET Live, leaves \in BOOLEAN :
       /\ leaves => c \in told
       /\ quit' = [quit EXCEPT ![c] = leaves]
       /\ wants' = [d \in Clients |-> wants[d] \/ d \in told]
       /\ ReadyAfter(ready \cup Told(told), {c} \cap Unread')

\* recv() returns 0.
ReadEnd(c) ==
  /\ ClientEvent(c)
  /\ acked[c] /\ ~quit[c]
  /\ unread[c] = 0
  /\ RemoveClient(c)
  /\ InDone
  /\ \E told \in SUBSET (Live \ {c}) : Gone(c, told)

(* The EPOLLOUT branch *)

\* The EPOLLIN branch removed the client: get_Client throws, and here main catches it.
OutStale ==
  /\ up /\ batch # <<>>
  /\ OutEvent(Head(batch).fd)
  /\ Owner(Head(batch).fd) = {}
  /\ EventDone
  /\ UNCHANGED <<vars, ready, peerVars>>

\* Faulty variant: the mask is put back without EPOLL_CTL_MOD.
FlushQuietly(c) ==
  /\ c \in Live /\ OutEvent(fdOf[c])
  /\ ~quit[c]
  /\ acked' = [acked EXCEPT ![c] = TRUE]
  /\ wants' = [wants EXCEPT ![c] = FALSE]
  /\ EventDone
  /\ UNCHANGED <<vars, unread, closed, quit>>
  /\ ReadyIs(ready)

\* send_message: the client is acknowledged, and taking EPOLLOUT back makes epoll look
\* at the socket once more.
Flush(c) ==
  /\ c \in Live /\ OutEvent(fdOf[c])
  /\ ~quit[c]
  /\ acked' = [acked EXCEPT ![c] = TRUE]
  /\ wants' = [wants EXCEPT ![c] = FALSE]
  /\ EventDone
  /\ UNCHANGED <<vars, unread, closed, quit>>
  /\ ReadyIs(ready \cup {fdOf[c]})

\* The last messages of a client that quits are sent, and it is removed.
FlushAndRemove(c) ==
  /\ c \in Live /\ OutEvent(fdOf[c])
  /\ quit[c]
  /\ RemoveClient(c)
  /\ EventDone
  /\ \E told \in SUBSET (Live \ {c}) : Gone(c, told)

\* send() fails: the others are told, the client removed; main catches what get_Client
\* throws right after.
SendFails(c) ==
  /\ c \in Live /\ OutEvent(fdOf[c])
  /\ closed[c]
  /\ RemoveClient(c)
  /\ EventDone
  /\ \E told \in SUBSET (Live \ {c}) : Gone(c, told)

-----------------------------------------------------------------------------
Handle ==
  \/ SignalBreaks
  \/ SignalStops
  \/ AcceptFails
  \/ OutStale
  \/ \E t \in Fds : StaleTimerEvent(t)
  \/ \E c \in Clients :
       \/ AcceptEvent(c)
       \/ AcceptCrash(c)
       \/ Ignore(c)
       \/ Read(c)
       \/ ReadEnd(c)
       \/ Flush(c)
       \/ FlushAndRemove(c)
       \/ SendFails(c)
       \/ \E t \in Fds : TimerEvent(c, t)

Loop ==
  \/ Again
  \/ Leave
  \/ \E taken \in SUBSET ready : Fetch(taken)
  \/ Interrupted
  \/ Handle

Others ==
  \/ Interrupt
  \/ SignalArrives
  \/ \E c \in Clients : PeerConnects(c) \/ PeerActs(c) \/ TimerExpires(c)

LoopNext == Loop \/ Others

LoopSpec == LoopInit /\ [][LoopNext]_allVars

\* A batch that c's socket is in.
Takes(c) ==
  /\ up /\ pc = "polling" /\ fdOf[c] \in ready
  /\ \E taken \in SUBSET ready : fdOf[c] \in taken /\ Fetch(taken)

\* One thread, whose handlers do not block; and epoll reports what is on its list in
\* turn, so nothing stays there for ever.  Nothing is assumed of the others.
FairLoopSpec ==
  /\ LoopSpec
  /\ WF_allVars(Loop)
  /\ \A c \in Clients : SF_allVars(Takes(c))

-----------------------------------------------------------------------------
Pending(c, which) ==
  \/ fdOf[c] \in ready
  \/ \E i \in DOMAIN batch : batch[i].fd = fdOf[c] /\ batch[i][which]

\* The events of a batch are still about the same client when their turn comes,
\* although handlers of earlier ones close and open descriptors: a socket that is to
\* be read has its client (main.cpp:71 asks for it outside of any try), and a timer
\* that ran out leads to no other.
EventsReachOwners ==
  \A i \in DOMAIN batch :
    LET e == batch[i]
    IN  e.in => IF e.fd \notin Fds \/ timerMap[e.fd] = NoFd
                THEN Owner(e.fd) = {e.of} \ {NoClient}
                ELSE Owner(timerMap[e.fd]) \subseteq {e.of}

\* An edge-triggered epoll forgets no input but where the server uses an edge up: input
\* that waits in a socket, or its end, has an event to come, be it that of the EPOLLOUT
\* after which a client is acknowledged.  There are two such places, and the next action
\* of the peer, or something to be sent to it, makes up for both: the one recv() of
\* handleReadEvent, which may leave some of it behind, and a SIGUSR1.
InputNoticed ==
  up => \A c \in Unread :
          ~quit[c] /\ ~left[c] /\ ~dropped[c]
            => Pending(c, IF acked[c] THEN "in" ELSE "out")

\* Output is not forgotten either, so that a client that has quit meets its removal.
OutputNoticed ==
  up => \A c \in Live :
          /\ wants[c] /\ ~dropped[c] => Pending(c, "out")
          /\ quit[c] => wants[c]

\* No client starves: a peer whose input waits is read from again and again, until nothing
\* is there or one of the two places of InputNoticed is met, however busy the others are,
\* with batches of two and every peer free to talk for ever.
InputIsRead ==
  \A c \in Clients :
    <>[](up /\ c \in Unread /\ ~quit[c] /\ ~left[c] /\ ~dropped[c])
      => []<><<unread'[c] < unread[c]>>_allVars

\* A server that is told to stop stops, if it has an event in hand or to come.  (When
\* the signal comes between the look at should_exit and epoll_pwait, it waits for one.)
StopsWhenTold ==
  (shouldExit /\ ~(pc = "polling" /\ ready = {})) ~> ~up
=============================================================================
