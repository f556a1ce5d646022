------------------------------- MODULE Timers -------------------------------
(***************************************************************************)
(* Descriptors and keep-alive timers: Server::create_Client takes a socket  *)
(* and a timerfd per client, _timer_map leads from the timer to the socket, *)
(* main asks _timer_map whether an event is a timer's, checkTimers handles  *)
(* those, and remove_Client closes both descriptors but leaves the entry of *)
(* _timer_map.  So whether an entry is right depends on which descriptors   *)
(* the kernel hands out again.                                             *)
(***************************************************************************)
EXTENDS Integers

CONSTANTS
  Clients,    \* the Client objects of a run
  First,      \* the lowest descriptor the server has not opened at start-up
  Limit,      \* the highest one it may open
  NoFd        \* not a descriptor

Fds == First..Limit

ASSUME TimerAssumption ==
  /\ First \in Nat
  /\ Limit \in Nat
  /\ NoFd \notin Fds

VARIABLES
  conn,       \* conn[c]: "none" before accept, "live" in _Clients, "gone" after;
              \* "refused" when create_Client fails behind accept
  fdOf,       \* fdOf[c]: Client::_fd; of a refused one, client_fd of create_Client
  timerOf,    \* timerOf[c]: Client::_timer_fd
  openFds,    \* the descriptors the process has open
  timerMap,   \* Server::_timer_map, NoFd where it has no entry
  expired,    \* the descriptors of timers that have run out
  failed,     \* failed[c]: Client::_failed_response_counter
  up          \* FALSE once an exception or shutDown has ended the server

vars == <<conn, fdOf, timerOf, openFds, timerMap, expired, failed, up>>

Live == {c \in Clients : conn[c] = "live"}

TypeOK ==
  /\ conn \in [Clients -> {"none", "live", "gone", "refused"}]
  /\ fdOf \in [Clients -> Fds \cup {NoFd}]
  /\ timerOf \in [Clients -> Fds \cup {NoFd}]
  /\ openFds \subseteq Fds
  /\ timerMap \in [Fds -> Fds \cup {NoFd}]
  /\ expired \subseteq Fds
  /\ failed \in [Clients -> 0..3]
  /\ up \in BOOLEAN

Init ==
  /\ conn = [c \in Clients |-> "none"]
  /\ fdOf = [c \in Clients |-> NoFd]
  /\ timerOf = [c \in Clients |-> NoFd]
  /\ openFds = {}
  /\ timerMap = [t \in Fds |-> NoFd]
  /\ expired = {}
  /\ failed = [c \in Clients |-> 0]
  /\ up = TRUE

\* The kernel returns the lowest free descriptor.
FreeFds == Fds \ openFds
IsLowest(f, free) == f \in free /\ \A g \in free : f <= g

\* The timer the loop of resetClientFullTimer is left with: the last entry of the
\* ordered map that leads to descriptor f.
TimersTo(f) == {t \in Fds : timerMap[t] = f}
FoundTimer(f) == CHOOSE t \in TimersTo(f) : \A u \in TimersTo(f) : u <= t

Crash ==
  /\ up' = FALSE
  /\ UNCHANGED <<conn, fdOf, timerOf, openFds, timerMap, expired, failed>>

-----------------------------------------------------------------------------
(* Sessions                                                                 *)

\* Faulty variant: key and value are swapped.
EntryBackwards(t, f) == [timerMap EXCEPT ![f] = t]

Entry(t, f) == [timerMap EXCEPT ![t] = f]

\* create_Client: the socket's descriptor first, then the timer's.
Accept(c) ==
  /\ up
  /\ conn[c] = "none"
  /\ \E f \in Fds, t \in Fds :
       /\ IsLowest(f, FreeFds)
       /\ IsLowest(t, FreeFds \ {f})
       /\ conn' = [conn EXCEPT ![c] = "live"]
       /\ fdOf' = [fdOf EXCEPT ![c] = f]
       /\ timerOf' = [timerOf EXCEPT ![c] = t]
       /\ openFds' = openFds \cup {f, t}
       /\ timerMap' = Entry(t, f)
  /\ UNCHANGED <<expired, failed, up>>

\* The socket gets a descriptor and the timer none, it being the last one or the kernel
\* out of something else: createTimerFD throws what the loop of main does not catch, so
\* that create_Client does not come to the line that closes the socket.
AcceptWithoutTimer(c) ==
  /\ up
  /\ conn[c] = "none"
  /\ \E f \in Fds :
       /\ IsLowest(f, FreeFds)
       /\ conn' = [conn EXCEPT ![c] = "refused"]
       /\ fdOf' = [fdOf EXCEPT ![c] = f]
       /\ openFds' = openFds \cup {f}
  /\ up' = FALSE
  /\ UNCHANGED <<timerOf, timerMap, expired, failed>>

\* The Client object and what the process has open for it, fds, go.
Destroyed(c, fds) ==
  /\ conn' = [conn EXCEPT ![c] = "gone"]
  /\ openFds' = openFds \ fds
  /\ fdOf' = [fdOf EXCEPT ![c] = NoFd]
  /\ timerOf' = [timerOf EXCEPT ![c] = NoFd]
  /\ expired' = expired \ {timerOf[c]}
  /\ failed' = [failed EXCEPT ![c] = 0]

\* Faulty variant: the socket stays open.
RemovedKeepingSocket(c) == Destroyed(c, {timerOf[c]})

\* remove_Client: both descriptors are closed, the entry of the map stays.
Removed(c) == Destroyed(c, {fdOf[c], timerOf[c]})

\* The peer has gone, or the client has quit.
RemoveClient(c) ==
  /\ up
  /\ c \in Live
  /\ Removed(c)
  /\ UNCHANGED <<timerMap, up>>

\* Faulty variant: the timers stay open.
ShutDownKeepingTimers ==
  /\ up
  /\ conn' = [c \in Clients |-> IF c \in Live THEN "gone" ELSE conn[c]]
  /\ openFds' = openFds \ {fdOf[c] : c \in Live}
  /\ fdOf' = [c \in Clients |-> NoFd]
  /\ timerOf' = [c \in Clients |-> NoFd]
  /\ timerMap' = [t \in Fds |-> NoFd]
  /\ expired' = {}
  /\ failed' = [c \in Clients |-> 0]
  /\ up' = FALSE

\* shutDown: remove_Client for every client, and the map is cleared.
ShutDown ==
  /\ up
  /\ conn' = [c \in Clients |-> IF c \in Live THEN "gone" ELSE conn[c]]
  /\ openFds' = openFds \ UNION {{fdOf[c], timerOf[c]} : c \in Live}
  /\ fdOf' = [c \in Clients |-> NoFd]
  /\ timerOf' = [c \in Clients |-> NoFd]
  /\ timerMap' = [t \in Fds |-> NoFd]
  /\ expired' = {}
  /\ failed' = [c \in Clients |-> 0]
  /\ up' = FALSE

-----------------------------------------------------------------------------
(* Timers                                                                   *)

\* The kernel: a timer that has run out is readable until it is set again.
Expire(c) ==
  /\ up
  /\ c \in Live
  /\ expired' = expired \cup {timerOf[c]}
  /\ UNCHANGED <<conn, fdOf, timerOf, openFds, timerMap, failed, up>>

\* Faulty variant: set_failed_response_counter counts below 0.
ResetFullTimerUnguarded(c, value) ==
  /\ failed' = [failed EXCEPT ![c] = IF value = 0 THEN @ - 1 ELSE @ + value]
  /\ expired' = expired \ {FoundTimer(fdOf[c])}
  /\ UNCHANGED <<conn, fdOf, timerOf, openFds, timerMap, up>>

\* resetClientFullTimer(value, c): no timer in the map is a runtime_error.
ResetFullTimer(c, value) ==
  IF TimersTo(fdOf[c]) = {}
  THEN Crash
  ELSE /\ failed' = [failed EXCEPT ![c] = IF value = 0 THEN 0 ELSE @ + value]
       /\ expired' = expired \ {FoundTimer(fdOf[c])}
       /\ UNCHANGED <<conn, fdOf, timerOf, openFds, timerMap, up>>

\* PING or PONG from c, on a socket that main does not take for a timer.  (What
\* handleReadEvent does for every command sets no timer, the descriptor it passes
\* being the socket's, and takes 1 from a counter that is not 0.)
KeepAlive(c) ==
  /\ up
  /\ c \in Live
  /\ timerMap[fdOf[c]] = NoFd
  /\ ResetFullTimer(c, 0)

\* checkTimers(t) for the client c the entry leads to.  (The event may be older than
\* the last time t was set, so t need not have run out now.)  get_Client is asked for
\* the TIMER's descriptor and throws, outside of every try, unless a client has it.
CheckTimer(c, t) ==
  /\ up
  /\ c \in Live /\ timerMap[t] = fdOf[c]
  /\ IF failed[c] = 3
     THEN /\ Removed(c)
          /\ timerMap' = [timerMap EXCEPT ![t] = NoFd]
          /\ UNCHANGED up
     ELSE IF \E d \in Live : fdOf[d] = t
     THEN ResetFullTimer(c, 1)
     ELSE Crash

Next ==
  \/ ShutDown
  \/ \E c \in Clients :
       \/ Accept(c)
       \/ AcceptWithoutTimer(c)
       \/ RemoveClient(c)
       \/ Expire(c)
       \/ KeepAlive(c)
       \/ \E t \in Fds : CheckTimer(c, t)

Spec == Init /\ [][Next]_vars

-----------------------------------------------------------------------------
\* Whose socket create_Client had opened when createTimerFD threw.
Refused == {c \in Clients : conn[c] = "refused"}

\* remove_Client closes what create_Client opened and nothing else, the second
\* close of the socket included: the open descriptors are those of live clients,
\* each of one client only, and the socket of a client that could be given no timer,
\* which nobody closes although Server.cpp:167-170 is there for it (createTimerFD throws
\* and never returns the -1 it asks for) and which ends the server.
NothingLeaks ==
  /\ openFds = {fdOf[c] : c \in Live \cup Refused} \cup {timerOf[c] : c \in Live}
  /\ \A c \in Live \cup Refused, d \in Live :
       /\ fdOf[c] # timerOf[d]
       /\ c # d => fdOf[c] # fdOf[d] /\ timerOf[c] # timerOf[d]

\* main never takes the input of a client for a timer's event, although _timer_map
\* keeps the descriptors of timers that are long closed: no such descriptor is
\* given to a socket.
InputNotTaken == \A c \in Live : timerMap[fdOf[c]] = NoFd

\* PING and PONG set the client's own timer again, although resetClientFullTimer
\* looks for it by a socket descriptor that closed timers may lead to as well.
OwnTimer ==
  \A c \in Live : TimersTo(fdOf[c]) # {} /\ FoundTimer(fdOf[c]) = timerOf[c]

\* A timeout sends the client a ping, or removes it after the third one, and the
\* server goes on (Server.cpp:319, "updates failed response counter and sends a
\* ping to check if there is an active client, if not, the client is removed").
TimeoutIsHandled ==
  [][\A c \in Clients, t \in Fds : CheckTimer(c, t) => up']_vars
=============================================================================
