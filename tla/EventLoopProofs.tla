-------------------------- MODULE EventLoopProofs --------------------------
(* Descriptors and events stay in order for every number of clients and       *)
(* descriptors.                                                              *)
(*                                                                         *)
(* First the handlers of Timers, in any order.  The kernel hands out the lowest *)
(* descriptor, each session takes two and gives both back, so a session holds  *)
(* one at an even distance from the first and the one after it, for its timer. *)
(* Stale entries of _timer_map are therefore all at odd distances, where no    *)
(* socket will ever be, and lead to the descriptor before them.  A socket that is *)
(* left without a timer would break the order, and is the end of the server.   *)
(*                                                                         *)
(* Then main's loop: each of its handlers is a step of Timers or leaves its     *)
(* variables alone, whatever order epoll reports events in and however stale    *)
(* they are; every event reaches the client it was about; and no edge of a      *)
(* client that has something to be read or sent is lost.                       *)
EXTENDS EventLoop, FiniteSetTheorems, SequenceTheorems, TLAPS

Socket(f) == f \in Fds /\ (f - First) % 2 = 0

\* A session's two descriptors.
Pairs ==
  /\ \A c \in Live : /\ Socket(fdOf[c])
                     /\ timerOf[c] \in Fds /\ timerOf[c] = fdOf[c] + 1
  /\ \A c, d \in Live : fdOf[c] = fdOf[d] => c = d

OpenOnes == openFds = {fdOf[c] : c \in Live \cup Refused} \cup {timerOf[c] : c \in Live}

\* Who has no timer; and the server does not outlive a socket without one.
Timerless ==
  /\ \A c \in Clients \ Live : timerOf[c] = NoFd
  /\ \A c \in Refused, d \in Live : fdOf[c] # fdOf[d] /\ fdOf[c] # timerOf[d]
  /\ up => Refused = {}

\* What _timer_map holds, stale entries included.
Entries ==
  /\ \A t \in Fds : timerMap[t] # NoFd => Socket(timerMap[t]) /\ t = timerMap[t] + 1
  /\ \A c \in Live : timerMap[timerOf[c]] = fdOf[c]

TimerInv == TypeOK /\ Pairs /\ OpenOnes /\ Timerless /\ Entries

LEMMA FdsAreNumbers == Fds \subseteq Int /\ \A f \in Fds : First <= f /\ f <= Limit
  BY TimerAssumption DEF Fds

\* Neighbours: after a socket's descriptor there is none, nor is one two steps of one.
LEMMA SocketParity ==
  ASSUME NEW f \in Int, NEW g \in Int, Socket(f), Socket(g)
  PROVE  g # f + 1
  BY TimerAssumption, FdsAreNumbers DEF Socket

LEMMA NotSocket ==
  ASSUME NEW f \in Fds, ~Socket(f)
  PROVE  Socket(f - 1) /\ f - 1 \in Fds
  BY TimerAssumption DEF Socket, Fds

\* While the server runs, all that is open is a live client's.
LEMMA OpenWhileUp ==
  ASSUME TimerInv, up
  PROVE  /\ openFds = {fdOf[c] : c \in Live} \cup {timerOf[c] : c \in Live}
         /\ Refused = {}
  BY DEF TimerInv, OpenOnes, Timerless

\* Two descriptors that belong together are both open or both free.
LEMMA OpenTogether ==
  ASSUME TimerInv, up, NEW f \in Fds, Socket(f), f + 1 \in Fds
  PROVE  f \in openFds <=> f + 1 \in openFds
<1>1. ASSUME NEW c \in Live, f = timerOf[c] PROVE FALSE
  BY <1>1, SocketParity, FdsAreNumbers DEF TimerInv, Pairs, Socket
<1>2. ASSUME NEW c \in Live, f + 1 = fdOf[c] PROVE FALSE
  BY <1>2, SocketParity, FdsAreNumbers DEF TimerInv, Pairs, Socket
<1>3. ASSUME f \in openFds PROVE f + 1 \in openFds
  <2>1. PICK c \in Live : f = fdOf[c]
    BY <1>1, <1>3, OpenWhileUp
  <2>2. timerOf[c] = f + 1
    BY <2>1 DEF TimerInv, Pairs
  <2> QED
    BY <2>2, OpenWhileUp
<1>4. ASSUME f + 1 \in openFds PROVE f \in openFds
  <2>1. PICK c \in Live : f + 1 = timerOf[c]
    BY <1>2, <1>4, OpenWhileUp
  <2>2. f \in Int /\ fdOf[c] \in Int /\ timerOf[c] = fdOf[c] + 1
    BY FdsAreNumbers DEF TimerInv, Pairs, Socket
  <2>3. fdOf[c] = f
    BY <2>1, <2>2
  <2> QED
    BY <2>3, OpenWhileUp
<1> QED
  BY <1>3, <1>4

\* accept and timerfd_create return neighbours.
LEMMA NewPair ==
  ASSUME TimerInv, up, NEW f \in Fds, NEW t \in Fds,
         IsLowest(f, FreeFds), IsLowest(t, FreeFds \ {f})
  PROVE  Socket(f) /\ t = f + 1
<1>1. f \in Int /\ t \in Int /\ First \in Int /\ Limit \in Int
  BY FdsAreNumbers, TimerAssumption
<1>2. f \notin openFds /\ t \notin openFds /\ t # f /\ f <= t
  BY DEF IsLowest, FreeFds
<1>3. Socket(f)
  <2> SUFFICES ASSUME ~Socket(f) PROVE FALSE
    OBVIOUS
  <2>1. Socket(f - 1) /\ f - 1 \in Fds /\ (f - 1) + 1 = f
    BY <1>1, NotSocket
  <2>2. f - 1 \notin openFds
    BY <1>2, <2>1, OpenTogether
  <2>3. f <= f - 1
    BY <2>1, <2>2 DEF IsLowest, FreeFds
  <2> QED
    BY <1>1, <2>3
<1>4. f + 1 \in Fds
  BY <1>1, <1>2, FdsAreNumbers DEF Fds
<1>5. f + 1 \notin openFds
  BY <1>2, <1>3, <1>4, OpenTogether
<1>6. t <= f + 1
  BY <1>1, <1>4, <1>5 DEF IsLowest, FreeFds
<1> QED
  BY <1>1, <1>2, <1>3, <1>6

LEMMA TimerInitInv == Init => TimerInv
<1> SUFFICES ASSUME Init PROVE TimerInv
  OBVIOUS
<1>1. Live = {} /\ Refused = {}
  BY DEF Init, Live, Refused
<1>2. TypeOK
  BY DEF Init, TypeOK
<1>3. Entries
  BY <1>1 DEF Init, Entries
<1>4. Timerless
  BY <1>1 DEF Init, Timerless
<1> QED
  BY <1>1, <1>2, <1>3, <1>4 DEF Init, TimerInv, Pairs, OpenOnes

\* Only what the invariant speaks of has to stay.
LEMMA TimerFrame ==
  ASSUME TimerInv, TypeOK', UNCHANGED <<conn, fdOf, timerOf, openFds, timerMap>>,
         up' => up
  PROVE  TimerInv'
<1>1. Live' = Live /\ Refused' = Refused
  BY DEF Live, Refused
<1> QED
  BY <1>1 DEF TimerInv, Pairs, OpenOnes, Timerless, Entries

LEMMA CrashInv ==
  ASSUME TimerInv, Crash
  PROVE  TimerInv'
  BY TimerFrame DEF Crash, TimerInv, TypeOK

LEMMA AcceptInv ==
  ASSUME TimerInv, NEW c \in Clients, Accept(c)
  PROVE  TimerInv'
<1>1. PICK f \in Fds, t \in Fds :
        /\ IsLowest(f, FreeFds)
        /\ IsLowest(t, FreeFds \ {f})
        /\ conn' = [conn EXCEPT ![c] = "live"]
        /\ fdOf' = [fdOf EXCEPT ![c] = f]
        /\ timerOf' = [timerOf EXCEPT ![c] = t]
        /\ openFds' = openFds \cup {f, t}
        /\ timerMap' = [timerMap EXCEPT ![t] = f]
  BY DEF Accept, Entry
<1>2. Socket(f) /\ t = f + 1 /\ f # NoFd /\ up
  BY <1>1, NewPair, TimerAssumption DEF Accept
<1>3. f \notin openFds /\ t \notin openFds
  BY <1>1 DEF IsLowest, FreeFds
<1>4. c \notin Live /\ Live' = Live \cup {c} /\ Refused' = {}
  <2>1. c \notin Live /\ Live' = Live \cup {c}
    BY <1>1 DEF Accept, Live, TimerInv, TypeOK
  <2>2. Refused' = {}
    BY <1>1, <1>2, OpenWhileUp DEF Refused, TimerInv, TypeOK
  <2> QED
    BY <2>1, <2>2
<1>5. /\ fdOf'[c] = f /\ timerOf'[c] = t
      /\ \A d \in Live : fdOf'[d] = fdOf[d] /\ timerOf'[d] = timerOf[d]
  BY <1>1, <1>4 DEF TimerInv, TypeOK, Live
<1>6. \A d \in Live : fdOf[d] \in openFds /\ timerOf[d] \in openFds
  BY DEF TimerInv, OpenOnes
<1>7. TypeOK'
  BY <1>1 DEF Accept, TimerInv, TypeOK
<1>8. Pairs'
  BY <1>2, <1>3, <1>4, <1>5, <1>6 DEF TimerInv, Pairs, Socket
<1>9. OpenOnes' /\ Timerless'
  <2>1. OpenOnes'
    BY <1>1, <1>2, <1>4, <1>5, OpenWhileUp DEF OpenOnes
  <2>2. \A d \in Clients \ Live' : timerOf'[d] = NoFd
    BY <1>1, <1>4 DEF TimerInv, Timerless, TypeOK
  <2> QED
    BY <1>4, <2>1, <2>2 DEF Timerless
<1>10. Entries'
  <2>1. ASSUME NEW u \in Fds, timerMap'[u] # NoFd
        PROVE  Socket(timerMap'[u]) /\ u = timerMap'[u] + 1
    BY <1>1, <1>2, <2>1 DEF TimerInv, TypeOK, Entries
  <2>2. ASSUME NEW d \in Live' PROVE timerMap'[timerOf'[d]] = fdOf'[d]
    BY <1>1, <1>3, <1>4, <1>5, <1>6 DEF TimerInv, TypeOK, Entries, Pairs
  <2> QED
    BY <2>1, <2>2 DEF Entries, Socket
<1> QED
  BY <1>7, <1>8, <1>9, <1>10 DEF TimerInv

\* The socket that gets no timer is nobody's, and the end.
LEMMA RefusedInv ==
  ASSUME TimerInv, NEW c \in Clients, AcceptWithoutTimer(c)
  PROVE  TimerInv'
<1>1. PICK f \in Fds : /\ IsLowest(f, FreeFds)
                       /\ conn' = [conn EXCEPT ![c] = "refused"]
                       /\ fdOf' = [fdOf EXCEPT ![c] = f]
                       /\ openFds' = openFds \cup {f}
  BY DEF AcceptWithoutTimer
<1>2. up /\ up' = FALSE /\ conn[c] = "none" /\ UNCHANGED <<timerOf, timerMap, expired, failed>>
  BY DEF AcceptWithoutTimer
<1>3. c \notin Live /\ Live' = Live /\ Refused' = {c}
  <2>1. c \notin Live /\ Live' = Live
    BY <1>1, <1>2 DEF Live, TimerInv, TypeOK
  <2>2. Refused' = Refused \cup {c}
    BY <1>1 DEF Refused, TimerInv, TypeOK
  <2> QED
    BY <1>2, <2>1, <2>2, OpenWhileUp
<1>4. fdOf'[c] = f /\ \A d \in Live : fdOf'[d] = fdOf[d]
  BY <1>1, <1>3 DEF TimerInv, TypeOK, Live
<1>5. f \notin openFds
  BY <1>1 DEF IsLowest, FreeFds
<1>6. TypeOK'
  BY <1>1, <1>2 DEF TimerInv, TypeOK
<1>7. Pairs'
  BY <1>2, <1>3, <1>4 DEF TimerInv, Pairs, Socket
<1>8. OpenOnes'
  BY <1>1, <1>2, <1>3, <1>4, OpenWhileUp DEF OpenOnes
<1>9. Timerless'
  <2>1. \A d \in Live : f # fdOf[d] /\ f # timerOf[d]
    BY <1>2, <1>5, OpenWhileUp
  <2> QED
    BY <1>2, <1>3, <1>4, <2>1 DEF TimerInv, Timerless
<1>10. Entries'
  BY <1>2, <1>3, <1>4 DEF TimerInv, Entries, Socket
<1> QED
  BY <1>6, <1>7, <1>8, <1>9, <1>10 DEF TimerInv

\* A session gives back its two descriptors and no others, whether its entry in
\* _timer_map goes with it (checkTimers) or stays (remove_Client).
LEMMA RemovedInv ==
  ASSUME TimerInv, up, NEW c \in Live, Removed(c), up' = up,
         \/ timerMap' = timerMap
         \/ timerMap' = [timerMap EXCEPT ![timerOf[c]] = NoFd]
  PROVE  TimerInv'
<1>1. c \in Clients /\ Live' = Live \ {c} /\ Refused' = {}
  <2>1. c \in Clients /\ Live' = Live \ {c}
    BY DEF Removed, Destroyed, Live, TimerInv, TypeOK
  <2>2. Refused' = {}
    BY <2>1, OpenWhileUp DEF Removed, Destroyed, Refused, TimerInv, TypeOK
  <2> QED
    BY <2>1, <2>2
<1>2. \A d \in Live' : fdOf'[d] = fdOf[d] /\ timerOf'[d] = timerOf[d]
  BY <1>1 DEF Removed, Destroyed, TimerInv, TypeOK, Live
<1>3. openFds' = openFds \ {fdOf[c], timerOf[c]}
  BY DEF Removed, Destroyed
<1>4. ASSUME NEW d \in Live'
      PROVE  /\ d \in Live /\ fdOf[d] # fdOf[c] /\ timerOf[d] # timerOf[c]
             /\ fdOf[d] # timerOf[c] /\ timerOf[d] # fdOf[c]
  <2>1. d \in Live /\ d # c
    BY <1>1
  <2>2. fdOf[d] \in Int /\ fdOf[c] \in Int /\ Socket(fdOf[d]) /\ Socket(fdOf[c])
    BY <2>1, FdsAreNumbers DEF TimerInv, Pairs, Socket
  <2>3. timerOf[d] = fdOf[d] + 1 /\ timerOf[c] = fdOf[c] + 1 /\ fdOf[d] # fdOf[c]
    BY <2>1 DEF TimerInv, Pairs
  <2> QED
    BY <2>1, <2>2, <2>3, SocketParity
<1>5. TypeOK'
  BY <1>1 DEF Removed, Destroyed, TimerInv, TypeOK
<1>6. Pairs'
  BY <1>2, <1>4 DEF TimerInv, Pairs, Socket
<1>7. OpenOnes'
  <2>1. openFds' \subseteq {fdOf'[d] : d \in Live'} \cup {timerOf'[d] : d \in Live'}
    BY <1>1, <1>2, <1>3, OpenWhileUp
  <2>2. {fdOf'[d] : d \in Live'} \cup {timerOf'[d] : d \in Live'} \subseteq openFds'
    BY <1>2, <1>3, <1>4, OpenWhileUp
  <2> QED
    BY <1>1, <2>1, <2>2 DEF OpenOnes
<1>8. Entries'
  <2>1. ASSUME NEW u \in Fds, timerMap'[u] # NoFd PROVE timerMap'[u] = timerMap[u]
    BY <2>1 DEF TimerInv, TypeOK
  <2>2. ASSUME NEW d \in Live' PROVE timerMap'[timerOf'[d]] = fdOf'[d]
    BY <1>2, <1>4 DEF TimerInv, TypeOK, Entries, Pairs
  <2> QED
    BY <2>1, <2>2 DEF TimerInv, Entries, Socket
<1>9. Timerless'
  <2>1. \A d \in Clients \ Live' : timerOf'[d] = NoFd
    BY <1>1 DEF Removed, Destroyed, TimerInv, Timerless, TypeOK
  <2> QED
    BY <1>1, <2>1 DEF Timerless
<1> QED
  BY <1>5, <1>6, <1>7, <1>8, <1>9 DEF TimerInv

LEMMA ResetFullTimerInv ==
  ASSUME TimerInv, NEW c \in Live, NEW value \in {0, 1}, ResetFullTimer(c, value),
         value = 1 => failed[c] # 3
  PROVE  TimerInv'
<1>1. CASE TimersTo(fdOf[c]) = {}
  BY <1>1, CrashInv DEF ResetFullTimer
<1>2. CASE TimersTo(fdOf[c]) # {}
  <2>1. c \in Clients /\ failed[c] \in 0..3
    BY DEF Live, TimerInv, TypeOK
  <2>2. (IF value = 0 THEN 0 ELSE failed[c] + value) \in 0..3
    BY <2>1
  <2>3. failed' = [failed EXCEPT ![c] = IF value = 0 THEN 0 ELSE failed[c] + value]
    BY <1>2 DEF ResetFullTimer
  <2>4. TypeOK'
    BY <1>2, <2>1, <2>2, <2>3 DEF ResetFullTimer, TimerInv, TypeOK
  <2> QED
    BY <1>2, <2>4, TimerFrame DEF ResetFullTimer
<1> QED
  BY <1>1, <1>2

\* A timeout finds the session by an entry of its own, never by a stale one.
LEMMA CheckTimerInv ==
  ASSUME TimerInv, NEW c \in Clients, NEW t \in Fds, CheckTimer(c, t)
  PROVE  TimerInv'
<1>1. up /\ c \in Live /\ timerMap[t] = fdOf[c]
  BY DEF CheckTimer
<1>2. t = timerOf[c]
  BY <1>1, TimerAssumption DEF TimerInv, Entries, Pairs, Socket
<1>3. CASE failed[c] = 3
  BY <1>1, <1>2, <1>3, RemovedInv DEF CheckTimer
<1>4. CASE failed[c] # 3
  BY <1>1, <1>4, ResetFullTimerInv, CrashInv DEF CheckTimer
<1> QED
  BY <1>3, <1>4

\* Nothing is left open for clients when none is left.
LEMMA ShutDownInv ==
  ASSUME TimerInv, ShutDown
  PROVE  TimerInv'
<1>1. Live' = {} /\ Refused' = {}
  <2>1. Live' = {}
    BY DEF ShutDown, Live, TimerInv, TypeOK
  <2>2. Refused' = Refused
    BY DEF ShutDown, Refused, Live, TimerInv, TypeOK
  <2> QED
    BY <2>1, <2>2, OpenWhileUp DEF ShutDown
<1>2. openFds' = {}
  <2>1. openFds = UNION {{fdOf[c], timerOf[c]} : c \in Live}
    BY OpenWhileUp DEF ShutDown
  <2> QED
    BY <2>1 DEF ShutDown
<1>3. TypeOK'
  <2>1. conn' \in [Clients -> {"none", "live", "gone", "refused"}]
    BY DEF ShutDown, TimerInv, TypeOK
  <2>2. /\ fdOf' \in [Clients -> Fds \cup {NoFd}]
        /\ timerOf' \in [Clients -> Fds \cup {NoFd}]
        /\ timerMap' \in [Fds -> Fds \cup {NoFd}]
    BY DEF ShutDown
  <2>3. failed' \in [Clients -> 0..3]
    <3>1. 0 \in 0..3
      OBVIOUS
    <3> QED
      BY <3>1, Zenon DEF ShutDown
  <2>4. expired' = {} /\ up' = FALSE
    BY DEF ShutDown
  <2> QED
    BY <1>2, <2>1, <2>2, <2>3, <2>4 DEF TypeOK
<1>4. Entries' /\ Timerless'
  BY <1>1 DEF ShutDown, Entries, Timerless
<1> QED
  BY <1>1, <1>2, <1>3, <1>4 DEF TimerInv, Pairs, OpenOnes

\* Every step of the server and the kernel keeps the invariant.
LEMMA TimerStepInv == TimerInv /\ [Next]_vars => TimerInv'
<1> SUFFICES ASSUME TimerInv, [Next]_vars PROVE TimerInv'
  OBVIOUS
<1>1. ASSUME NEW c \in Clients, Accept(c) PROVE TimerInv'
  BY <1>1, AcceptInv
<1>2. ASSUME NEW c \in Clients, AcceptWithoutTimer(c) PROVE TimerInv'
  BY <1>2, RefusedInv
<1>3. ASSUME NEW c \in Clients, RemoveClient(c) PROVE TimerInv'
  BY <1>3, RemovedInv DEF RemoveClient
<1>4. ASSUME NEW c \in Clients, Expire(c) PROVE TimerInv'
  <2>1. timerOf[c] \in Fds
    BY <1>4 DEF Expire, TimerInv, Pairs
  <2>2. TypeOK'
    BY <1>4, <2>1 DEF Expire, TimerInv, TypeOK
  <2> QED
    BY <1>4, <2>2, TimerFrame DEF Expire
<1>5. ASSUME NEW c \in Clients, KeepAlive(c) PROVE TimerInv'
  BY <1>5, ResetFullTimerInv DEF KeepAlive
<1>6. ASSUME NEW c \in Clients, NEW t \in Fds, CheckTimer(c, t) PROVE TimerInv'
  BY <1>6, CheckTimerInv
<1>7. CASE ShutDown
  BY <1>7, ShutDownInv
<1>8. CASE UNCHANGED vars
  BY <1>8, TimerFrame DEF vars, TimerInv, TypeOK
<1> QED
  BY <1>1, <1>2, <1>3, <1>4, <1>5, <1>6, <1>7, <1>8 DEF Next

-----------------------------------------------------------------------------
LEMMA InvNothingLeaks == TimerInv => NothingLeaks
<1> SUFFICES ASSUME TimerInv, NEW c \in Live \cup Refused, NEW d \in Live
             PROVE  /\ fdOf[c] # timerOf[d]
                    /\ c # d => fdOf[c] # fdOf[d] /\ timerOf[c] # timerOf[d]
  BY DEF NothingLeaks, TimerInv, OpenOnes
<1>1. CASE c \in Live
  <2>1. fdOf[c] \in Int /\ fdOf[d] \in Int /\ Socket(fdOf[c]) /\ Socket(fdOf[d])
    BY <1>1, FdsAreNumbers DEF TimerInv, Pairs, Socket
  <2>2. timerOf[c] = fdOf[c] + 1 /\ timerOf[d] = fdOf[d] + 1
    BY <1>1 DEF TimerInv, Pairs
  <2>3. fdOf[c] = fdOf[d] => c = d
    BY <1>1 DEF TimerInv, Pairs
  <2> QED
    BY <2>1, <2>2, <2>3, SocketParity
<1>2. CASE c \notin Live
  <2>1. c \in Refused /\ c \in Clients
    BY <1>2 DEF Refused
  <2>2. timerOf[c] = NoFd /\ timerOf[d] \in Fds
    BY <1>2, <2>1 DEF TimerInv, Timerless, Pairs
  <2>3. fdOf[c] # fdOf[d] /\ fdOf[c] # timerOf[d]
    BY <2>1 DEF TimerInv, Timerless
  <2> QED
    BY <2>2, <2>3, TimerAssumption
<1> QED
  BY <1>1, <1>2

\* An entry under a socket's descriptor would lead to the one before it, a socket's too.
LEMMA InvInputNotTaken == TimerInv => InputNotTaken
<1> SUFFICES ASSUME TimerInv, NEW c \in Live, timerMap[fdOf[c]] # NoFd PROVE FALSE
  BY DEF InputNotTaken
<1>1. Socket(fdOf[c]) /\ fdOf[c] \in Int
  BY FdsAreNumbers DEF TimerInv, Pairs, Socket
<1>2. Socket(timerMap[fdOf[c]]) /\ fdOf[c] = timerMap[fdOf[c]] + 1
  BY <1>1 DEF TimerInv, Entries, Socket
<1> QED
  BY <1>1, <1>2, SocketParity, FdsAreNumbers DEF Socket

\* Of all entries, stale or not, one leads to a live client's socket: its timer's.
LEMMA InvOwnTimer == TimerInv => OwnTimer
<1> SUFFICES ASSUME TimerInv, NEW c \in Live
             PROVE  TimersTo(fdOf[c]) # {} /\ FoundTimer(fdOf[c]) = timerOf[c]
  BY DEF OwnTimer
<1>1. timerOf[c] \in Fds /\ timerOf[c] = fdOf[c] + 1 /\ fdOf[c] # NoFd
  BY TimerAssumption DEF TimerInv, Pairs, Socket
<1>2. TimersTo(fdOf[c]) = {timerOf[c]}
  BY <1>1 DEF TimersTo, TimerInv, Entries
<1>3. timerOf[c] <= timerOf[c]
  BY <1>1, FdsAreNumbers
<1> QED
  BY <1>2, <1>3 DEF FoundTimer

LEMMA InvTypes == TimerInv => TypeOK
  BY DEF TimerInv

\* The descriptors and the timeout counter stay in their ranges.
THEOREM TimerTypeCorrect == Spec => []TypeOK
  BY TimerInitInv, TimerStepInv, InvTypes, PTL DEF Spec

\* remove_Client closes exactly what create_Client opened, for ever, and a socket that
\* createTimerFD left without a timer is no other client's.
THEOREM NothingEverLeaks == Spec => []NothingLeaks
  BY TimerInitInv, TimerStepInv, InvNothingLeaks, PTL DEF Spec

\* No stale entry of _timer_map ever takes a client's input for a timeout.
THEOREM InputStaysInput == Spec => []InputNotTaken
  BY TimerInitInv, TimerStepInv, InvInputNotTaken, PTL DEF Spec

\* PING and PONG always find the client's own timer.
THEOREM OwnTimerFound == Spec => []OwnTimer
  BY TimerInitInv, TimerStepInv, InvOwnTimer, PTL DEF Spec

-----------------------------------------------------------------------------
(* main's loop does to descriptors only what Timers allows.                   *)

\* The handlers of main's EPOLLIN branch.
LEMMA InIsTimersStep ==
  ASSUME NEW c \in Clients,
         \/ AcceptEvent(c) \/ AcceptCrash(c) \/ Ignore(c) \/ Read(c) \/ ReadEnd(c)
         \/ \E t \in Fds : TimerEvent(c, t)
  PROVE  [Next]_vars
<1>1. CASE AcceptEvent(c)
  BY <1>1 DEF AcceptEvent, Next
<1>2. CASE AcceptCrash(c)
  BY <1>2 DEF AcceptCrash, Next
<1>3. CASE Ignore(c)
  BY <1>3 DEF Ignore
<1>4. CASE Read(c)
  BY <1>4 DEF Read, Next
<1>5. CASE ReadEnd(c)
  BY <1>5 DEF ReadEnd, Next
<1>6. CASE \E t \in Fds : TimerEvent(c, t)
  BY <1>6 DEF TimerEvent, Next
<1> QED
  BY <1>1, <1>2, <1>3, <1>4, <1>5, <1>6

\* Those of its EPOLLOUT branch.
LEMMA OutIsTimersStep ==
  ASSUME NEW c \in Clients, Flush(c) \/ FlushAndRemove(c) \/ SendFails(c)
  PROVE  [Next]_vars
<1>1. CASE Flush(c)
  BY <1>1 DEF Flush
<1>2. CASE FlushAndRemove(c)
  BY <1>2 DEF FlushAndRemove, Next
<1>3. CASE SendFails(c)
  BY <1>3 DEF SendFails, Next
<1> QED
  BY <1>1, <1>2, <1>3

LEMMA HandleIsTimersStep == Handle => [Next]_vars
<1>1. CASE SignalBreaks
  BY <1>1 DEF SignalBreaks
<1>2. CASE SignalStops
  BY <1>2 DEF SignalStops, Stop, Next
<1>3. CASE AcceptFails
  BY <1>3 DEF AcceptFails
<1>4. CASE OutStale
  BY <1>4 DEF OutStale
<1>5. CASE \E t \in Fds : StaleTimerEvent(t)
  BY <1>5 DEF StaleTimerEvent
<1> QED
  BY <1>1, <1>2, <1>3, <1>4, <1>5, InIsTimersStep, OutIsTimersStep DEF Handle

LEMMA LoopIsTimersStep == Loop => [Next]_vars
<1>1. CASE Again
  BY <1>1 DEF Again
<1>2. CASE Leave
  BY <1>2 DEF Leave, Stop, Next
<1>3. CASE \E taken \in SUBSET ready : Fetch(taken)
  BY <1>3 DEF Fetch
<1>4. CASE Interrupted
  BY <1>4 DEF Interrupted, Stop, Next
<1> QED
  BY <1>1, <1>2, <1>3, <1>4, HandleIsTimersStep DEF Loop

LEMMA OthersAreTimersSteps == Others => [Next]_vars
<1>1. CASE Interrupt
  BY <1>1 DEF Interrupt
<1>2. CASE SignalArrives
  BY <1>2 DEF SignalArrives
<1>3. ASSUME NEW c \in Clients, PeerConnects(c) \/ PeerActs(c) \/ TimerExpires(c)
      PROVE  [Next]_vars
  <2>1. CASE PeerConnects(c)
    BY <2>1 DEF PeerConnects
  <2>2. CASE PeerActs(c)
    BY <2>2 DEF PeerActs
  <2>3. CASE TimerExpires(c)
    BY <2>3 DEF TimerExpires, Next
  <2> QED
    BY <1>3, <2>1, <2>2, <2>3
<1> QED
  BY <1>1, <1>2, <1>3 DEF Others

\* The loop implements Timers: main, with its batches, signals and failures of
\* accept, recv and send, runs create_Client, remove_Client, checkTimers and shutDown
\* only as that module says they run.
THEOREM LoopImplementsTimers == LoopSpec => Spec
<1>1. LoopInit => Init
  BY DEF LoopInit
<1>2. [LoopNext]_allVars => [Next]_vars
  <2>1. CASE LoopNext
    BY <2>1, LoopIsTimersStep, OthersAreTimersSteps DEF LoopNext
  <2>2. CASE UNCHANGED allVars
    BY <2>2 DEF allVars
  <2> QED
    BY <2>1, <2>2
<1> QED
  BY <1>1, <1>2, PTL DEF LoopSpec, Spec

\* No descriptor leaks or is closed for somebody else in main's loop, whatever the
\* order of its events.
THEOREM LoopLeaksNothing == LoopSpec => []NothingLeaks
  BY LoopImplementsTimers, NothingEverLeaks, PTL

\* In main's loop the input of a client is never taken for a timer's event.
THEOREM LoopInputStaysInput == LoopSpec => []InputNotTaken
  BY LoopImplementsTimers, InputStaysInput, PTL

\* In main's loop PING and PONG always set the client's own timer.
THEOREM LoopOwnTimerFound == LoopSpec => []OwnTimer
  BY LoopImplementsTimers, OwnTimerFound, PTL

-----------------------------------------------------------------------------
(* Events and their clients.                                                *)

\* checkTimers ends the server whenever it is reached, so no counter ever rises, and
\* the timers that have run out are those of live clients.
TimersIdle ==
  /\ \A c \in Clients : failed[c] = 0
  /\ expired \subseteq {timerOf[c] : c \in Live}

\* A client that is not there has no input, no marks and no interest; who may not talk
\* yet is still to be greeted.
PeersInv ==
  /\ \A c \in Clients : c \notin Live =>
       unread[c] = 0 /\ ~closed[c] /\ ~acked[c] /\ ~quit[c] /\ ~wants[c]
  /\ up => \A c \in Live : ~acked[c] => wants[c]

ReadyHolds == \A f \in ready : Readable(f) \/ Writable(f)

\* The event is about the listening socket, the signals or a client that is there.
Own(e) ==
  \/ e.fd \in {ListenFd, SignalFd} /\ e.of = NoClient
  \/ e.of \in Live /\ e.fd \in {fdOf[e.of], timerOf[e.of]}

Reaches(e) ==
  e.in => IF e.fd \notin Fds \/ timerMap[e.fd] = NoFd
          THEN Owner(e.fd) = {e.of} \ {NoClient}
          ELSE Owner(timerMap[e.fd]) \subseteq {e.of}

\* A handler can accept a client only as the first of two, before any has removed one,
\* so what it opens is not what the second event is about.
BatchInv ==
  /\ pc # "batch" => up /\ batch = <<>>
  /\ Len(batch) <= 2
  /\ \A i, j \in DOMAIN batch : batch[i].fd = batch[j].fd => i = j
  /\ Len(batch) = 2 /\ batch[1].in => Own(batch[2])
  /\ \A i \in DOMAIN batch : Reaches(batch[i])

\* Input that no recv() has left behind.
Waits(c) == (unread[c] > 0 \/ closed[c]) /\ ~left[c]

\* InputNoticed and OutputNoticed of one client.
Noticed(c) ==
  /\ Waits(c) /\ ~quit[c] /\ ~dropped[c] => Pending(c, IF acked[c] THEN "in" ELSE "out")
  /\ wants[c] /\ ~dropped[c] => Pending(c, "out")
  /\ quit[c] => wants[c]

NoticedInv == up => \A c \in Live : Noticed(c)

LoopInv ==
  /\ TimerInv /\ LoopTypeOK /\ TimersIdle /\ PeersInv /\ ReadyHolds /\ BatchInv /\ NoticedInv

Events == [fd : PolledFds, in : BOOLEAN, out : BOOLEAN, of : Clients \cup {NoClient}]

LEMMA LoopTypes ==
  ASSUME LoopTypeOK
  PROVE  /\ batch \in Seq(Events)
         /\ unread \in [Clients -> 0..MaxUnread]
         /\ closed \in [Clients -> BOOLEAN] /\ acked \in [Clients -> BOOLEAN]
         /\ quit \in [Clients -> BOOLEAN] /\ wants \in [Clients -> BOOLEAN]
         /\ left \in [Clients -> BOOLEAN] /\ dropped \in [Clients -> BOOLEAN]
  BY DEF LoopTypeOK, Events

LEMMA LoopTypesNext ==
  ASSUME TypeOK', pc' \in {"batch", "polling", "interrupted"}, ready' \subseteq PolledFds,
         batch' \in Seq(Events), backlog' \subseteq Clients,
         signalled' \in BOOLEAN, shouldExit' \in BOOLEAN,
         unread' \in [Clients -> 0..MaxUnread],
         closed' \in [Clients -> BOOLEAN], acked' \in [Clients -> BOOLEAN],
         quit' \in [Clients -> BOOLEAN], wants' \in [Clients -> BOOLEAN],
         left' \in [Clients -> BOOLEAN], dropped' \in [Clients -> BOOLEAN]
  PROVE  LoopTypeOK'
  BY DEF LoopTypeOK, Events

\* Whose a descriptor is: the two of a live client are its own, and nobody has the
\* listening socket or the signal descriptor.
LEMMA Owners ==
  ASSUME TimerInv, NEW c \in Live
  PROVE  /\ fdOf[c] \in Fds /\ timerOf[c] \in Fds /\ fdOf[c] # timerOf[c]
         /\ Owner(fdOf[c]) = {c} /\ Owner(timerOf[c]) = {}
         /\ Concerned(fdOf[c]) = {c} /\ Concerned(timerOf[c]) = {c}
         /\ timerMap[fdOf[c]] = NoFd /\ timerMap[timerOf[c]] = fdOf[c]
         /\ fdOf[c] # NoFd /\ fdOf[c] # ListenFd /\ fdOf[c] # SignalFd
         /\ timerOf[c] # ListenFd /\ timerOf[c] # SignalFd
<1>1. fdOf[c] \in Fds /\ timerOf[c] \in Fds /\ timerMap[timerOf[c]] = fdOf[c]
  BY DEF TimerInv, Pairs, Socket, Entries
<1>2. \A d \in Live : /\ fdOf[c] # timerOf[d]
                      /\ c # d => fdOf[c] # fdOf[d] /\ timerOf[c] # timerOf[d]
                      /\ timerOf[c] # fdOf[d]
  BY InvNothingLeaks DEF NothingLeaks
<1>3. timerMap[fdOf[c]] = NoFd
  BY InvInputNotTaken DEF InputNotTaken
<1> QED
  BY <1>1, <1>2, <1>3, TimerAssumption, LoopAssumption DEF Owner, Concerned

LEMMA NobodysFds ==
  ASSUME TimerInv, NEW f \in {ListenFd, SignalFd}
  PROVE  Owner(f) = {} /\ Concerned(f) = {} /\ f \notin Fds
<1>1. f \notin Fds
  BY LoopAssumption
<1> QED
  BY <1>1, Owners DEF Owner, Concerned

\* What depends on the clients' descriptors only.
LEMMA SameOwners ==
  ASSUME UNCHANGED <<conn, fdOf, timerOf, timerMap>>
  PROVE  /\ Live' = Live /\ \A f : Owner(f)' = Owner(f)
         /\ \A e : Own(e)' = Own(e) /\ Reaches(e)' = Reaches(e)
  BY DEF Live, Owner, Own, Reaches

\* ReadyAfter, the last conjunct of most handlers.
LEMMA ReadyIsSo ==
  ASSUME NEW list, NEW half, ReadyAfter(list, half)
  PROVE  /\ ready' \subseteq list /\ ReadyHolds'
         /\ dropped' \in [Clients -> BOOLEAN] /\ left' \in [Clients -> BOOLEAN]
         /\ \A f \in list : (Readable(f) \/ Writable(f))' => f \in ready'
         /\ \A c \in Clients : dropped[c] /\ c \in Live' => dropped'[c] \/ fdOf'[c] \in ready'
         /\ \A c \in Clients : /\ left[c] \/ c \in half
                               /\ c \in Live'
                               => left'[c] \/ fdOf'[c] \in ready'
  BY DEF ReadyAfter, ReadyHolds

\* What a client's peer has sent makes its socket readable, what it is to be sent
\* writable.
LEMMA HoldsAt ==
  ASSUME NEW f, NEW c \in Owner(f)', unread'[c] > 0 \/ closed'[c] \/ wants'[c]
  PROVE  (Readable(f) \/ Writable(f))'
  BY DEF Readable, Writable, Unread, Owner

\* The first event of a batch, and what becomes of the batch: the event is over, or
\* goes on to its EPOLLOUT branch.
LEMMA BatchParts ==
  ASSUME LoopTypeOK, BatchInv, batch # <<>>
  PROVE  /\ Head(batch) = batch[1] /\ batch[1] \in Events
         /\ 1 \in DOMAIN batch /\ DOMAIN batch = 1..Len(batch) /\ Len(batch) \in {1, 2}
         /\ Tail(batch) \in Seq(Events) /\ Len(Tail(batch)) = Len(batch) - 1
         /\ Len(batch) = 2 => batch[2] \in Events /\ Tail(batch)[1] = batch[2]
         /\ DOMAIN Tail(batch) = 1..Len(batch) - 1
<1>1. batch \in Seq(Events)
  BY LoopTypes
<1>2. Len(batch) \in Nat \ {0} /\ DOMAIN batch = 1..Len(batch)
  BY <1>1, EmptySeq, LenProperties
<1>3. Len(batch) \in {1, 2} /\ 1 \in 1..Len(batch)
  BY <1>2 DEF BatchInv
<1>4. Head(batch) = batch[1]
  BY <1>1, <1>3
<1>5. \A i \in 1..Len(batch) : batch[i] \in Events
  BY <1>1, ElementOfSeq
<1>6. /\ Tail(batch) \in Seq(Events) /\ Len(Tail(batch)) = Len(batch) - 1
      /\ \A i \in 1..Len(Tail(batch)) : Tail(batch)[i] = batch[i + 1]
  BY <1>1, HeadTailProperties
<1>7. DOMAIN Tail(batch) = 1..Len(batch) - 1
  BY <1>6, LenProperties
<1>8. Len(batch) = 2 => batch[2] \in Events /\ Tail(batch)[1] = batch[2]
  BY <1>5, <1>6
<1> QED
  BY <1>2, <1>3, <1>4, <1>5, <1>6, <1>7, <1>8

LEMMA Replaced ==
  ASSUME NEW S, NEW seq \in Seq(S), NEW i \in 1..Len(seq), NEW e \in S,
         NEW t, t = [seq EXCEPT ![i] = e]
  PROVE  t \in Seq(S) /\ Len(t) = Len(seq)
  BY ExceptSeq

LEMMA TailBatch ==
  ASSUME LoopTypeOK, BatchInv, batch # <<>>, batch' = Tail(batch), pc' = "batch",
         \A e : Len(batch) = 2 /\ e = batch[2] => Reaches(e)'
  PROVE  BatchInv'
<1>1. /\ DOMAIN batch' = 1..Len(batch) - 1 /\ Len(batch') = Len(batch) - 1
      /\ Len(batch) \in {1, 2}
      /\ Len(batch) = 2 => batch'[1] = batch[2]
  BY BatchParts
<1>2. \A i \in DOMAIN batch' : i = 1 /\ Len(batch) = 2
  <2>1. CASE Len(batch) = 1
    BY <1>1, <2>1
  <2>2. CASE Len(batch) = 2
    BY <1>1, <2>2
  <2> QED
    BY <1>1, <2>1, <2>2
<1>3. \A i \in DOMAIN batch' : Reaches(batch[i])'
  BY <1>1, <1>2 DEF Reaches
<1> QED
  BY <1>1, <1>2, <1>3 DEF BatchInv

LEMMA OffBatch ==
  ASSUME LoopTypeOK, BatchInv, batch # <<>>, batch' = [batch EXCEPT ![1].in = FALSE],
         pc' = "batch", \A e : Len(batch) = 2 /\ e = batch[2] => Reaches(e)'
  PROVE  /\ BatchInv' /\ batch' \in Seq(Events)
         /\ DOMAIN batch' = DOMAIN batch /\ ~batch'[1].in
         /\ batch'[1].fd = batch[1].fd /\ batch'[1].out = batch[1].out
         /\ Len(batch) = 2 => batch'[2] = batch[2]
<1> DEFINE e1 == [batch[1] EXCEPT !.in = FALSE]
<1>1. batch \in Seq(Events) /\ 1 \in 1..Len(batch) /\ Len(batch) \in {1, 2}
  BY LoopTypes, BatchParts
<1>2. e1 \in Events /\ ~e1.in /\ e1.fd = batch[1].fd /\ e1.out = batch[1].out
  BY BatchParts DEF Events
<1>3. batch' = [batch EXCEPT ![1] = e1]
  OBVIOUS
<1> HIDE DEF e1
<1>4. /\ batch' \in Seq(Events) /\ Len(batch') = Len(batch)
      /\ \A j \in 1..Len(batch) : batch'[j] = IF j = 1 THEN e1 ELSE batch[j]
  <2>1. e1 \in Events
    BY <1>2
  <2>2. PICK e \in Events : e = e1
    BY <2>1
  <2>3. batch \in Seq(Events)
    BY <1>1
  <2>4. 1 \in 1..Len(batch)
    BY <1>1
  <2>5. batch' = [batch EXCEPT ![1] = e]
    BY <1>3, <2>2
  <2>6. batch' \in Seq(Events)
    BY <2>3, <2>4, <2>5, Replaced
  <2>7. Len(batch') = Len(batch)
    BY <2>3, <2>4, <2>5, Replaced
  <2>8. \A j \in 1..Len(batch) : batch'[j] = IF j = 1 THEN e ELSE batch[j]
    <3>1. batch \in [1..Len(batch) -> Events]
      BY <2>3, LenProperties
    <3> QED
      BY <2>4, <2>5, <3>1
  <2> QED
    BY <2>2, <2>6, <2>7, <2>8
<1>5. DOMAIN batch' = 1..Len(batch) /\ DOMAIN batch = 1..Len(batch)
  BY <1>1, <1>4, LenProperties
<1>6. batch'[1] = e1 /\ (Len(batch) = 2 => batch'[2] = batch[2])
  BY <1>1, <1>4
<1>7. \A i \in DOMAIN batch' : i = 1 \/ (i = 2 /\ Len(batch) = 2)
  BY <1>1, <1>5
<1>8. \A i \in DOMAIN batch' : Reaches(batch[i])'
  BY <1>2, <1>6, <1>7 DEF Reaches
<1>9. \A i, j \in DOMAIN batch' : batch'[i].fd = batch'[j].fd => i = j
  <2>1. \A i \in DOMAIN batch' : batch'[i].fd = batch[i].fd
    BY <1>2, <1>6, <1>7
  <2> QED
    BY <1>5, <2>1 DEF BatchInv
<1> QED
  BY <1>1, <1>2, <1>4, <1>5, <1>6, <1>8, <1>9 DEF BatchInv

LEMMA SameBatch ==
  ASSUME BatchInv, batch' = batch, pc' # "batch" => up' /\ batch = <<>>,
         UNCHANGED <<conn, fdOf, timerOf, timerMap>>
  PROVE  BatchInv'
<1>1. \A i \in DOMAIN batch : Reaches(batch[i])'
  <2>1. \A e : Reaches(e)' = Reaches(e)
    BY SameOwners
  <2> QED
    BY <2>1 DEF BatchInv, Reaches
<1>2. Len(batch) = 2 /\ batch[1].in => Own(batch[2])'
  <2>1. \A e : Own(e)' = Own(e)
    BY SameOwners
  <2> QED
    BY <2>1 DEF BatchInv, Own
<1> QED
  BY <1>1, <1>2 DEF BatchInv

-----------------------------------------------------------------------------
(* Timers stay idle, and a timeout is the end.                               *)

LEMMA CheckTimerCrashes ==
  ASSUME TimerInv, TimersIdle, NEW c \in Clients, NEW t \in Fds, CheckTimer(c, t)
  PROVE  Crash
<1>1. failed[c] # 3
  BY DEF TimersIdle
<1>2. c \in Live /\ timerMap[t] = fdOf[c] /\ fdOf[c] # NoFd
  BY Owners DEF CheckTimer
<1>3. ~ \E d \in Live : fdOf[d] = t
  BY <1>2, Owners
<1> QED
  BY <1>1, <1>3 DEF CheckTimer

LEMMA IdleInit == Init => TimersIdle
  BY DEF Init, TimersIdle

LEMMA IdleStep == TimerInv /\ TimersIdle /\ [Next]_vars => TimersIdle'
<1> SUFFICES ASSUME TimerInv, TimersIdle, [Next]_vars PROVE TimersIdle'
  OBVIOUS
<1>1. CASE Crash
  BY <1>1 DEF Crash, TimersIdle, Live
<1>2. ASSUME NEW c \in Clients, Accept(c) PROVE TimersIdle'
  <2>1. \A d \in Live : d \in Live' /\ timerOf'[d] = timerOf[d]
    BY <1>2 DEF Accept, Live, TimerInv, TypeOK
  <2> QED
    BY <1>2, <2>1 DEF Accept, TimersIdle
<1>3. ASSUME NEW c \in Clients, RemoveClient(c) PROVE TimersIdle'
  <2>1. \A d \in Live : d = c \/ (d \in Live' /\ timerOf'[d] = timerOf[d])
    BY <1>3 DEF RemoveClient, Removed, Destroyed, Live, TimerInv, TypeOK
  <2> QED
    BY <1>3, <2>1 DEF RemoveClient, Removed, Destroyed, TimersIdle, TimerInv, TypeOK
<1>4. ASSUME NEW c \in Clients, Expire(c) PROVE TimersIdle'
  BY <1>4 DEF Expire, TimersIdle, Live
<1>5. ASSUME NEW c \in Clients, KeepAlive(c) PROVE TimersIdle'
  <2>1. CASE TimersTo(fdOf[c]) # {}
    <3>1. failed' = [failed EXCEPT ![c] = 0] /\ expired' \subseteq expired
      BY <1>5, <2>1 DEF KeepAlive, ResetFullTimer
    <3>2. Live' = Live /\ timerOf' = timerOf
      BY <1>5, <2>1 DEF KeepAlive, ResetFullTimer, Live
    <3> QED
      BY <3>1, <3>2 DEF TimersIdle, TimerInv, TypeOK
  <2> QED
    BY <1>1, <1>5, <2>1 DEF KeepAlive, ResetFullTimer
<1>6. CASE ShutDown
  BY <1>6 DEF ShutDown, TimersIdle
<1>7. ASSUME NEW c \in Clients, NEW t \in Fds, CheckTimer(c, t) PROVE TimersIdle'
  BY <1>1, <1>7, CheckTimerCrashes
<1>8. CASE UNCHANGED vars
  BY <1>8 DEF vars, TimersIdle, Live
<1>9. ASSUME NEW c \in Clients, AcceptWithoutTimer(c) PROVE TimersIdle'
  <2>1. Live' = Live
    BY <1>9 DEF AcceptWithoutTimer, Live, TimerInv, TypeOK
  <2> QED
    BY <1>9, <2>1 DEF AcceptWithoutTimer, TimersIdle
<1> QED
  BY <1>1, <1>2, <1>3, <1>4, <1>5, <1>6, <1>7, <1>8, <1>9 DEF Next

\* checkTimers never sends a ping and never removes a client: for any number of clients
\* and descriptors, each timeout that reaches it ends the server.
THEOREM TimeoutsEndIt ==
  Spec => [][\A c \in Clients, t \in Fds : CheckTimer(c, t) => ~up']_vars
<1>1. TimerInv /\ TimersIdle => \A c \in Clients, t \in Fds : CheckTimer(c, t) => ~up'
  BY CheckTimerCrashes DEF Crash
<1> QED
  BY <1>1, TimerInitInv, TimerStepInv, IdleInit, IdleStep, PTL DEF Spec

-----------------------------------------------------------------------------
(* What a handler keeps.                                                     *)

\* The process is gone.
LEMMA EndedInv ==
  ASSUME TimerInv', TimersIdle', Ended, ~up'
  PROVE  LoopInv'
<1>1. LoopTypeOK'
  <2>1. TypeOK' /\ 0 \in 0..MaxUnread
    BY LoopAssumption DEF TimerInv
  <2>2. <<>> \in Seq(Events)
    BY EmptySeq
  <2>3. unread' \in [Clients -> 0..MaxUnread]
    BY <2>1 DEF Ended
  <2>4. Nobody \in [Clients -> BOOLEAN]
    BY DEF Nobody
  <2> QED
    BY <2>1, <2>2, <2>3, <2>4, LoopTypesNext DEF Ended
<1>2. PeersInv' /\ ReadyHolds' /\ NoticedInv'
  BY DEF Ended, Nobody, PeersInv, ReadyHolds, NoticedInv
<1>3. BatchInv'
  <2>1. Len(<<>>) = 0 /\ DOMAIN <<>> = {}
    OBVIOUS
  <2> QED
    BY <2>1 DEF Ended, BatchInv
<1> QED
  BY <1>1, <1>2, <1>3 DEF LoopInv

\* c's events of kind w in the batch are still in it.
Keeps(c, w) ==
  \A i \in DOMAIN batch : batch[i].fd = fdOf[c] /\ batch[i][w] =>
    \E j \in DOMAIN batch' : batch'[j].fd = fdOf[c] /\ batch'[j][w]

LEMMA TailKeeps ==
  ASSUME LoopTypeOK, BatchInv, batch # <<>>, batch' = Tail(batch), NEW d, NEW w,
         Head(batch).fd = fdOf[d] => ~Head(batch)[w]
  PROVE  Keeps(d, w)
<1> SUFFICES ASSUME NEW i \in DOMAIN batch, batch[i].fd = fdOf[d] /\ batch[i][w]
             PROVE  \E j \in DOMAIN batch' : batch'[j].fd = fdOf[d] /\ batch'[j][w]
  BY DEF Keeps
<1>1. Head(batch) = batch[1] /\ i \in 1..Len(batch) /\ Len(batch) \in {1, 2}
  BY BatchParts
<1>2. i = 2 /\ Len(batch) = 2
  BY <1>1
<1>3. 1 \in DOMAIN batch' /\ batch'[1] = batch[2]
  BY <1>2, BatchParts
<1> QED
  BY <1>2, <1>3

LEMMA OffKeeps ==
  ASSUME LoopTypeOK, BatchInv, batch # <<>>, batch' = [batch EXCEPT ![1].in = FALSE],
         pc' = "batch", \A e : Len(batch) = 2 /\ e = batch[2] => Reaches(e)',
         NEW d, NEW w, w = "out" \/ Head(batch).fd # fdOf[d]
  PROVE  Keeps(d, w)
<1> SUFFICES ASSUME NEW i \in DOMAIN batch, batch[i].fd = fdOf[d] /\ batch[i][w]
             PROVE  \E j \in DOMAIN batch' : batch'[j].fd = fdOf[d] /\ batch'[j][w]
  BY DEF Keeps
<1>1. Head(batch) = batch[1] /\ i \in 1..Len(batch) /\ Len(batch) \in {1, 2}
  BY BatchParts
<1>2. /\ DOMAIN batch' = DOMAIN batch /\ batch'[1].fd = batch[1].fd
      /\ batch'[1].out = batch[1].out
  BY OffBatch
<1>3. CASE i = 1
  BY <1>1, <1>2, <1>3
<1>4. CASE i = 2
  <2>1. Len(batch) = 2
    BY <1>1, <1>4
  <2> QED
    BY <1>2, <1>4, <2>1, OffBatch
<1> QED
  BY <1>1, <1>3, <1>4

\* Both at once: the EPOLLIN branch is over.
LEMMA InDoneBatch ==
  ASSUME LoopTypeOK, BatchInv, batch # <<>>, InDone, pc = "batch",
         \A e : Len(batch) = 2 /\ e = batch[2] => Reaches(e)'
  PROVE  /\ BatchInv' /\ batch' \in Seq(Events)
         /\ \A d, w : /\ w = "out" => Keeps(d, w)
                      /\ w \in {"in", "out"} /\ Head(batch).fd # fdOf[d] => Keeps(d, w)
<1>1. CASE Head(batch).out
  BY <1>1, OffBatch, OffKeeps DEF InDone
<1>2. CASE ~Head(batch).out
  BY <1>2, TailBatch, TailKeeps, BatchParts DEF InDone
<1> QED
  BY <1>1, <1>2

\* The client d, its socket and its marks stay, and an event that was to come is to come.
LEMMA NoticedKept ==
  ASSUME NEW d, Noticed(d), fdOf'[d] = fdOf[d],
         quit'[d] = quit[d], acked'[d] = acked[d],
         Waits(d)' => Waits(d) \/ fdOf[d] \in ready',
         wants[d] => wants'[d], wants'[d] => wants[d] \/ fdOf[d] \in ready',
         dropped[d] => dropped'[d] \/ fdOf[d] \in ready',
         fdOf[d] \in ready /\ (Waits(d)' \/ wants'[d]) => fdOf[d] \in ready',
         Keeps(d, "in"), Keeps(d, "out")
  PROVE  Noticed(d)'
<1>1. CASE fdOf[d] \in ready'
  BY <1>1 DEF Noticed, Pending
<1>2. CASE fdOf[d] \notin ready'
  <2>1. ASSUME Pending(d, "in"), Waits(d)' \/ wants'[d] PROVE Pending(d, "in")'
    BY <1>2, <2>1 DEF Pending, Keeps
  <2>2. ASSUME Pending(d, "out"), Waits(d)' \/ wants'[d] PROVE Pending(d, "out")'
    BY <1>2, <2>2 DEF Pending, Keeps
  <2> QED
    BY <1>2, <2>1, <2>2 DEF Noticed
<1> QED
  BY <1>1, <1>2

\* A socket epoll is to look at, with input or output, is on the list.
LEMMA SocketListed ==
  ASSUME NEW list, NEW half, ReadyAfter(list, half), NEW f \in list, NEW d \in Owner(f)',
         Waits(d)' \/ wants'[d]
  PROVE  f \in ready'
<1>1. unread'[d] > 0 \/ closed'[d] \/ wants'[d]
  BY DEF Waits
<1> QED
  BY <1>1, HoldsAt, ReadyIsSo

LEMMA NoticedByList ==
  ASSUME NEW list, NEW half, ReadyAfter(list, half), NEW d \in Live, d \in Live', Noticed(d),
         fdOf'[d] = fdOf[d], fdOf[d] \in ready => fdOf[d] \in list,
         quit'[d] = quit[d], acked'[d] = acked[d],
         unread'[d] = unread[d], closed'[d] = closed[d],
         wants[d] => wants'[d], wants'[d] => wants[d] \/ fdOf[d] \in list,
         Keeps(d, "in"), Keeps(d, "out")
  PROVE  Noticed(d)'
<1>1. d \in Clients /\ d \in Owner(fdOf[d])'
  BY DEF Owner, Live
<1>2. fdOf[d] \in list /\ (Waits(d)' \/ wants'[d]) => fdOf[d] \in ready'
  BY <1>1, SocketListed
<1>3. dropped[d] => dropped'[d] \/ fdOf[d] \in ready'
  BY <1>1, ReadyIsSo
<1>4. left[d] => left'[d] \/ fdOf[d] \in ready'
  BY <1>1, ReadyIsSo
<1>5. Waits(d)' => Waits(d) \/ fdOf[d] \in ready'
  BY <1>4 DEF Waits
<1> QED
  BY <1>2, <1>3, <1>5, NoticedKept

\* A step that reports nothing new to the peers' sockets and takes nothing from them.
LEMMA ReadyHoldsStill ==
  ASSUME ReadyHolds, UNCHANGED <<conn, fdOf, unread, closed, wants>>,
         backlog \subseteq backlog', expired \subseteq expired',
         signalled => signalled' \/ SignalFd \notin ready',
         \A f \in ready' : f \in ready \/ Readable(f)'
  PROVE  ReadyHolds'
<1> SUFFICES ASSUME NEW f \in ready', f \in ready PROVE (Readable(f) \/ Writable(f))'
  BY DEF ReadyHolds
<1>1. Owner(f)' = Owner(f) /\ Unread' = Unread
  BY DEF Owner, Unread, Live
<1>2. Readable(f) \/ Writable(f)
  BY DEF ReadyHolds
<1> QED
  BY <1>1, <1>2 DEF Readable, Writable

LEMMA NoticedStill ==
  ASSUME NoticedInv, up, UNCHANGED <<conn, fdOf, peerVars>>,
         \A d \in Live : fdOf[d] \in ready => fdOf[d] \in ready',
         \A d \in Live : Keeps(d, "in") /\ Keeps(d, "out")
  PROVE  NoticedInv'
<1> SUFFICES ASSUME NEW d \in Live PROVE Noticed(d)'
  <2>1. Live' = Live
    BY DEF Live
  <2> QED
    BY <2>1 DEF NoticedInv
<1> QED
  BY NoticedKept DEF NoticedInv, Waits, peerVars

LEMMA SameKeeps ==
  ASSUME batch' = batch, NEW d PROVE Keeps(d, "in") /\ Keeps(d, "out")
  BY DEF Keeps

LEMMA PeersStill ==
  ASSUME PeersInv, UNCHANGED <<conn, up, peerVars>>
  PROVE  PeersInv'
  BY DEF PeersInv, peerVars, Live

-----------------------------------------------------------------------------
(* The steps of the loop and of the others, given what Timers keeps.          *)

Given == LoopInv /\ TimerInv' /\ TimersIdle'

LEMMA GivenParts ==
  ASSUME Given
  PROVE  /\ TimerInv /\ LoopTypeOK /\ TimersIdle /\ PeersInv /\ ReadyHolds /\ BatchInv
         /\ NoticedInv /\ TypeOK'
  BY DEF Given, LoopInv, TimerInv

LEMMA SecondReaches ==
  ASSUME LoopTypeOK, BatchInv, batch # <<>>, UNCHANGED <<conn, fdOf, timerOf, timerMap>>
  PROVE  \A e : Len(batch) = 2 /\ e = batch[2] => Reaches(e)'
<1>1. Len(batch) = 2 => 2 \in DOMAIN batch
  BY BatchParts
<1> QED
  BY <1>1, SameOwners DEF BatchInv

\* A step that does nothing to any client.
LEMMA QuietStep ==
  ASSUME Given, up, up' = up, UNCHANGED <<conn, fdOf, timerOf, timerMap, peerVars>>,
         pc' \in {"batch", "polling", "interrupted"}, BatchInv', batch' \in Seq(Events),
         backlog \subseteq backlog', backlog' \subseteq Clients,
         expired \subseteq expired', signalled' \in BOOLEAN, shouldExit' \in BOOLEAN,
         signalled => signalled' \/ SignalFd \notin ready',
         \A f \in ready' : f \in PolledFds /\ (f \in ready \/ Readable(f)'),
         \A d \in Live : fdOf[d] \in ready => fdOf[d] \in ready',
         \A d \in Live : Keeps(d, "in") /\ Keeps(d, "out")
  PROVE  LoopInv'
<1>1. LoopTypeOK'
  <2>1. UNCHANGED <<unread, closed, acked, quit, wants, left, dropped>>
    BY DEF peerVars
  <2> QED
    BY <2>1, GivenParts, LoopTypes, LoopTypesNext
<1>2. PeersInv'
  BY GivenParts, PeersStill
<1>3. ReadyHolds'
  BY GivenParts, ReadyHoldsStill DEF peerVars
<1>4. NoticedInv'
  BY GivenParts, NoticedStill
<1> QED
  BY <1>1, <1>2, <1>3, <1>4 DEF Given, LoopInv

LEMMA SocketsAreOthers ==
  ASSUME TimerInv, NEW d \in Live
  PROVE  fdOf[d] # ListenFd /\ fdOf[d] # SignalFd
  BY Owners

\* A step that leaves the batch alone, too.
LEMMA AroundBatch ==
  ASSUME Given, up, up' = up, UNCHANGED <<conn, fdOf, timerOf, timerMap, peerVars, batch>>,
         pc' \in {"batch", "polling", "interrupted"},
         pc' # "batch" => batch = <<>>,
         backlog \subseteq backlog', backlog' \subseteq Clients,
         expired \subseteq expired', signalled' \in BOOLEAN, shouldExit' \in BOOLEAN,
         signalled => signalled' \/ SignalFd \notin ready',
         \A f \in ready' : f \in PolledFds /\ (f \in ready \/ Readable(f)'),
         ready \ {SignalFd} \subseteq ready'
  PROVE  LoopInv'
<1>1. BatchInv' /\ batch' \in Seq(Events)
  BY GivenParts, LoopTypes, SameBatch
<1>2. \A d \in Live : fdOf[d] \in ready => fdOf[d] \in ready'
  BY GivenParts, SocketsAreOthers
<1>3. \A d \in Live : Keeps(d, "in") /\ Keeps(d, "out")
  BY SameKeeps
<1> QED
  BY <1>1, <1>2, <1>3, QuietStep

LEMMA OthersQuiet ==
  ASSUME Given,
         \/ Again \/ Interrupt \/ SignalArrives \/ (Interrupted /\ signalled)
         \/ \E c \in Clients : PeerConnects(c) \/ TimerExpires(c)
  PROVE  LoopInv'
<1> USE GivenParts
<1>1. /\ pc \in {"batch", "polling", "interrupted"} /\ ready \subseteq PolledFds
      /\ backlog \subseteq Clients /\ signalled \in BOOLEAN /\ shouldExit \in BOOLEAN
      /\ pc # "batch" => up /\ batch = <<>>
  BY DEF LoopTypeOK, BatchInv
<1>2. CASE Again
  BY <1>1, <1>2, AroundBatch DEF Again, vars
<1>3. CASE Interrupt
  BY <1>1, <1>3, AroundBatch DEF Interrupt, vars
<1>4. CASE SignalArrives
  <2>1. Readable(SignalFd)'
    BY <1>4 DEF SignalArrives, Readable
  <2> QED
    BY <1>1, <1>4, <2>1, AroundBatch DEF SignalArrives, vars, PolledFds
<1>5. CASE Interrupted /\ signalled
  BY <1>1, <1>5, AroundBatch DEF Interrupted, vars
<1>6. ASSUME NEW c \in Clients, PeerConnects(c) PROVE LoopInv'
  <2>1. Readable(ListenFd)'
    BY <1>6 DEF PeerConnects, Readable
  <2> QED
    BY <1>1, <1>6, <2>1, AroundBatch DEF PeerConnects, vars, PolledFds
<1>7. ASSUME NEW c \in Clients, TimerExpires(c) PROVE LoopInv'
  <2>1. Readable(timerOf[c])' /\ timerOf[c] \in PolledFds
    BY <1>7, Owners DEF TimerExpires, Expire, Readable, PolledFds
  <2> QED
    BY <1>1, <1>7, <2>1, AroundBatch DEF TimerExpires, Expire
<1> QED
  BY <1>2, <1>3, <1>4, <1>5, <1>6, <1>7

\* An event that changes nothing but the batch, and is about no client's socket.
LEMMA EventPasses ==
  ASSUME Given, up, batch # <<>>, pc = "batch", EventDone, UNCHANGED <<vars, ready, peerVars>>,
         \A d \in Live : Head(batch).fd # fdOf[d]
  PROVE  LoopInv'
<1> USE GivenParts
<1>1. UNCHANGED <<conn, fdOf, timerOf, timerMap, expired, up>>
  BY DEF vars
<1>2. BatchInv' /\ batch' \in Seq(Events)
  BY <1>1, SecondReaches, TailBatch, BatchParts DEF EventDone
<1>3. \A d \in Live : Keeps(d, "in") /\ Keeps(d, "out")
  BY TailKeeps DEF EventDone
<1>4. /\ pc' = "batch" /\ backlog' = backlog /\ signalled' = signalled
      /\ shouldExit' = shouldExit /\ ready' = ready
  BY DEF EventDone
<1>5. /\ ready \subseteq PolledFds /\ backlog \subseteq Clients
      /\ signalled \in BOOLEAN /\ shouldExit \in BOOLEAN
  BY DEF LoopTypeOK
<1> QED
  BY <1>1, <1>2, <1>3, <1>4, <1>5, QuietStep

LEMMA PassingInv ==
  ASSUME Given, AcceptFails \/ OutStale \/ \E t \in Fds : StaleTimerEvent(t)
  PROVE  LoopInv'
<1> USE GivenParts
<1>1. CASE AcceptFails
  BY <1>1, SocketsAreOthers, EventPasses DEF AcceptFails, InEvent, Current
<1>2. CASE OutStale
  <2>1. \A d \in Live : Head(batch).fd # fdOf[d]
    BY <1>2 DEF OutStale, Owner
  <2> QED
    BY <1>2, <2>1, EventPasses DEF OutStale, OutEvent, Current
<1>3. ASSUME NEW t \in Fds, StaleTimerEvent(t) PROVE LoopInv'
  <2>1. \A d \in Live : t # fdOf[d]
    BY <1>3, Owners DEF StaleTimerEvent
  <2> QED
    BY <1>3, <2>1, EventPasses DEF StaleTimerEvent, InEvent, Current
<1> QED
  BY <1>1, <1>2, <1>3

LEMMA PendingKept ==
  ASSUME NEW c, NEW w, Pending(c, w), fdOf'[c] = fdOf[c],
         fdOf[c] \in ready => fdOf[c] \in ready', Keeps(c, w)
  PROVE  Pending(c, w)'
  BY DEF Pending, Keeps

\* Whose turn it is, by the socket of the first event: nobody else's.
LEMMA HeadIsHis ==
  ASSUME TimerInv, NEW c \in Live, Head(batch).fd = fdOf[c]
  PROVE  \A d \in Live : d # c => Head(batch).fd # fdOf[d]
  BY Owners DEF Owner

\* Input that is not looked at: the client is still to be greeted, or is quitting, and
\* the event that matters is that of its EPOLLOUT.
LEMMA IgnoreInv ==
  ASSUME Given, NEW c \in Clients, Ignore(c)
  PROVE  LoopInv'
<1> USE GivenParts
<1>1. /\ up /\ c \in Live /\ pc = "batch" /\ batch # <<>> /\ Head(batch).fd = fdOf[c]
      /\ InDone /\ UNCHANGED <<vars, ready, peerVars>> /\ (~acked[c] \/ quit[c])
  BY DEF Ignore, ClientEvent, InEvent, Current
<1>2. UNCHANGED <<conn, fdOf, timerOf, timerMap, expired, up>>
  BY <1>1 DEF vars
<1>3. \A e : Len(batch) = 2 /\ e = batch[2] => Reaches(e)'
  BY <1>1, <1>2, SecondReaches
<1>4. BatchInv' /\ batch' \in Seq(Events)
  BY <1>1, <1>3, InDoneBatch
<1>5. /\ pc' = "batch" /\ backlog' = backlog /\ signalled' = signalled
      /\ shouldExit' = shouldExit /\ ready' = ready
  BY <1>1 DEF InDone
<1>6. LoopTypeOK'
  <2>1. UNCHANGED <<unread, closed, acked, quit, wants, left, dropped>>
    BY <1>1 DEF peerVars
  <2>2. /\ ready \subseteq PolledFds /\ backlog \subseteq Clients
        /\ signalled \in BOOLEAN /\ shouldExit \in BOOLEAN
    BY DEF LoopTypeOK
  <2> QED
    BY <1>4, <1>5, <2>1, <2>2, LoopTypes, LoopTypesNext
<1>7. PeersInv' /\ ReadyHolds'
  BY <1>1, <1>2, <1>5, PeersStill, ReadyHoldsStill DEF peerVars
<1>8. NoticedInv'
  <2> SUFFICES ASSUME NEW d \in Live PROVE Noticed(d)'
    BY <1>2 DEF NoticedInv, Live
  <2>1. Noticed(d)
    BY <1>1 DEF NoticedInv
  <2>2. CASE d # c
    <3>1. Keeps(d, "in") /\ Keeps(d, "out")
      BY <1>1, <1>3, <2>2, HeadIsHis, InDoneBatch
    <3> QED
      BY <1>1, <1>2, <1>5, <2>1, <3>1, NoticedKept DEF Waits, peerVars
  <2>3. CASE d = c
    <3>1. Keeps(c, "out")
      BY <1>1, <1>3, InDoneBatch
    <3>2. Pending(c, "out") => Pending(c, "out")'
      BY <1>2, <1>5, <3>1, PendingKept
    <3> QED
      BY <1>1, <2>1, <2>3, <3>2 DEF Noticed, Waits, peerVars
  <2> QED
    BY <2>2, <2>3
<1> QED
  BY <1>4, <1>6, <1>7, <1>8 DEF Given, LoopInv

\* A peer acts: its socket is on the list.
LEMMA PeerActsInv ==
  ASSUME Given, NEW c \in Clients, PeerActs(c)
  PROVE  LoopInv'
<1> USE GivenParts
<1> DEFINE list == ready \cup {fdOf[c]}
<1>1. /\ up /\ c \in Live /\ ReadyAfter(list, {})
      /\ UNCHANGED <<vars, pc, batch, backlog, signalled, shouldExit, acked, quit, wants>>
  BY DEF PeerActs, ReadyIs
<1>2. UNCHANGED <<conn, fdOf, timerOf, timerMap, expired, up>> /\ Live' = Live
  BY <1>1 DEF vars, Live
<1>3. /\ unread' \in [Clients -> 0..MaxUnread] /\ closed' \in [Clients -> BOOLEAN]
      /\ unread'[c] > 0 \/ closed'[c]
      /\ \A d \in Clients : d # c => unread'[d] = unread[d] /\ closed'[d] = closed[d]
  <2>1. unread \in [Clients -> 0..MaxUnread] /\ closed \in [Clients -> BOOLEAN]
    BY LoopTypes
  <2>2. CASE unread[c] < MaxUnread /\ unread' = [unread EXCEPT ![c] = @ + 1] /\ closed' = closed
    <3>1. unread[c] + 1 \in 0..MaxUnread /\ unread[c] + 1 > 0
      BY <2>1, <2>2, LoopAssumption
    <3> QED
      BY <2>1, <2>2, <3>1
  <2>3. CASE closed' = [closed EXCEPT ![c] = TRUE] /\ unread' = unread
    BY <2>1, <2>3
  <2> QED
    BY <2>2, <2>3 DEF PeerActs
<1>4. left' \in [Clients -> BOOLEAN] /\ dropped' \in [Clients -> BOOLEAN]
  BY <1>1, ReadyIsSo
<1>5. list \subseteq PolledFds
  BY <1>1, Owners DEF LoopTypeOK, PolledFds
<1> HIDE DEF list
<1>6. LoopTypeOK'
  <2>1. ready' \subseteq PolledFds
    BY <1>1, <1>5, ReadyIsSo
  <2>2. /\ pc \in {"batch", "polling", "interrupted"} /\ backlog \subseteq Clients
        /\ signalled \in BOOLEAN /\ shouldExit \in BOOLEAN
    BY DEF LoopTypeOK
  <2> QED
    BY <1>1, <1>3, <1>4, <2>1, <2>2, LoopTypes, LoopTypesNext
<1>7. PeersInv'
  BY <1>1, <1>2, <1>3 DEF PeersInv
<1>8. BatchInv'
  BY <1>1, <1>2, SameBatch DEF BatchInv
<1>9. NoticedInv'
  <2> SUFFICES ASSUME NEW d \in Live PROVE Noticed(d)'
    BY <1>2 DEF NoticedInv
  <2>1. Noticed(d) /\ Keeps(d, "in") /\ Keeps(d, "out")
    BY <1>1, SameKeeps DEF NoticedInv
  <2>2. CASE d # c
    <3>1. ReadyAfter(list, {}) /\ (fdOf[d] \in ready => fdOf[d] \in list)
      BY <1>1 DEF list
    <3>2. /\ d \in Live' /\ fdOf'[d] = fdOf[d] /\ quit'[d] = quit[d] /\ acked'[d] = acked[d]
          /\ wants'[d] = wants[d] /\ unread'[d] = unread[d] /\ closed'[d] = closed[d]
      BY <1>1, <1>2, <1>3, <2>2 DEF Live
    <3> QED
      BY <2>1, <3>1, <3>2, NoticedByList
  <2>3. CASE d = c
    <3>1. PICK f : f = fdOf[c]
      OBVIOUS
    <3>2. c \in Owner(f)' /\ f \in list
      BY <1>1, <1>2, <3>1 DEF Owner, list
    <3>3. (Readable(f) \/ Writable(f))'
      BY <1>3, <3>2, HoldsAt
    <3>4. fdOf[c] \in ready'
      BY <1>1, <3>1, <3>2, <3>3, ReadyIsSo
    <3> QED
      BY <1>1, <1>2, <2>1, <2>3, <3>4 DEF Noticed, Pending
  <2> QED
    BY <2>2, <2>3
<1> QED
  BY <1>1, <1>6, <1>7, <1>8, <1>9, ReadyIsSo DEF Given, LoopInv

\* send_message has sent all: the client may talk, and whatever input waits is reported
\* again as EPOLLOUT is taken back.
LEMMA FlushInv ==
  ASSUME Given, NEW c \in Clients, Flush(c)
  PROVE  LoopInv'
<1> USE GivenParts
<1> DEFINE list == ready \cup {fdOf[c]}
<1>1. /\ up /\ c \in Live /\ pc = "batch" /\ batch # <<>> /\ Head(batch).fd = fdOf[c]
      /\ EventDone /\ ReadyAfter(list, {}) /\ ~quit[c]
      /\ UNCHANGED <<vars, unread, closed, quit>>
      /\ acked' = [acked EXCEPT ![c] = TRUE] /\ wants' = [wants EXCEPT ![c] = FALSE]
  BY DEF Flush, OutEvent, Current, ReadyIs
<1>2. UNCHANGED <<conn, fdOf, timerOf, timerMap, expired, up>> /\ Live' = Live
  BY <1>1 DEF vars, Live
<1>3. /\ acked' \in [Clients -> BOOLEAN] /\ wants' \in [Clients -> BOOLEAN]
      /\ acked'[c] /\ ~wants'[c]
      /\ \A d \in Clients : d # c => acked'[d] = acked[d] /\ wants'[d] = wants[d]
  BY <1>1, LoopTypes
<1>4. \A e : Len(batch) = 2 /\ e = batch[2] => Reaches(e)'
  BY <1>1, <1>2, SecondReaches
<1>5. /\ batch' = Tail(batch) /\ pc' = "batch" /\ backlog' = backlog
      /\ signalled' = signalled /\ shouldExit' = shouldExit
  BY <1>1 DEF EventDone
<1>6. BatchInv' /\ batch' \in Seq(Events)
  BY <1>1, <1>4, <1>5, TailBatch, BatchParts
<1>7. list \subseteq PolledFds
  BY <1>1, Owners DEF LoopTypeOK, PolledFds
<1>8. ReadyAfter(list, {}) /\ fdOf[c] \in list /\ \A d : fdOf[d] \in ready => fdOf[d] \in list
  BY <1>1
<1> HIDE DEF list
<1>9. LoopTypeOK'
  <2>1. /\ ready' \subseteq PolledFds /\ dropped' \in [Clients -> BOOLEAN]
        /\ left' \in [Clients -> BOOLEAN]
    BY <1>7, <1>8, ReadyIsSo
  <2>2. backlog \subseteq Clients /\ signalled \in BOOLEAN /\ shouldExit \in BOOLEAN
    BY DEF LoopTypeOK
  <2> QED
    BY <1>1, <1>3, <1>5, <1>6, <2>1, <2>2, LoopTypes, LoopTypesNext
<1>10. PeersInv'
  BY <1>1, <1>2, <1>3 DEF PeersInv
<1>11. NoticedInv'
  <2> SUFFICES ASSUME NEW d \in Live PROVE Noticed(d)'
    BY <1>2 DEF NoticedInv
  <2>1. Noticed(d)
    BY <1>1 DEF NoticedInv
  <2>2. CASE d # c
    <3>1. Keeps(d, "in") /\ Keeps(d, "out")
      BY <1>1, <1>5, <2>2, HeadIsHis, TailKeeps
    <3>2. /\ d \in Live' /\ fdOf'[d] = fdOf[d] /\ quit'[d] = quit[d] /\ acked'[d] = acked[d]
          /\ wants'[d] = wants[d] /\ unread'[d] = unread[d] /\ closed'[d] = closed[d]
      BY <1>1, <1>2, <1>3, <2>2 DEF Live
    <3> QED
      BY <1>8, <2>1, <3>1, <3>2, NoticedByList
  <2>3. CASE d = c
    <3>1. PICK f : f = fdOf[c]
      OBVIOUS
    <3>2. c \in Owner(f)' /\ f \in list
      BY <1>1, <1>2, <1>8, <3>1 DEF Owner
    <3>3. Waits(c)' => fdOf[c] \in ready'
      BY <1>8, <3>1, <3>2, SocketListed
    <3> QED
      BY <1>1, <1>2, <1>3, <2>3, <3>3 DEF Noticed, Pending
  <2> QED
    BY <2>2, <2>3
<1> QED
  BY <1>6, <1>8, <1>9, <1>10, <1>11, ReadyIsSo DEF Given, LoopInv

\* One recv() and its commands: those who are told something have their sockets looked
\* at, unless they were to be written to anyhow.
LEMMA ReadInv ==
  ASSUME Given, NEW c \in Clients, Read(c)
  PROVE  LoopInv'
<1> USE GivenParts
<1>1. /\ up /\ c \in Live /\ pc = "batch" /\ batch # <<>> /\ Head(batch).fd = fdOf[c]
      /\ InDone /\ acked[c] /\ unread[c] > 0 /\ UNCHANGED <<closed, acked>>
      /\ unread' = [unread EXCEPT ![c] = @ - 1]
  BY DEF Read, ClientEvent, InEvent, Current
<1>2. PICK told \in SUBSET Live, leaves \in BOOLEAN :
        /\ leaves => c \in told
        /\ quit' = [quit EXCEPT ![c] = leaves]
        /\ wants' = [d \in Clients |-> wants[d] \/ d \in told]
        /\ ReadyAfter(ready \cup Told(told), {c} \cap Unread')
  BY DEF Read
<1> DEFINE list == ready \cup Told(told)
           half == {c} \cap Unread'
<1>3. UNCHANGED <<conn, fdOf, timerOf, timerMap, up>> /\ Live' = Live
  <2>1. TimersTo(fdOf[c]) # {}
    BY <1>1, InvOwnTimer DEF OwnTimer
  <2> QED
    BY <1>1, <2>1 DEF Read, KeepAlive, ResetFullTimer, vars, Live
<1>4. /\ unread' \in [Clients -> 0..MaxUnread]
      /\ \A d \in Clients : d # c => unread'[d] = unread[d]
  <2>1. unread \in [Clients -> 0..MaxUnread]
    BY LoopTypes
  <2>2. unread[c] - 1 \in 0..MaxUnread
    BY <1>1, <2>1, LoopAssumption
  <2> QED
    BY <1>1, <2>1, <2>2
<1>5. /\ quit' \in [Clients -> BOOLEAN] /\ wants' \in [Clients -> BOOLEAN]
      /\ quit'[c] => wants'[c]
      /\ \A d \in Clients : d # c => quit'[d] = quit[d]
      /\ \A d \in Clients : wants'[d] <=> wants[d] \/ d \in told
  BY <1>2, LoopTypes
<1>6. \A e : Len(batch) = 2 /\ e = batch[2] => Reaches(e)'
  BY <1>1, <1>3, SecondReaches
<1>7. BatchInv' /\ batch' \in Seq(Events)
  BY <1>1, <1>6, InDoneBatch
<1>8. /\ pc' = "batch" /\ backlog' = backlog
      /\ signalled' = signalled /\ shouldExit' = shouldExit
  BY <1>1 DEF InDone
<1>9. list \subseteq PolledFds
  BY Owners DEF LoopTypeOK, PolledFds, Told
<1>10. /\ ReadyAfter(list, half) /\ \A d : fdOf[d] \in ready => fdOf[d] \in list
       /\ \A d \in told : wants[d] \/ fdOf[d] \in list
       /\ Waits(c)' => c \in half
  BY <1>1, <1>2, <1>3 DEF Told, Waits, Unread
<1> HIDE DEF list, half
<1>11. LoopTypeOK'
  <2>1. /\ ready' \subseteq PolledFds /\ dropped' \in [Clients -> BOOLEAN]
        /\ left' \in [Clients -> BOOLEAN]
    BY <1>9, <1>10, ReadyIsSo
  <2>2. backlog \subseteq Clients /\ signalled \in BOOLEAN /\ shouldExit \in BOOLEAN
    BY DEF LoopTypeOK
  <2> QED
    BY <1>1, <1>4, <1>5, <1>7, <1>8, <2>1, <2>2, LoopTypes, LoopTypesNext
<1>12. PeersInv'
  <2>1. ASSUME NEW d \in Clients, d \notin Live
        PROVE  unread'[d] = 0 /\ ~closed'[d] /\ ~acked'[d] /\ ~quit'[d] /\ ~wants'[d]
    <3>1. d # c /\ d \notin told
      BY <1>1, <2>1
    <3> QED
      BY <1>1, <1>4, <1>5, <2>1, <3>1, Zenon DEF PeersInv
  <2>2. ASSUME NEW d \in Live, ~acked'[d] PROVE wants'[d]
    <3>1. d \in Clients /\ (~acked[d] => wants[d])
      BY <1>1, <2>2, Zenon DEF PeersInv, Live
    <3> QED
      BY <1>1, <1>5, <2>2, <3>1, Zenon
  <2> QED
    BY <1>3, <2>1, <2>2, Zenon DEF PeersInv
<1>13. NoticedInv'
  <2> SUFFICES ASSUME NEW d \in Live PROVE Noticed(d)'
    BY <1>3 DEF NoticedInv
  <2>1. Noticed(d) /\ d \in Clients
    BY <1>1 DEF NoticedInv, Live
  <2>2. CASE d # c
    <3>1. Keeps(d, "in") /\ Keeps(d, "out")
      BY <1>1, <1>6, <2>2, HeadIsHis, InDoneBatch
    <3>2. /\ d \in Live' /\ fdOf'[d] = fdOf[d] /\ quit'[d] = quit[d] /\ acked'[d] = acked[d]
          /\ unread'[d] = unread[d] /\ closed'[d] = closed[d]
      BY <1>1, <1>3, <1>4, <1>5, <2>1, <2>2
    <3>3. (wants[d] => wants'[d]) /\ (wants'[d] => wants[d] \/ fdOf[d] \in list)
      BY <1>5, <1>10, <2>1
    <3> QED
      BY <1>10, <2>1, <3>1, <3>2, <3>3, NoticedByList
  <2>3. CASE d = c
    <3>1. PICK f : f = fdOf[c]
      OBVIOUS
    <3>2. c \in Owner(f)'
      BY <1>1, <1>3, <3>1 DEF Owner
    <3>3. wants'[c] /\ f \in list => f \in ready'
      BY <1>10, <3>2, SocketListed
    <3>4. ASSUME wants'[c], ~dropped'[c] PROVE Pending(c, "out")'
      <4>1. CASE f \in ready'
        BY <1>3, <3>1, <4>1 DEF Pending
      <4>2. CASE f \notin ready'
        <5>1. wants[c] /\ f \notin ready
          BY <1>5, <1>10, <2>1, <2>3, <3>1, <3>3, <3>4, <4>2
        <5>2. ~dropped[c]
          BY <1>1, <1>3, <1>10, <2>1, <2>3, <3>1, <3>4, <4>2, ReadyIsSo
        <5>3. Pending(c, "out") /\ Keeps(c, "out")
          BY <1>1, <1>6, <2>1, <2>3, <5>1, <5>2, InDoneBatch DEF Noticed
        <5> QED
          BY <1>3, <3>1, <5>1, <5>3, PendingKept
      <4> QED
        BY <4>1, <4>2
    <3>5. Waits(c)' => fdOf'[c] \in ready'
      <4>1. c \in half /\ c \in Live' => left'[c] \/ fdOf'[c] \in ready'
        BY <1>10, <2>1, <2>3, ReadyIsSo
      <4> QED
        BY <1>1, <1>3, <1>10, <4>1 DEF Waits
    <3> QED
      BY <1>5, <2>3, <3>4, <3>5 DEF Noticed, Pending
  <2> QED
    BY <2>2, <2>3
<1> QED
  BY <1>7, <1>10, <1>11, <1>12, <1>13, ReadyIsSo DEF Given, LoopInv

-----------------------------------------------------------------------------
(* Clients go and come in the middle of a batch.                             *)

\* A client's removal takes its two descriptors and nobody else's.
LEMMA RemovedOthers ==
  ASSUME TimerInv, NEW c \in Clients, RemoveClient(c)
  PROVE  /\ c \in Live /\ Live' = Live \ {c} /\ timerMap' = timerMap
         /\ \A d \in Live' : fdOf'[d] = fdOf[d] /\ fdOf[d] # fdOf[c] /\ fdOf[d] # timerOf[c]
         /\ \A f : Owner(f)' = Owner(f) \ {c}
<1>1. c \in Live /\ Live' = Live \ {c} /\ timerMap' = timerMap
  BY DEF RemoveClient, Removed, Destroyed, Live, TimerInv, TypeOK
<1>2. \A d \in Live' : fdOf'[d] = fdOf[d]
  BY <1>1 DEF RemoveClient, Removed, Destroyed, Live, TimerInv, TypeOK
<1>3. \A d \in Live' : fdOf[d] # fdOf[c] /\ fdOf[d] # timerOf[c]
  BY <1>1, InvNothingLeaks DEF NothingLeaks
<1>4. \A f : Owner(f)' = Owner(f) \ {c}
  BY <1>1, <1>2 DEF Owner
<1> QED
  BY <1>1, <1>2, <1>3, <1>4

LEMMA RemovedReaches ==
  ASSUME TimerInv, NEW c \in Clients, RemoveClient(c), NEW e, Reaches(e), e.fd # fdOf[c]
  PROVE  Reaches(e)'
<1>1. c \notin Owner(e.fd)
  BY DEF Owner
<1>2. /\ Owner(e.fd)' = Owner(e.fd)
      /\ Owner(timerMap[e.fd])' \subseteq Owner(timerMap[e.fd])
  BY <1>1, RemovedOthers
<1>3. timerMap' = timerMap
  BY RemovedOthers
<1> QED
  BY <1>2, <1>3 DEF Reaches

\* The three ways to lose a client: recv() returns 0, a quitting client has its last
\* messages, send() fails.
LEMMA GoneInv ==
  ASSUME Given, NEW c \in Clients, RemoveClient(c), up, pc = "batch", batch # <<>>,
         Head(batch).fd = fdOf[c], InDone \/ EventDone,
         NEW told \in SUBSET (Live \ {c}), Gone(c, told)
  PROVE  LoopInv'
<1> USE GivenParts
<1> DEFINE list == (ready \ {fdOf[c], timerOf[c]}) \cup Told(told)
<1>1. c \in Live /\ Live' = Live \ {c} /\ up' = up
  BY RemovedOthers DEF RemoveClient
<1>2. \A d \in Live' : fdOf'[d] = fdOf[d] /\ fdOf[d] # fdOf[c] /\ fdOf[d] # timerOf[c]
  BY RemovedOthers
<1>3. /\ unread' = [unread EXCEPT ![c] = 0] /\ closed' = [closed EXCEPT ![c] = FALSE]
      /\ acked' = [acked EXCEPT ![c] = FALSE] /\ quit' = [quit EXCEPT ![c] = FALSE]
      /\ wants' = [d \in Clients |-> d # c /\ (wants[d] \/ d \in told)]
      /\ ReadyAfter(list, {})
  BY DEF Gone, ReadyIs
<1>4. /\ unread' \in [Clients -> 0..MaxUnread] /\ closed' \in [Clients -> BOOLEAN]
      /\ acked' \in [Clients -> BOOLEAN] /\ quit' \in [Clients -> BOOLEAN]
      /\ wants' \in [Clients -> BOOLEAN]
  <2>1. 0 \in 0..MaxUnread
    BY LoopAssumption
  <2> QED
    BY <1>3, <2>1, LoopTypes
<1>5. /\ unread'[c] = 0 /\ ~closed'[c] /\ ~acked'[c] /\ ~quit'[c] /\ ~wants'[c]
      /\ \A d \in Clients : d # c =>
           /\ unread'[d] = unread[d] /\ closed'[d] = closed[d] /\ acked'[d] = acked[d]
           /\ quit'[d] = quit[d]
           /\ wants'[d] <=> wants[d] \/ d \in told
  BY <1>3, LoopTypes
<1>6. \A e : Len(batch) = 2 /\ e = batch[2] => Reaches(e)'
  <2>1. Len(batch) = 2 => batch[2].fd # fdOf[c] /\ Reaches(batch[2])
    <3>1. Head(batch) = batch[1] /\ DOMAIN batch = 1..Len(batch)
      BY BatchParts
    <3> QED
      BY <3>1 DEF BatchInv
  <2> QED
    BY <2>1, RemovedReaches
<1>7. BatchInv' /\ batch' \in Seq(Events)
  BY <1>6, InDoneBatch, TailBatch, BatchParts DEF InDone, EventDone
<1>8. /\ pc' = "batch" /\ backlog' = backlog
      /\ signalled' = signalled /\ shouldExit' = shouldExit
  BY DEF InDone, EventDone
<1>9. list \subseteq PolledFds
  BY Owners DEF LoopTypeOK, PolledFds, Told
<1>10. /\ ReadyAfter(list, {}) /\ \A d \in Live' : fdOf[d] \in ready => fdOf[d] \in list
       /\ \A d \in told : wants[d] \/ fdOf[d] \in list
  BY <1>2, <1>3 DEF Told
<1> HIDE DEF list
<1>11. LoopTypeOK'
  <2>1. /\ ready' \subseteq PolledFds /\ dropped' \in [Clients -> BOOLEAN]
        /\ left' \in [Clients -> BOOLEAN]
    BY <1>9, <1>10, ReadyIsSo
  <2>2. backlog \subseteq Clients /\ signalled \in BOOLEAN /\ shouldExit \in BOOLEAN
    BY DEF LoopTypeOK
  <2> QED
    BY <1>4, <1>7, <1>8, <2>1, <2>2, LoopTypesNext
<1>12. PeersInv'
  <2>1. ASSUME NEW d \in Clients, d \notin Live'
        PROVE  unread'[d] = 0 /\ ~closed'[d] /\ ~acked'[d] /\ ~quit'[d] /\ ~wants'[d]
    <3>1. CASE d # c
      <4>1. d \notin Live /\ d \notin told
        BY <1>1, <2>1, <3>1
      <4> QED
        BY <1>5, <3>1, <4>1, Zenon DEF PeersInv
    <3> QED
      BY <1>5, <3>1, Zenon
  <2>2. ASSUME NEW d \in Live', ~acked'[d] PROVE wants'[d]
    <3>1. d \in Clients /\ d # c /\ (~acked[d] => wants[d])
      BY <1>1, <2>2, Zenon DEF PeersInv, Live
    <3> QED
      BY <1>5, <2>2, <3>1, Zenon
  <2> QED
    BY <2>1, <2>2, Zenon DEF PeersInv
<1>13. NoticedInv'
  <2> SUFFICES ASSUME NEW d \in Live' PROVE Noticed(d)'
    BY DEF NoticedInv
  <2>1. Noticed(d) /\ d \in Clients /\ d # c /\ d \in Live
    BY <1>1 DEF NoticedInv, Live
  <2>2. Keeps(d, "in") /\ Keeps(d, "out")
    <3>1. Head(batch).fd # fdOf[d]
      BY <1>1, <2>1, HeadIsHis
    <3>2. CASE InDone
      BY <1>6, <3>1, <3>2, InDoneBatch
    <3>3. CASE EventDone
      BY <3>1, <3>3, TailKeeps DEF EventDone
    <3> QED
      BY <3>2, <3>3
  <2>3. /\ quit'[d] = quit[d] /\ acked'[d] = acked[d]
        /\ unread'[d] = unread[d] /\ closed'[d] = closed[d]
        /\ fdOf'[d] = fdOf[d] /\ (fdOf[d] \in ready => fdOf[d] \in list)
    BY <1>2, <1>5, <1>10, <2>1
  <2>4. (wants[d] => wants'[d]) /\ (wants'[d] => wants[d] \/ fdOf[d] \in list)
    BY <1>5, <1>10, <2>1
  <2> QED
    BY <1>10, <2>1, <2>2, <2>3, <2>4, NoticedByList
<1> QED
  BY <1>7, <1>10, <1>11, <1>12, <1>13, ReadyIsSo DEF Given, LoopInv

LEMMA LeavingInv ==
  ASSUME Given, NEW c \in Clients, ReadEnd(c) \/ FlushAndRemove(c) \/ SendFails(c)
  PROVE  LoopInv'
<1>1. RemoveClient(c) /\ (InDone \/ EventDone)
  BY DEF ReadEnd, FlushAndRemove, SendFails
<1>2. up /\ pc = "batch" /\ batch # <<>> /\ Head(batch).fd = fdOf[c]
  BY DEF ReadEnd, FlushAndRemove, SendFails, ClientEvent, InEvent, OutEvent, Current
<1>3. \E told \in SUBSET (Live \ {c}) : Gone(c, told)
  BY DEF ReadEnd, FlushAndRemove, SendFails
<1> QED
  BY <1>1, <1>2, <1>3, GoneInv

\* What accept opens is nobody's yet.
LEMMA AcceptedOthers ==
  ASSUME TimerInv, NEW c \in Clients, Accept(c)
  PROVE  /\ c \notin Live /\ Live' = Live \cup {c} /\ up /\ up' = up
         /\ fdOf'[c] \in Fds
         /\ \A d \in Live : fdOf'[d] = fdOf[d]
         /\ \A e : Own(e) /\ Reaches(e) => Reaches(e)'
<1>1. PICK f \in Fds, t \in Fds :
        /\ IsLowest(f, FreeFds)
        /\ IsLowest(t, FreeFds \ {f})
        /\ conn' = [conn EXCEPT ![c] = "live"]
        /\ fdOf' = [fdOf EXCEPT ![c] = f]
        /\ timerMap' = [timerMap EXCEPT ![t] = f]
  BY DEF Accept, Entry
<1>2. c \notin Live /\ Live' = Live \cup {c} /\ up /\ up' = up
  BY <1>1 DEF Accept, Live, TimerInv, TypeOK
<1>3. fdOf'[c] = f /\ \A d \in Live : fdOf'[d] = fdOf[d]
  BY <1>1, <1>2 DEF TimerInv, TypeOK, Live
<1>4. \A x \in openFds : x # f /\ x # t
  BY <1>1 DEF IsLowest, FreeFds
<1>5. \A x : x # f => Owner(x)' = Owner(x)
  BY <1>2, <1>3 DEF Owner
<1>6. \A x \in Fds : x # t => timerMap'[x] = timerMap[x]
  BY <1>1 DEF TimerInv, TypeOK
<1>7. ASSUME NEW e, Own(e), Reaches(e) PROVE Reaches(e)'
  <2>1. CASE e.fd \in {ListenFd, SignalFd}
    <3>1. e.fd \notin Fds /\ e.fd # f
      BY <2>1, LoopAssumption
    <3> QED
      BY <1>5, <1>7, <3>1 DEF Reaches
  <2>2. CASE e.of \in Live /\ e.fd = fdOf[e.of]
    <3>1. e.fd \in Fds /\ e.fd \in openFds /\ timerMap[e.fd] = NoFd
      BY <2>2, Owners DEF TimerInv, OpenOnes
    <3>2. timerMap'[e.fd] = NoFd /\ Owner(e.fd)' = Owner(e.fd)
      BY <1>4, <1>5, <1>6, <3>1
    <3> QED
      BY <1>7, <3>1, <3>2 DEF Reaches
  <2>3. CASE e.of \in Live /\ e.fd = timerOf[e.of]
    <3>1. /\ e.fd \in Fds /\ e.fd \in openFds /\ fdOf[e.of] \in openFds
          /\ timerMap[e.fd] = fdOf[e.of] /\ fdOf[e.of] # NoFd
      BY <2>3, Owners DEF TimerInv, OpenOnes
    <3>2. timerMap'[e.fd] = timerMap[e.fd] /\ Owner(timerMap[e.fd])' = Owner(timerMap[e.fd])
      BY <1>4, <1>5, <1>6, <3>1
    <3> QED
      BY <1>7, <3>1, <3>2 DEF Reaches
  <2> QED
    BY <1>7, <2>1, <2>2, <2>3 DEF Own
<1> QED
  BY <1>1, <1>2, <1>3, <1>7

\* A client is accepted: it is to be greeted.
LEMMA AcceptEventInv ==
  ASSUME Given, NEW c \in Clients, AcceptEvent(c)
  PROVE  LoopInv'
<1> USE GivenParts
<1> DEFINE list == ready \cup {fdOf'[c]}
<1>1. /\ up /\ pc = "batch" /\ batch # <<>> /\ Head(batch).fd = ListenFd /\ Head(batch).in
      /\ Accept(c) /\ backlog' \subseteq backlog /\ wants' = [wants EXCEPT ![c] = TRUE]
      /\ batch' = Tail(batch)
      /\ UNCHANGED <<pc, signalled, shouldExit, unread, closed, acked, quit>>
      /\ ReadyAfter(list, {})
  BY DEF AcceptEvent, InEvent, Current, ReadyIs
<1>2. /\ c \notin Live /\ Live' = Live \cup {c} /\ fdOf'[c] \in Fds
      /\ \A d \in Live : fdOf'[d] = fdOf[d]
  BY <1>1, AcceptedOthers
<1>3. /\ wants' \in [Clients -> BOOLEAN] /\ wants'[c]
      /\ \A d \in Clients : d # c => wants'[d] = wants[d]
  BY <1>1, LoopTypes
<1>4. \A e : Len(batch) = 2 /\ e = batch[2] => Reaches(e)'
  <2>1. Head(batch) = batch[1] /\ DOMAIN batch = 1..Len(batch)
    BY <1>1, BatchParts
  <2>2. Len(batch) = 2 => Own(batch[2]) /\ Reaches(batch[2])
    BY <1>1, <2>1 DEF BatchInv
  <2> QED
    BY <1>1, <2>2, AcceptedOthers
<1>5. BatchInv' /\ batch' \in Seq(Events)
  BY <1>1, <1>4, TailBatch, BatchParts
<1>6. list \subseteq PolledFds
  BY <1>2 DEF LoopTypeOK, PolledFds
<1>7. ReadyAfter(list, {}) /\ fdOf'[c] \in list /\ \A d : fdOf[d] \in ready => fdOf[d] \in list
  BY <1>1
<1> HIDE DEF list
<1>8. LoopTypeOK'
  <2>1. /\ ready' \subseteq PolledFds /\ dropped' \in [Clients -> BOOLEAN]
        /\ left' \in [Clients -> BOOLEAN]
    BY <1>6, <1>7, ReadyIsSo
  <2>2. backlog \subseteq Clients /\ signalled \in BOOLEAN /\ shouldExit \in BOOLEAN
    BY DEF LoopTypeOK
  <2> QED
    BY <1>1, <1>3, <1>5, <2>1, <2>2, LoopTypes, LoopTypesNext
<1>9. PeersInv'
  <2>1. ASSUME NEW d \in Clients, d \notin Live'
        PROVE  unread'[d] = 0 /\ ~closed'[d] /\ ~acked'[d] /\ ~quit'[d] /\ ~wants'[d]
    <3>1. d \notin Live /\ d # c
      BY <1>2, <2>1
    <3> QED
      BY <1>1, <1>3, <3>1, Zenon DEF PeersInv
  <2>2. ASSUME NEW d \in Live', ~acked'[d] PROVE wants'[d]
    <3>1. d = c \/ (d \in Live /\ d \in Clients /\ d # c)
      BY <1>2 DEF Live
    <3> QED
      BY <1>1, <1>3, <2>2, <3>1, Zenon DEF PeersInv
  <2> QED
    BY <2>1, <2>2, Zenon DEF PeersInv
<1>10. NoticedInv'
  <2> SUFFICES ASSUME NEW d \in Live' PROVE Noticed(d)'
    BY DEF NoticedInv
  <2>1. CASE d # c
    <3>1. d \in Live /\ d \in Clients /\ Noticed(d) /\ fdOf'[d] = fdOf[d]
      BY <1>1, <1>2, <2>1 DEF NoticedInv, Live
    <3>2. Keeps(d, "in") /\ Keeps(d, "out")
      BY <1>1, <3>1, SocketsAreOthers, TailKeeps
    <3>3. /\ quit'[d] = quit[d] /\ acked'[d] = acked[d] /\ wants'[d] = wants[d]
          /\ unread'[d] = unread[d] /\ closed'[d] = closed[d]
      BY <1>1, <1>3, <2>1, <3>1
    <3> QED
      BY <1>7, <3>1, <3>2, <3>3, NoticedByList
  <2>2. CASE d = c
    <3>1. PICK f : f = fdOf'[c]
      OBVIOUS
    <3>2. c \in Owner(f)' /\ f \in list
      BY <1>2, <1>7, <3>1 DEF Owner
    <3>3. f \in ready'
      BY <1>3, <1>7, <3>2, SocketListed
    <3>4. ~quit'[c] /\ ~Waits(c)'
      BY <1>1, <1>2 DEF PeersInv, Waits
    <3> QED
      BY <2>2, <3>1, <3>3, <3>4 DEF Noticed, Pending
  <2> QED
    BY <2>1, <2>2
<1> QED
  BY <1>5, <1>7, <1>8, <1>9, <1>10, ReadyIsSo DEF Given, LoopInv

-----------------------------------------------------------------------------
(* epoll_pwait.                                                              *)

\* What is reported of a descriptor that epoll has found to be ready.
LEMMA EventIs ==
  ASSUME TimerInv, TimersIdle, NEW f \in PolledFds, Readable(f) \/ Writable(f)
  PROVE  /\ Event(f) \in Events /\ Event(f).fd = f
         /\ Event(f).in = Readable(f) /\ Event(f).out = Writable(f)
         /\ Own(Event(f)) /\ Reaches(Event(f))
<1> DEFINE e == Event(f)
           of == IF Concerned(f) = {} THEN NoClient ELSE CHOOSE c \in Concerned(f) : TRUE
<1>1. e = [fd |-> f, in |-> Readable(f), out |-> Writable(f), of |-> of]
  BY DEF Event
<1>2. of \in Clients \cup {NoClient}
  BY DEF Concerned, Live
<1>3. Readable(f) \in BOOLEAN /\ Writable(f) \in BOOLEAN
  BY DEF Readable, Writable
<1>4. e.fd = f /\ e.in = Readable(f) /\ e.out = Writable(f) /\ e.of = of
  BY <1>1
<1>5. e \in Events
  BY <1>1, <1>2, <1>3 DEF Events
<1>6. CASE f \in {ListenFd, SignalFd}
  <2>1. Owner(f) = {} /\ Concerned(f) = {} /\ f \notin Fds
    BY <1>6, NobodysFds
  <2>2. of = NoClient
    BY <2>1
  <2>3. Own(e) /\ Reaches(e)
    BY <1>4, <1>6, <2>1, <2>2 DEF Own, Reaches
  <2> QED
    BY <1>4, <1>5, <2>3
<1>7. ASSUME NEW c \in Live, f = fdOf[c] PROVE Own(e) /\ Reaches(e)
  <2>1. Owner(f) = {c} /\ Concerned(f) = {c} /\ timerMap[f] = NoFd
    BY <1>7, Owners
  <2>2. of = c /\ c # NoClient
    BY <2>1, LoopAssumption DEF Live
  <2> QED
    BY <1>4, <1>7, <2>1, <2>2 DEF Own, Reaches
<1>8. ASSUME NEW c \in Live, f = timerOf[c] PROVE Own(e) /\ Reaches(e)
  <2>1. /\ f \in Fds /\ Concerned(f) = {c} /\ timerMap[f] = fdOf[c] /\ fdOf[c] # NoFd
        /\ Owner(fdOf[c]) = {c}
    BY <1>8, Owners
  <2>2. of = c
    BY <2>1
  <2> QED
    BY <1>4, <1>8, <2>1, <2>2 DEF Own, Reaches
<1>9. \/ f \in {ListenFd, SignalFd}
      \/ \E c \in Live : f = timerOf[c]
      \/ \E c \in Live : f = fdOf[c]
  BY DEF Readable, Writable, TimersIdle, Owner
<1> HIDE DEF of
<1> QED
  BY <1>4, <1>5, <1>6, <1>7, <1>8, <1>9

\* An order of two at most names each of them once.
InOrder(order, taken) ==
  \E n \in 0..2 : /\ order \in [1..n -> taken]
                  /\ \A i, j \in 1..n : order[i] = order[j] => i = j
                  /\ \A f \in taken : \E i \in 1..n : order[i] = f

LEMMA Orders ==
  ASSUME ready \subseteq PolledFds, NEW taken \in SUBSET ready,
         Cardinality(taken) = Min({MAX_CLIENTS, Cardinality(ready)}),
         NEW order \in SetToSeqs(taken)
  PROVE  InOrder(order, taken)
<1>1. IsFiniteSet(Fds)
  BY TimerAssumption, FS_Interval DEF Fds
<1>2. IsFiniteSet(PolledFds)
  <2>1. IsFiniteSet(Fds \cup {ListenFd})
    BY <1>1, FS_AddElement
  <2>2. IsFiniteSet((Fds \cup {ListenFd}) \cup {SignalFd})
    BY <2>1, FS_AddElement
  <2>3. PolledFds = (Fds \cup {ListenFd}) \cup {SignalFd}
    BY DEF PolledFds
  <2> QED
    BY <2>2, <2>3
<1>3. IsFiniteSet(ready) /\ IsFiniteSet(taken)
  BY <1>2, FS_Subset
<1>4. Cardinality(ready) \in Nat /\ Cardinality(taken) \in Nat
  BY <1>3, FS_CardinalityType
<1> DEFINE n == Cardinality(taken)
<1>5. n \in 0..2
  <2>1. \A m \in Nat : Min({2, m}) <= 2
    <3> TAKE m \in Nat
    <3>1. CASE m <= 2
      <4>1. m \in {2, m} /\ \A y \in {2, m} : m <= y
        BY <3>1
      <4> QED
        BY <4>1 DEF Min
    <3>2. CASE 2 <= m
      <4>1. 2 \in {2, m} /\ \A y \in {2, m} : 2 <= y
        BY <3>2
      <4> QED
        BY <4>1 DEF Min
    <3> QED
      BY <3>1, <3>2
  <2> QED
    BY <1>4, <2>1 DEF MAX_CLIENTS
<1>6. order \in [1..n -> taken] /\ \A i, j \in 1..n : order[i] = order[j] => i = j
  BY DEF SetToSeqs
<1>7. Cardinality(1..n) = n
  BY <1>4, FS_Interval
<1>8. order \in Injection(1..n, taken)
  BY <1>6 DEF Injection, IsInjective
<1>9. order \in Surjection(1..n, taken)
  BY <1>3, <1>7, <1>8, FS_Injection
<1>10. \A f \in taken : \E i \in 1..n : order[i] = f
  BY <1>9 DEF Surjection
<1> QED
  BY <1>5, <1>6, <1>10 DEF InOrder

\* A batch is taken: every event in it is about the client it will reach.
LEMMA FetchInv ==
  ASSUME Given, NEW taken \in SUBSET ready, Fetch(taken)
  PROVE  LoopInv'
<1> USE GivenParts
<1>1. /\ up /\ pc = "polling" /\ batch = <<>> /\ pc' = "batch"
      /\ ready' = {f \in ready : f \in taken => LevelTriggered(f)}
      /\ UNCHANGED <<vars, backlog, signalled, shouldExit, peerVars>>
  BY DEF Fetch, BatchInv
<1>2. PICK order \in SetToSeqs(taken) : batch' = [i \in DOMAIN order |-> Event(order[i])]
  BY DEF Fetch
<1>3. ready \subseteq PolledFds
  BY DEF LoopTypeOK
<1>4. PICK n \in 0..2 : /\ order \in [1..n -> taken]
                        /\ \A i, j \in 1..n : order[i] = order[j] => i = j
                        /\ \A f \in taken : \E i \in 1..n : order[i] = f
  <2>1. Cardinality(taken) = Min({MAX_CLIENTS, Cardinality(ready)})
    BY Zenon DEF Fetch
  <2>2. InOrder(order, taken)
    BY <1>2, <1>3, <2>1, Orders, Zenon
  <2> QED
    BY <2>2 DEF InOrder
<1>5. UNCHANGED <<conn, fdOf, timerOf, timerMap, expired, up>>
  BY <1>1 DEF vars
<1>6. /\ batch' = [i \in 1..n |-> Event(order[i])] /\ DOMAIN batch' = 1..n
      /\ \A i \in 1..n : batch'[i] = Event(order[i]) /\ order[i] \in ready
  BY <1>2, <1>4
<1>7. \A f \in ready : /\ Event(f) \in Events /\ Event(f).fd = f
                       /\ Event(f).in = Readable(f) /\ Event(f).out = Writable(f)
                       /\ Own(Event(f)) /\ Reaches(Event(f))
  BY <1>3, EventIs DEF ReadyHolds
<1>8. batch' \in Seq(Events) /\ Len(batch') = n
  <2>1. batch' \in [1..n -> Events] /\ n \in Nat
    BY <1>4, <1>6, <1>7
  <2>2. batch' \in Seq(Events)
    BY <2>1, SeqDef
  <2> QED
    BY <1>6, <2>1, <2>2, LenProperties
<1>9. BatchInv'
  <2>1. Len(batch') <= 2
    BY <1>4, <1>8
  <2>2. \A i, j \in DOMAIN batch' : batch'[i].fd = batch'[j].fd => i = j
    BY <1>4, <1>6, <1>7
  <2>3. Len(batch') = 2 /\ batch'[1].in => Own(batch[2])'
    <3>1. n = 2 => Own(batch'[2])
      BY <1>6, <1>7
    <3> QED
      BY <1>5, <1>8, <3>1 DEF Own, Live
  <2>4. \A i \in DOMAIN batch' : Reaches(batch[i])'
    <3>1. \A i \in DOMAIN batch' : Reaches(batch'[i])
      BY <1>6, <1>7
    <3> QED
      BY <1>5, <3>1 DEF Reaches, Owner, Live
  <2> QED
    BY <1>1, <2>1, <2>2, <2>3, <2>4 DEF BatchInv
<1>10. LoopTypeOK'
  <2>1. UNCHANGED <<unread, closed, acked, quit, wants, left, dropped>>
    BY <1>1 DEF peerVars
  <2>2. /\ ready' \subseteq PolledFds /\ backlog \subseteq Clients
        /\ signalled \in BOOLEAN /\ shouldExit \in BOOLEAN
    BY <1>1 DEF LoopTypeOK
  <2> QED
    BY <1>1, <1>8, <2>1, <2>2, LoopTypes, LoopTypesNext
<1>11. PeersInv' /\ ReadyHolds'
  BY <1>1, <1>5, PeersStill, ReadyHoldsStill DEF peerVars
<1>12. NoticedInv'
  <2> SUFFICES ASSUME NEW d \in Live PROVE Noticed(d)'
    BY <1>5 DEF NoticedInv, Live
  <2>1. Noticed(d) /\ d \in Clients
    BY <1>1 DEF NoticedInv, Live
  <2>2. /\ fdOf'[d] = fdOf[d] /\ UNCHANGED <<acked, quit, wants, dropped>>
        /\ Waits(d)' <=> Waits(d)
    BY <1>1, <1>5 DEF peerVars, Waits
  <2>3. CASE fdOf[d] \notin ready
    <3>1. ~Pending(d, "in") /\ ~Pending(d, "out")
      BY <1>1, <2>3 DEF Pending
    <3> QED
      BY <2>1, <2>2, <3>1 DEF Noticed
  <2>4. CASE fdOf[d] \in ready /\ fdOf[d] \notin taken
    <3>1. fdOf[d] \in ready'
      BY <1>1, <2>4
    <3> QED
      BY <2>1, <2>2, <3>1 DEF Noticed, Pending
  <2>5. CASE fdOf[d] \in taken
    <3>1. PICK i \in 1..n : order[i] = fdOf[d]
      BY <1>4, <2>5
    <3>2. /\ i \in DOMAIN batch' /\ batch'[i].fd = fdOf[d]
          /\ batch'[i].in = Readable(fdOf[d]) /\ batch'[i].out = Writable(fdOf[d])
      BY <1>6, <1>7, <3>1
    <3>3. Waits(d) => Readable(fdOf[d])
      BY <2>1 DEF Waits, Unread, Readable, Owner
    <3>4. wants[d] => Writable(fdOf[d])
      BY DEF Writable, Owner
    <3>5. ~acked[d] => wants[d]
      BY <1>1 DEF PeersInv
    <3>6. Waits(d) => Pending(d, "in")'
      BY <2>2, <3>2, <3>3 DEF Pending
    <3>7. wants[d] => Pending(d, "out")'
      BY <2>2, <3>2, <3>4 DEF Pending
    <3> QED
      BY <2>1, <2>2, <3>5, <3>6, <3>7 DEF Noticed
  <2> QED
    BY <2>3, <2>4, <2>5
<1> QED
  BY <1>9, <1>10, <1>11, <1>12 DEF Given, LoopInv

-----------------------------------------------------------------------------
(* Signals, and the rest.                                                    *)

\* SIGUSR1 throws the rest of the batch away, and the clients in it are marked.
LEMMA SignalBreaksInv ==
  ASSUME Given, SignalBreaks
  PROVE  LoopInv'
<1> USE GivenParts
<1>1. /\ up /\ pc = "batch" /\ batch # <<>> /\ Head(batch).fd = SignalFd
      /\ signalled' = FALSE /\ batch' = <<>> /\ ready' = ready \ {SignalFd}
      /\ dropped' = [c \in Clients |->
                       /\ fdOf[c] \notin ready
                       /\ dropped[c] \/ \E i \in 2..Len(batch) : c \in Owner(batch[i].fd)]
      /\ UNCHANGED <<vars, pc, backlog, shouldExit, unread, closed, acked, quit, wants, left>>
  BY DEF SignalBreaks, InEvent, Current
<1>2. UNCHANGED <<conn, fdOf, timerOf, timerMap, expired, up>>
  BY <1>1 DEF vars
<1>3. LoopTypeOK'
  <2>1. dropped' \in [Clients -> BOOLEAN]
    BY <1>1
  <2>2. <<>> \in Seq(Events)
    BY EmptySeq
  <2>3. /\ ready' \subseteq PolledFds /\ backlog \subseteq Clients /\ shouldExit \in BOOLEAN
    BY <1>1 DEF LoopTypeOK
  <2> QED
    BY <1>1, <2>1, <2>2, <2>3, LoopTypes, LoopTypesNext
<1>4. PeersInv'
  BY <1>1, <1>2 DEF PeersInv, Live
<1>5. ReadyHolds'
  BY <1>1, <1>2, ReadyHoldsStill
<1>6. BatchInv'
  <2>1. Len(<<>>) = 0 /\ DOMAIN <<>> = {}
    OBVIOUS
  <2> QED
    BY <1>1, <2>1 DEF BatchInv
<1>7. NoticedInv'
  <2> SUFFICES ASSUME NEW d \in Live PROVE Noticed(d)'
    BY <1>2 DEF NoticedInv, Live
  <2>1. Noticed(d) /\ d \in Clients /\ fdOf'[d] = fdOf[d]
    BY <1>1, <1>2 DEF NoticedInv, Live
  <2>2. UNCHANGED <<acked, quit, wants>> /\ (Waits(d)' <=> Waits(d))
    BY <1>1 DEF Waits
  <2>3. CASE fdOf[d] \in ready
    <3>1. fdOf[d] \in ready'
      BY <1>1, <2>3, SocketsAreOthers
    <3> QED
      BY <2>1, <2>2, <3>1 DEF Noticed, Pending
  <2>4. CASE fdOf[d] \notin ready
    <3>1. \A i \in DOMAIN batch : batch[i].fd = fdOf[d] => i \in 2..Len(batch)
      <4>1. batch[1].fd # fdOf[d] /\ DOMAIN batch = 1..Len(batch)
        BY <1>1, BatchParts, SocketsAreOthers
      <4>2. Len(batch) \in Nat
        BY <1>1, BatchParts
      <4> QED
        BY <4>1, <4>2
    <3>2. d \in Owner(fdOf[d])
      BY DEF Owner
    <3>3. ~dropped'[d] => /\ ~dropped[d]
                          /\ \A i \in DOMAIN batch : batch[i].fd # fdOf[d]
      BY <1>1, <2>1, <2>4, <3>1, <3>2
    <3>4. ~dropped'[d] => ~dropped[d] /\ ~Pending(d, "in") /\ ~Pending(d, "out")
      BY <2>4, <3>3 DEF Pending
    <3> QED
      BY <2>1, <2>2, <3>4 DEF Noticed
  <2> QED
    BY <2>3, <2>4
<1> QED
  BY <1>3, <1>4, <1>5, <1>6, <1>7 DEF Given, LoopInv

\* The ways the server ends.
LEMMA EndsInv ==
  ASSUME Given,
         \/ Leave \/ (Interrupted /\ ~signalled) \/ SignalStops
         \/ \E c \in Clients : AcceptCrash(c) \/ \E t \in Fds : TimerEvent(c, t)
  PROVE  LoopInv'
<1>1. CASE Leave \/ (Interrupted /\ ~signalled) \/ SignalStops
  BY <1>1, EndedInv DEF Leave, Interrupted, SignalStops, Stop, ShutDown, Given
<1>2. ASSUME NEW c \in Clients, AcceptCrash(c) PROVE LoopInv'
  BY <1>2, EndedInv DEF AcceptCrash, AcceptWithoutTimer, Given
<1>3. ASSUME NEW c \in Clients, NEW t \in Fds, TimerEvent(c, t) PROVE LoopInv'
  <2>1. Crash
    BY <1>3, GivenParts, CheckTimerCrashes DEF TimerEvent
  <2> QED
    BY <1>3, <2>1, EndedInv DEF TimerEvent, Crash, Given
<1> QED
  BY <1>1, <1>2, <1>3

LEMMA LoopInitInv == LoopInit => LoopInv
<1> SUFFICES ASSUME LoopInit PROVE LoopInv
  OBVIOUS
<1>1. TimerInv /\ TimersIdle
  BY TimerInitInv, IdleInit DEF LoopInit
<1>2. Live = {}
  BY DEF LoopInit, Init, Live
<1>3. LoopTypeOK
  <2>1. TypeOK /\ 0 \in 0..MaxUnread
    BY <1>1, LoopAssumption DEF TimerInv
  <2>2. <<>> \in Seq(Events)
    BY EmptySeq
  <2>3. Nobody \in [Clients -> BOOLEAN]
    BY DEF Nobody
  <2>4. unread \in [Clients -> 0..MaxUnread]
    BY <2>1 DEF LoopInit, Blank
  <2> QED
    BY <2>1, <2>2, <2>3, <2>4 DEF LoopInit, Blank, LoopTypeOK, Events
<1>4. PeersInv /\ ReadyHolds /\ NoticedInv
  BY <1>2 DEF LoopInit, Blank, Nobody, PeersInv, ReadyHolds, NoticedInv
<1>5. BatchInv
  <2>1. Len(<<>>) = 0 /\ DOMAIN <<>> = {}
    OBVIOUS
  <2> QED
    BY <2>1 DEF LoopInit, Blank, BatchInv
<1> QED
  BY <1>1, <1>3, <1>4, <1>5 DEF LoopInv

LEMMA LoopStepInv == LoopInv /\ [LoopNext]_allVars => LoopInv'
<1> SUFFICES ASSUME LoopInv, [LoopNext]_allVars PROVE LoopInv'
  OBVIOUS
<1>1. [Next]_vars
  BY LoopIsTimersStep, OthersAreTimersSteps DEF LoopNext, allVars
<1>2. Given
  BY <1>1, TimerStepInv, IdleStep DEF Given, LoopInv
<1>3. CASE Again \/ Interrupted \/ Interrupt \/ SignalArrives
  BY <1>2, <1>3, OthersQuiet, EndsInv
<1>4. CASE Leave \/ SignalStops
  BY <1>2, <1>4, EndsInv
<1>5. CASE AcceptFails \/ OutStale \/ \E t \in Fds : StaleTimerEvent(t)
  BY <1>2, <1>5, PassingInv
<1>6. ASSUME NEW taken \in SUBSET ready, Fetch(taken) PROVE LoopInv'
  BY <1>2, <1>6, FetchInv
<1>7. CASE SignalBreaks
  BY <1>2, <1>7, SignalBreaksInv
<1>8. ASSUME NEW c \in Clients, PeerConnects(c) \/ PeerActs(c) \/ TimerExpires(c)
      PROVE  LoopInv'
  BY <1>2, <1>8, OthersQuiet, PeerActsInv
<1>9. ASSUME NEW c \in Clients,
             \/ AcceptEvent(c) \/ AcceptCrash(c) \/ Ignore(c) \/ Read(c)
             \/ \E t \in Fds : TimerEvent(c, t)
      PROVE  LoopInv'
  BY <1>2, <1>9, AcceptEventInv, EndsInv, IgnoreInv, ReadInv
<1>10. ASSUME NEW c \in Clients, Flush(c) \/ ReadEnd(c) \/ FlushAndRemove(c) \/ SendFails(c)
       PROVE  LoopInv'
  BY <1>2, <1>10, FlushInv, LeavingInv
<1>11. CASE UNCHANGED allVars
  <2>1. UNCHANGED <<vars, loopVars, peerVars>>
    BY <1>11 DEF allVars
  <2>2. UNCHANGED <<conn, fdOf, timerOf, openFds, timerMap, expired, failed, up>>
    BY <2>1 DEF vars
  <2>3. UNCHANGED <<pc, ready, batch, backlog, signalled, shouldExit>>
    BY <2>1 DEF loopVars
  <2>4. UNCHANGED <<unread, closed, acked, quit, wants, left, dropped>>
    BY <2>1 DEF peerVars
  <2>5. LoopTypeOK'
    <3>1. /\ pc \in {"batch", "polling", "interrupted"} /\ ready \subseteq PolledFds
          /\ backlog \subseteq Clients /\ signalled \in BOOLEAN /\ shouldExit \in BOOLEAN
      BY <1>2, GivenParts DEF LoopTypeOK
    <3> QED
      BY <1>2, <2>3, <2>4, <3>1, GivenParts, LoopTypes, LoopTypesNext
  <2>6. PeersInv'
    BY <1>2, <2>1, <2>2, GivenParts, PeersStill
  <2>7. ReadyHolds'
    BY <1>2, <2>2, <2>3, <2>4, GivenParts, ReadyHoldsStill
  <2>8. BatchInv'
    <3>1. pc' # "batch" => up' /\ batch = <<>>
      BY <1>2, <2>2, <2>3, GivenParts DEF BatchInv
    <3> QED
      BY <1>2, <2>2, <2>3, <3>1, GivenParts, SameBatch
  <2>9. NoticedInv'
    BY <1>2, <2>2, <2>3, <2>4, GivenParts DEF NoticedInv, Noticed, Waits, Pending, Live
  <2> QED
    BY <1>2, <2>5, <2>6, <2>7, <2>8, <2>9 DEF Given, LoopInv
<1>12. LoopNext \/ UNCHANGED allVars
  OBVIOUS
<1> QED
  BY <1>3, <1>4, <1>5, <1>6, <1>7, <1>8, <1>9, <1>10, <1>11, <1>12
     DEF LoopNext, Loop, Others, Handle

LEMMA LoopAlways == LoopSpec => []LoopInv
  BY LoopInitInv, LoopStepInv, PTL DEF LoopSpec

\* What the loop and its clients hold stays in its ranges, and the batch a sequence of
\* events.
THEOREM LoopTypeCorrect == LoopSpec => []LoopTypeOK
<1>1. LoopInv => LoopTypeOK
  BY DEF LoopInv
<1> QED
  BY <1>1, LoopAlways, PTL

\* However handlers close and open descriptors within a batch, its later events still
\* reach the clients they are about, for any number of clients and descriptors.
THEOREM EventsAlwaysReachOwners == LoopSpec => []EventsReachOwners
<1>1. LoopInv => EventsReachOwners
  BY DEF LoopInv, BatchInv, EventsReachOwners, Reaches
<1> QED
  BY <1>1, LoopAlways, PTL

\* The edge-triggered epoll forgets no input and no peer's end but in two places: what
\* the one recv() of handleReadEvent leaves behind, and what a SIGUSR1 throws away,
\* waits until its socket is ready again.
THEOREM InputAlwaysNoticed == LoopSpec => []InputNoticed
<1>1. LoopInv => InputNoticed
  BY DEF LoopInv, NoticedInv, Noticed, Waits, Unread, InputNoticed
<1> QED
  BY <1>1, LoopAlways, PTL

\* No output is, either, and whoever has quit has some.
THEOREM OutputAlwaysNoticed == LoopSpec => []OutputNoticed
<1>1. LoopInv => OutputNoticed
  BY DEF LoopInv, NoticedInv, Noticed, OutputNoticed
<1> QED
  BY <1>1, LoopAlways, PTL
=============================================================================
