---------------------------- MODULE NickRegistry ----------------------------
(***************************************************************************)
(* The sessions of the server and its nickname registry: the part of       *)
(* Server that Server::create_Client, Server::handleNickCommand and        *)
(* Server::remove_Client keep in _Clients, Client::_nickName and           *)
(* _nickname_to_fd.                                                        *)
(*                                                                         *)
(* An element of Clients is one Client object, so it connects and          *)
(* disconnects once; the descriptor it held goes back to the kernel and    *)
(* the next session gets it.  The registry maps a LOWERED nickname to a    *)
(* descriptor, a client keeps its nickname as it spelled it, and a nickname*)
(* is a value of Nicks together with its lowered form.                     *)
(***************************************************************************)
EXTENDS Integers

CONSTANTS
  Clients,    \* the Client objects of a run
  Fds,        \* the descriptors accept() can return
  NoFd,       \* "no entry": not a descriptor
  Nicks,      \* the nicknames clients ask for that isValidNickname accepts
  AnonNicks,  \* the names generateUniqueNickname draws from
  NoNick,     \* the empty nickname of a client that has not sent NICK
  Lower       \* toLower, as a function on all of these

AllNicks == Nicks \cup AnonNicks \cup {NoNick}

ASSUME NickAssumption ==
  /\ NoNick \notin Nicks \cup AnonNicks
  /\ Lower \in [AllNicks -> AllNicks]
  /\ \A n \in AllNicks : Lower[Lower[n]] = Lower[n]
  /\ \A n \in AllNicks : Lower[n] = NoNick <=> n = NoNick
  /\ Fds \subseteq Nat
  /\ NoFd \notin Fds

VARIABLES
  conn,       \* conn[c]: "none" before accept, "live" in _Clients, "gone" after
  fdOf,       \* fdOf[c]: Client::_fd of a live client
  nick,       \* nick[c]: Client::_nickName, as the client spelled it
  nickToFd    \* Server::_nickname_to_fd; NoFd where the map has no entry

nickVars == <<conn, fdOf, nick, nickToFd>>

Live == {c \in Clients : conn[c] = "live"}

NickTypeOK ==
  /\ conn \in [Clients -> {"none", "live", "gone"}]
  /\ fdOf \in [Clients -> Fds \cup {NoFd}]
  /\ nick \in [Clients -> AllNicks]
  /\ nickToFd \in [AllNicks -> Fds \cup {NoFd}]

-----------------------------------------------------------------------------
NickInit ==
  /\ conn = [c \in Clients |-> "none"]
  /\ fdOf = [c \in Clients |-> NoFd]
  /\ nick = [c \in Clients |-> NoNick]
  /\ nickToFd = [n \in AllNicks |-> NoFd]

FreeFds == {f \in Fds : \A c \in Live : fdOf[c] # f}

\* accept() returns the lowest free descriptor and the session gets a Client.
Connect(c) ==
  /\ conn[c] = "none"
  /\ \E f \in FreeFds :
       /\ \A g \in FreeFds : f <= g
       /\ fdOf' = [fdOf EXCEPT ![c] = f]
  /\ conn' = [conn EXCEPT ![c] = "live"]
  /\ UNCHANGED <<nick, nickToFd>>

\* Faulty variant: the new name is entered as spelled.
EnteredAsSpelled(c, old, new) ==
  [nickToFd EXCEPT ![Lower[old]] = NoFd, ![new] = fdOf[c]]

\* The registry after c, so far called old, is entered as new.  (The order of
\* the two map operations matters when both names have the same lowered form.)
Entered(c, old, new) ==
  [nickToFd EXCEPT ![Lower[old]] = NoFd, ![Lower[new]] = fdOf[c]]

UpdateNickname(c, new) ==
  /\ nick' = [nick EXCEPT ![c] = new]
  /\ nickToFd' = Entered(c, nick[c], new)
  /\ UNCHANGED <<conn, fdOf>>

\* Faulty variant: the name is looked up as spelled.
NickFreeAsSpelled(n) == nickToFd[n] = NoFd

\* check_nickname: a name is free when the map has no entry for its lowered
\* form.  A client whose own descriptor is found there gets no reply at all.
NickFree(n) == nickToFd[Lower[n]] = NoFd
NickTaken(c, n) == nickToFd[Lower[n]] \notin {NoFd, fdOf[c]}

\* NICK n for a free name.
TakeNick(c, n) ==
  /\ c \in Live
  /\ NickFree(n)
  /\ UpdateNickname(c, n)

\* NICK n for a taken name by a client that has none yet: the server picks one.
TakeAnonNick(c, n, a) ==
  /\ c \in Live
  /\ nick[c] = NoNick
  /\ NickTaken(c, n)
  /\ NickFree(a)
  /\ UpdateNickname(c, a)

\* The end of remove_Client: the entry erased is the one under the nickname as
\* the client spelled it, which is not the key when it has an upper-case letter.
Forget(c) ==
  /\ c \in Live
  /\ conn' = [conn EXCEPT ![c] = "gone"]
  /\ fdOf' = [fdOf EXCEPT ![c] = NoFd]
  /\ nickToFd' = [nickToFd EXCEPT ![nick[c]] = NoFd]
  /\ nick' = [nick EXCEPT ![c] = NoNick]

\* getClientByNickname: the live client the map leads to, if any.
ClientsNamed(n) ==
  {c \in Live : nickToFd[Lower[n]] = fdOf[c]}

NickNext ==
  \E c \in Clients :
    \/ Connect(c)
    \/ \E n \in Nicks : TakeNick(c, n)
    \/ \E n \in Nicks, a \in AnonNicks : TakeAnonNick(c, n, a)
    \/ Forget(c)

NickSpec == NickInit /\ [][NickNext]_nickVars

-----------------------------------------------------------------------------
\* Two live clients never share a nickname, not even in different case: the
\* promise check_nickname makes through the registry, across renames,
\* disconnects, reused descriptors and the entries remove_Client leaves behind.
NicksUnique ==
  \A c, d \in Live :
    nick[c] # NoNick /\ Lower[nick[c]] = Lower[nick[d]] => c = d

\* Whoever is addressed by the nickname of a live client is that client:
\* PRIVMSG, KICK, INVITE and WHOIS reach the right descriptor even though the
\* map may hold entries of departed clients for a descriptor in use again.
NickReaches ==
  \A c \in Live : nick[c] # NoNick => ClientsNamed(nick[c]) = {c}
=============================================================================
