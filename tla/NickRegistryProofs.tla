------------------------- MODULE NickRegistryProofs -------------------------
(* The registry keeps nicknames unique and leads to the right client, for    *)
(* every set of clients, descriptors and names.  Both follow from one         *)
(* inductive invariant: live clients hold distinct descriptors, and the entry *)
(* under a live client's lowered nickname is that client's descriptor.        *)
EXTENDS NickRegistry, TLAPS

FdsDistinct ==
  /\ \A c \in Live : fdOf[c] \in Fds
  /\ \A c, d \in Live : fdOf[c] = fdOf[d] => c = d

OwnEntry ==
  /\ \A c \in Clients : c \notin Live => nick[c] = NoNick
  /\ \A c \in Live : nick[c] # NoNick => nickToFd[Lower[nick[c]]] = fdOf[c]

NickInv == NickTypeOK /\ FdsDistinct /\ OwnEntry

\* Two live clients with the same lowered nickname are one client.
LEMMA SameNameSameClient ==
  ASSUME NickInv, NEW c \in Live, NEW d \in Live,
         nick[c] # NoNick, Lower[nick[c]] = Lower[nick[d]]
  PROVE  c = d
<1>1. nick[c] \in AllNicks /\ nick[d] \in AllNicks
  BY DEF NickInv, NickTypeOK, Live
<1>2. nick[d] # NoNick
  BY <1>1, NickAssumption
<1>3. nickToFd[Lower[nick[c]]] = fdOf[c] /\ nickToFd[Lower[nick[d]]] = fdOf[d]
  BY <1>2 DEF NickInv, OwnEntry
<1> QED
  BY <1>3 DEF NickInv, FdsDistinct

\* The registry starts within its invariant.
LEMMA NickInitInv == NickInit => NickInv
  BY NickAssumption
  DEF NickInit, NickInv, NickTypeOK, FdsDistinct, OwnEntry, Live, AllNicks

LEMMA ConnectInv ==
  ASSUME NickInv, NEW c \in Clients, Connect(c)
  PROVE  NickInv'
<1>1. PICK f \in FreeFds : fdOf' = [fdOf EXCEPT ![c] = f]
  BY DEF Connect
<1>2. f \in Fds /\ \A d \in Live : fdOf[d] # f
  BY DEF FreeFds
<1>3. c \notin Live /\ Live' = Live \cup {c} /\ nick[c] = NoNick
  BY DEF Connect, Live, NickInv, NickTypeOK, OwnEntry
<1>4. NickTypeOK'
  BY <1>1, <1>2 DEF Connect, NickInv, NickTypeOK
<1>5. FdsDistinct'
  BY <1>1, <1>2, <1>3 DEF NickInv, NickTypeOK, FdsDistinct, Live
<1>6. OwnEntry'
  BY <1>1, <1>3 DEF Connect, NickInv, NickTypeOK, OwnEntry, Live
<1> QED
  BY <1>4, <1>5, <1>6 DEF NickInv

LEMMA UpdateNicknameInv ==
  ASSUME NickInv, NEW c \in Live, NEW n \in Nicks \cup AnonNicks,
         NickFree(n), UpdateNickname(c, n)
  PROVE  NickInv'
<1>1. c \in Clients /\ n \in AllNicks /\ n # NoNick /\ nick[c] \in AllNicks
  BY NickAssumption DEF Live, AllNicks, NickInv, NickTypeOK
<1>2. Lower[n] \in AllNicks /\ Lower[nick[c]] \in AllNicks
  BY <1>1, NickAssumption
<1>3. Live' = Live /\ fdOf' = fdOf /\ fdOf[c] \in Fds
  BY DEF UpdateNickname, Live, NickInv, FdsDistinct
<1>4. NickTypeOK'
  BY <1>1, <1>2, <1>3 DEF UpdateNickname, Entered, NickInv, NickTypeOK
<1>5. FdsDistinct'
  BY <1>3 DEF NickInv, FdsDistinct
<1>6. ASSUME NEW d \in Live, nick'[d] # NoNick
      PROVE  nickToFd'[Lower[nick'[d]]] = fdOf[d]
  <2>1. CASE d = c
    BY <2>1, <1>1, <1>2 DEF UpdateNickname, Entered, NickInv, NickTypeOK
  <2>2. CASE d # c
    <3>1. nick'[d] = nick[d] /\ d \in Clients /\ nick[d] \in AllNicks
      BY <2>2 DEF UpdateNickname, NickInv, NickTypeOK, Live
    <3>2. nickToFd[Lower[nick[d]]] = fdOf[d] /\ fdOf[d] \in Fds
      BY <1>6, <3>1 DEF NickInv, OwnEntry, FdsDistinct
    <3>3. Lower[nick[d]] # Lower[n]
      BY <3>2, NickAssumption DEF NickFree
    <3>4. Lower[nick[d]] # Lower[nick[c]]
      BY <2>2, <3>1, <1>6, SameNameSameClient
    <3> QED
      BY <3>1, <3>2, <3>3, <3>4, <1>2, NickAssumption
      DEF UpdateNickname, Entered, NickInv, NickTypeOK
  <2> QED
    BY <2>1, <2>2
<1>7. OwnEntry'
  BY <1>3, <1>6 DEF UpdateNickname, NickInv, NickTypeOK, OwnEntry, Live
<1> QED
  BY <1>4, <1>5, <1>7 DEF NickInv

LEMMA ForgetInv ==
  ASSUME NickInv, NEW c \in Clients, Forget(c)
  PROVE  NickInv'
<1>1. c \in Live /\ Live' = Live \ {c}
  BY DEF Forget, Live, NickInv, NickTypeOK
<1>2. NickTypeOK'
  BY DEF Forget, NickInv, NickTypeOK, AllNicks
<1>3. FdsDistinct'
  BY <1>1 DEF Forget, Live, NickInv, NickTypeOK, FdsDistinct
<1>4. ASSUME NEW d \in Live', nick'[d] # NoNick
      PROVE  nickToFd'[Lower[nick'[d]]] = fdOf'[d]
  <2>1. d \in Live /\ d # c /\ nick'[d] = nick[d] /\ fdOf'[d] = fdOf[d]
    BY <1>1 DEF Forget, Live, NickInv, NickTypeOK
  <2>2. nick[d] \in AllNicks /\ nick[c] \in AllNicks /\ Lower[nick[d]] \in AllNicks
    BY <1>1, <2>1, NickAssumption DEF NickInv, NickTypeOK, Live
  <2>3. Lower[nick[d]] # nick[c]
    <3> SUFFICES ASSUME Lower[nick[d]] = nick[c] PROVE FALSE
      OBVIOUS
    <3>1. Lower[nick[d]] = Lower[nick[c]]
      BY <2>2, NickAssumption
    <3> QED
      BY <1>1, <1>4, <2>1, <3>1, SameNameSameClient
  <2>4. nickToFd[Lower[nick[d]]] = fdOf[d]
    BY <1>4, <2>1 DEF NickInv, OwnEntry
  <2> QED
    BY <2>1, <2>2, <2>3, <2>4 DEF Forget, NickInv, NickTypeOK
<1>5. OwnEntry'
  BY <1>1, <1>4 DEF Forget, NickInv, NickTypeOK, OwnEntry, Live
<1> QED
  BY <1>2, <1>3, <1>5 DEF NickInv

\* Every step of the registry keeps the invariant.
LEMMA NickStepInv == NickInv /\ [NickNext]_nickVars => NickInv'
<1> SUFFICES ASSUME NickInv, [NickNext]_nickVars PROVE NickInv'
  OBVIOUS
<1>1. ASSUME NEW c \in Clients, Connect(c) PROVE NickInv'
  BY <1>1, ConnectInv
<1>2. ASSUME NEW c \in Clients, NEW n \in Nicks, TakeNick(c, n) PROVE NickInv'
  BY <1>2, UpdateNicknameInv DEF TakeNick
<1>3. ASSUME NEW c \in Clients, NEW n \in Nicks, NEW a \in AnonNicks, TakeAnonNick(c, n, a)
      PROVE  NickInv'
  BY <1>3, UpdateNicknameInv DEF TakeAnonNick
<1>4. ASSUME NEW c \in Clients, Forget(c) PROVE NickInv'
  BY <1>4, ForgetInv
<1>5. CASE UNCHANGED nickVars
  BY <1>5 DEF nickVars, NickInv, NickTypeOK, FdsDistinct, OwnEntry, Live
<1> QED
  BY <1>1, <1>2, <1>3, <1>4, <1>5 DEF NickNext

\* Unique names are what the invariant says about one key.
LEMMA InvUnique == NickInv => NicksUnique
  BY SameNameSameClient DEF NicksUnique

\* The entry of a live client leads to that client alone.
LEMMA InvReaches == NickInv => NickReaches
<1> SUFFICES ASSUME NickInv, NEW c \in Live, nick[c] # NoNick
             PROVE  ClientsNamed(nick[c]) = {c}
  BY DEF NickReaches
<1>1. nickToFd[Lower[nick[c]]] = fdOf[c]
  BY DEF NickInv, OwnEntry
<1> QED
  BY <1>1 DEF ClientsNamed, NickInv, FdsDistinct

\* The registry's variables keep their types: descriptors are accepted ones.
THEOREM NickTypeCorrect == NickSpec => []NickTypeOK
<1>1. NickInv => NickTypeOK
  BY DEF NickInv
<1> QED
  BY <1>1, NickInitInv, NickStepInv, PTL DEF NickSpec

\* No two live clients ever share a nickname, whatever its case.
THEOREM NicksAreUnique == NickSpec => []NicksUnique
  BY NickInitInv, NickStepInv, InvUnique, PTL DEF NickSpec

\* A live client's nickname always leads to that client and nobody else.
THEOREM NicksReach == NickSpec => []NickReaches
  BY NickInitInv, NickStepInv, InvReaches, PTL DEF NickSpec
=============================================================================
