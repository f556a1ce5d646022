--------------------------- MODULE ChannelsProofs ---------------------------
(* For every set of clients, channels, names and arguments, and whatever the  *)
(* clients send: the types of the channel state, and Bookkeeping.  The        *)
(* counter of a channel stays right because each operation that changes       *)
(* _ClientModes changes it by as much; that each channel is open exactly while *)
(* it has an entry also needs that a weak_ptr that still locks leads to a      *)
(* channel that is still in the map.  Then, with lower-case names, what the    *)
(* lookups by nickname find, the implementation of Rooms, and who rules.       *)
EXTENDS Channels, NickRegistryProofs, FiniteSetTheorems

ChannelOK(ch) ==
  /\ ch \in Channel
  /\ ch.count = Cardinality(ch.members)
  /\ ch.ops \subseteq ch.members

ListedIsOpen == \A c \in Clients : joined[c] \ dangling[c] \subseteq open

\* The channel half of the inductive invariant; NickInv is the other half.
ChanInv ==
  /\ open \subseteq ChanNames
  /\ DOMAIN chan = ChanNames /\ chan = [n \in ChanNames |-> chan[n]]
  /\ \A n \in ChanNames : ChannelOK(chan[n]) /\ (n \in open <=> chan[n].members # {})
  /\ joined \in [Clients -> SUBSET ChanNames]
  /\ dangling \in [Clients -> SUBSET ChanNames]
  /\ up \in BOOLEAN
  /\ ListedIsOpen

IInv == NickInv /\ ChanInv

LEMMA MembersFinite ==
  ASSUME NEW ch \in Channel
  PROVE  IsFiniteSet(ch.members) /\ ch.members \subseteq Clients
BY ChannelAssumption, FS_Subset DEF Channel

LEMMA NewChannelOK == ChannelOK(NewChannel) /\ NewChannel.members = {}
<1>1. NewChannel \in Channel
  BY ChannelAssumption DEF NewChannel, Channel
<1> QED
  BY <1>1, FS_EmptySet DEF ChannelOK, NewChannel

\* Taking a member in keeps a channel consistent if it is not in yet.
LEMMA AddClientOK ==
  ASSUME NEW ch, ChannelOK(ch), NEW c \in Clients, c \notin ch.members,
         NEW creator \in BOOLEAN
  PROVE  /\ ChannelOK(AddClient(c, ch, creator))
         /\ AddClient(c, ch, creator).members = ch.members \cup {c}
<1> DEFINE new == AddClient(c, ch, creator)
<1>1. ch \in Channel /\ ch.count \in Nat /\ ch.members \subseteq Clients
      /\ ch.ops \subseteq Clients
  BY DEF ChannelOK, Channel
<1>2. /\ new.members = ch.members \cup {c}
      /\ new.ops = IF creator THEN ch.ops \cup {c} ELSE ch.ops \ {c}
      /\ new.count = ch.count + 1
  BY <1>1 DEF AddClient, Channel
<1>3. new \in Channel
  <2>1. PICK o \in SUBSET Clients :
          new = [ch EXCEPT !.members = @ \cup {c}, !.ops = o, !.count = @ + 1]
    BY <1>1 DEF AddClient
  <2>2. ch.members \cup {c} \in SUBSET Clients /\ ch.count + 1 \in Nat
    BY <1>1
  <2> HIDE DEF new
  <2> QED
    BY <1>1, <2>1, <2>2 DEF Channel
<1>4. Cardinality(new.members) = Cardinality(ch.members) + 1
  BY <1>1, <1>2, MembersFinite, FS_AddElement
<1> QED
  BY <1>2, <1>3, <1>4 DEF ChannelOK

\* An operation that leaves the members alone keeps a channel consistent.
LEMMA InviteUsedOK ==
  ASSUME NEW ch, ChannelOK(ch), NEW c
  PROVE  ChannelOK(InviteUsed(c, ch)) /\ InviteUsed(c, ch).members = ch.members
<1>1. CASE "i" \in ch.modes
  BY <1>1 DEF InviteUsed, ChannelOK, Channel
<1>2. CASE "i" \notin ch.modes
  BY <1>2 DEF InviteUsed
<1> QED
  BY <1>1, <1>2

LEMMA PromotedOK ==
  ASSUME NEW ch, ChannelOK(ch), NEW heirs, heirs \subseteq ch.members,
         NEW p \in Promoted(ch, heirs)
  PROVE  ChannelOK(p) /\ p.members = ch.members
<1>1. CASE heirs = {}
  BY <1>1 DEF Promoted
<1>2. CASE heirs # {}
  <2>1. PICK h \in heirs : p = [ch EXCEPT !.ops = @ \cup {h}]
    BY <1>2 DEF Promoted
  <2>2. h \in ch.members /\ ch.members \subseteq Clients
    BY MembersFinite DEF ChannelOK
  <2> QED
    BY <2>1, <2>2 DEF ChannelOK, Channel
<1> QED
  BY <1>1, <1>2

LEMMA HeirsAreMembers ==
  ASSUME NEW ch, NEW c, NEW leaving
  PROVE  Heirs(ch, c, leaving) \subseteq ch.members
BY DEF Heirs

\* Removing a member takes exactly one from the counter, which cannot be 0.
LEMMA RemoveOK ==
  ASSUME NEW ch, ChannelOK(ch), NEW s, NEW p \in RemoveClientByNickname(ch, s)
  PROVE  ChannelOK(p)
<1>1. CASE Matching(ch, s) = {}
  BY <1>1 DEF RemoveClientByNickname
<1>2. CASE Matching(ch, s) # {}
  <2>1. PICK m \in Matching(ch, s) :
          p = [ch EXCEPT !.members = @ \ {m}, !.ops = @ \ {m}, !.count = @ - 1]
    BY <1>2 DEF RemoveClientByNickname
  <2>2. ch \in Channel /\ m \in ch.members /\ IsFiniteSet(ch.members)
        /\ ch.count \in Nat /\ ch.members \subseteq Clients /\ ch.ops \subseteq Clients
    BY <2>1, MembersFinite DEF Matching, ChannelOK, Channel
  <2>3. Cardinality(ch.members \ {m}) = Cardinality(ch.members) - 1
        /\ IsFiniteSet(ch.members \ {m})
    BY <2>2, FS_RemoveElement
  <2>4. Cardinality(ch.members \ {m}) \in Nat
    BY <2>3, FS_CardinalityType
  <2>5. ch.count - 1 = Cardinality(ch.members \ {m})
    BY <2>3 DEF ChannelOK
  <2>6. p \in Channel
    BY <2>1, <2>2, <2>4, <2>5 DEF Channel
  <2>7. p.members = ch.members \ {m} /\ p.ops = ch.ops \ {m} /\ p.count = ch.count - 1
    BY <2>1, <2>2 DEF Channel
  <2> QED
    BY <2>5, <2>6, <2>7 DEF ChannelOK
<1> QED
  BY <1>1, <1>2

LEMMA DepartedOK ==
  ASSUME NEW ch, ChannelOK(ch), NEW c, NEW s, NEW p \in Departed(ch, c, s)
  PROVE  ChannelOK(p)
<1>1. PICK q \in Promoted(ch, Heirs(ch, c, TRUE)) : p \in RemoveClientByNickname(q, s)
  BY DEF Departed
<1>2. ChannelOK(q)
  BY <1>1, PromotedOK, HeirsAreMembers
<1> QED
  BY <1>1, <1>2, RemoveOK

LEMMA AfterModeOK ==
  ASSUME NEW ch, ChannelOK(ch), NEW c, NEW reported, NEW p \in AfterMode(ch, c, reported)
  PROVE  ChannelOK(p) /\ p.members = ch.members
<1> DEFINE heirs == Heirs(ch, c, FALSE)
<1>1. CASE reported /\ ch.opRemoved /\ heirs # {}
  <2>1. PICK q \in Promoted(ch, heirs) : p = [q EXCEPT !.opRemoved = FALSE]
    BY <1>1 DEF AfterMode
  <2>2. ChannelOK(q) /\ q.members = ch.members
    BY <2>1, PromotedOK, HeirsAreMembers
  <2> QED
    BY <2>1, <2>2 DEF ChannelOK, Channel
<1>2. CASE ~(reported /\ ch.opRemoved /\ heirs # {})
  BY <1>2 DEF AfterMode
<1> QED
  BY <1>1, <1>2

\* Storing one channel that keeps an entry, be it new or changed.
LEMMA UpdateOne ==
  ASSUME ChanInv, NEW n \in ChanNames, NEW ch, ChannelOK(ch), ch.members # {},
         chan' = [chan EXCEPT ![n] = ch], open' = open \cup {n},
         joined' \in [Clients -> SUBSET ChanNames],
         \A c \in Clients : joined'[c] \subseteq joined[c] \cup {n},
         dangling' = dangling, up' = up
  PROVE  ChanInv'
<1>1. chan'[n] = ch /\ \A m \in ChanNames : m # n => chan'[m] = chan[m]
  BY DEF ChanInv
<1>2. ASSUME NEW m \in ChanNames
      PROVE  ChannelOK(chan'[m]) /\ (m \in open' <=> chan'[m].members # {})
  BY <1>1 DEF ChanInv
<1>3. ListedIsOpen'
  BY DEF ChanInv, ListedIsOpen
<1>4. DOMAIN chan' = ChanNames /\ chan' = [m \in ChanNames |-> chan'[m]]
  BY DEF ChanInv
<1>5. \A m \in ChanNames : ChannelOK(chan[m])' <=> ChannelOK(chan'[m])
  BY DEF ChannelOK
<1> QED
  BY <1>2, <1>3, <1>4, <1>5 DEF ChanInv

\* Storing what departures left: who erases a channel makes every weak_ptr to it
\* expire at the same time.
LEMMA StoreChannelsOK ==
  ASSUME ChanInv, NEW after, DOMAIN after \subseteq open,
         \A n \in DOMAIN after : ChannelOK(after[n]),
         NEW lists \in [Clients -> SUBSET ChanNames],
         \A c \in Clients : lists[c] \subseteq joined[c],
         StoreChannels(after, lists), up' = up
  PROVE  ChanInv'
<1> DEFINE erased == {n \in DOMAIN after : after[n].members = {}}
<1>1. /\ chan' = [n \in ChanNames |-> IF n \in erased THEN NewChannel
                     ELSE IF n \in DOMAIN after THEN after[n] ELSE chan[n]]
      /\ open' = open \ erased
      /\ joined' = lists
      /\ dangling' = [m \in Clients |-> lists[m] \cap (dangling[m] \cup erased)]
  BY DEF StoreChannels
<1>2. ASSUME NEW n \in ChanNames
      PROVE  ChannelOK(chan'[n]) /\ (n \in open' <=> chan'[n].members # {})
  <2>1. CASE n \in erased
    BY <2>1, <1>1, NewChannelOK
  <2>2. CASE n \in DOMAIN after \ erased
    BY <2>2, <1>1 DEF ChanInv
  <2>3. CASE n \notin DOMAIN after
    BY <2>3, <1>1 DEF ChanInv
  <2> QED
    BY <2>1, <2>2, <2>3
<1>3. ListedIsOpen'
  BY <1>1 DEF ChanInv, ListedIsOpen
<1>4. dangling' \in [Clients -> SUBSET ChanNames]
  BY <1>1
<1>5. DOMAIN chan' = ChanNames /\ chan' = [m \in ChanNames |-> chan'[m]]
  BY <1>1
<1>6. \A m \in ChanNames : ChannelOK(chan[m])' <=> ChannelOK(chan'[m])
  BY DEF ChannelOK
<1> QED
  BY <1>1, <1>2, <1>3, <1>4, <1>5, <1>6 DEF ChanInv

\* A client that InChannel does not find is not in the channel.
LEMMA NotFoundNotIn ==
  ASSUME ChanInv, NEW c \in Live, NEW n \in open, ~InChannel(c, n)
  PROVE  c \notin chan[n].members
BY DEF InChannel, IsClientInChannel, Matching

-----------------------------------------------------------------------------
(* One lemma per handler.                                                     *)

LEMMA JoinNewInv ==
  ASSUME ChanInv, NEW c \in Clients, NEW n \in ChanNames, JoinNew(c, n)
  PROVE  ChanInv'
<1> DEFINE ch == AddClient(c, NewChannel, TRUE)
<1>1. ChannelOK(ch) /\ ch.members = {c}
  <2>1. ChannelOK(NewChannel) /\ NewChannel.members = {} /\ c \notin NewChannel.members
    BY NewChannelOK
  <2>2. ChannelOK(ch) /\ ch.members = NewChannel.members \cup {c}
    BY <2>1, AddClientOK
  <2> HIDE DEF ch
  <2> QED
    BY <2>1, <2>2
<1> HIDE DEF ch
<1>2. chan' = [chan EXCEPT ![n] = ch] /\ open' = open \cup {n}
      /\ joined' = [joined EXCEPT ![c] = @ \cup {n}] /\ dangling' = dangling /\ up' = up
  BY DEF JoinNew, ch
<1>3. joined' \in [Clients -> SUBSET ChanNames]
      /\ \A d \in Clients : joined'[d] \subseteq joined[d] \cup {n}
  BY <1>2 DEF ChanInv
<1> QED
  BY <1>1, <1>2, <1>3, UpdateOne

LEMMA JoinInv ==
  ASSUME ChanInv, NEW c \in Clients, NEW n \in ChanNames, NEW key, Join(c, n, key)
  PROVE  ChanInv'
<1> DEFINE old == InviteUsed(c, chan[n])
           ch  == AddClient(c, old, FALSE)
<1>1. ChannelOK(old) /\ old.members = chan[n].members
  BY InviteUsedOK DEF ChanInv
<1>2. c \notin old.members
  BY <1>1, NotFoundNotIn DEF Join, Acting
<1> HIDE DEF old
<1>3. ChannelOK(ch) /\ ch.members = old.members \cup {c}
  BY <1>1, <1>2, AddClientOK
<1>4. n \in open /\ chan' = [chan EXCEPT ![n] = ch] /\ open' = open \cup {n}
      /\ joined' = [joined EXCEPT ![c] = @ \cup {n}] /\ dangling' = dangling /\ up' = up
  BY DEF Join, old
<1>5. joined' \in [Clients -> SUBSET ChanNames]
      /\ \A d \in Clients : joined'[d] \subseteq joined[d] \cup {n}
  BY <1>4 DEF ChanInv
<1> HIDE DEF ch
<1> QED
  BY <1>3, <1>4, <1>5, UpdateOne

\* The handlers that change an open channel without changing who is in it.
LEMMA SameMembersInv ==
  ASSUME ChanInv, NEW n \in open, NEW ch, ChannelOK(ch), ch.members = chan[n].members,
         chan' = [chan EXCEPT ![n] = ch],
         UNCHANGED <<open, joined, dangling, up>>
  PROVE  ChanInv'
<1>1. n \in ChanNames /\ ch.members # {} /\ open' = open \cup {n}
  BY DEF ChanInv
<1>2. joined' \in [Clients -> SUBSET ChanNames]
      /\ \A d \in Clients : joined'[d] \subseteq joined[d] \cup {n}
  BY DEF ChanInv
<1> QED
  BY <1>1, <1>2, UpdateOne

LEMMA JoinRefusedInv ==
  ASSUME ChanInv, NEW c \in Clients, NEW n \in ChanNames, NEW key, JoinRefused(c, n, key)
  PROVE  ChanInv'
<1> DEFINE ch == InviteUsed(c, chan[n])
<1>1. ChannelOK(ch) /\ ch.members = chan[n].members
  BY InviteUsedOK DEF ChanInv
<1>2. n \in open /\ chan' = [chan EXCEPT ![n] = ch] /\ UNCHANGED <<open, joined, dangling, up>>
  BY DEF JoinRefused
<1> HIDE DEF ch
<1> QED
  BY <1>1, <1>2, SameMembersInv

LEMMA StoreModeInv ==
  ASSUME ChanInv, NEW c, NEW n \in open, NEW ch, ChannelOK(ch),
         ch.members = chan[n].members, NEW reported, StoreMode(c, n, ch, reported)
  PROVE  ChanInv'
<1>1. PICK p \in AfterMode(ch, c, reported) : chan' = [chan EXCEPT ![n] = p]
  BY DEF StoreMode
<1>2. ChannelOK(p) /\ p.members = chan[n].members
  BY <1>1, AfterModeOK
<1>3. UNCHANGED <<open, joined, dangling, up>>
  BY DEF StoreMode
<1> QED
  BY <1>1, <1>2, <1>3, SameMembersInv

\* What MODE stores is a consistent channel with the same members.
StoresSameMembers(c, n) ==
  \E ch, reported :
    /\ ChannelOK(ch)
    /\ ch.members = chan[n].members
    /\ StoreMode(c, n, ch, reported)

LEMMA ModeChannelStores ==
  ASSUME ChanInv, NEW c \in Clients, NEW n \in ChanNames,
         NEW letter \in {"i", "t", "k", "l"}, NEW on \in BOOLEAN,
         NEW key \in Keys \cup {NoKey}, NEW limit \in Limits \cup {0},
         ModeChannel(c, n, letter, on, key, limit)
  PROVE  n \in open /\ StoresSameMembers(c, n)
<1> DEFINE old == chan[n]
           ch  == [SetMode(old, letter, on) EXCEPT
                     !.key = IF letter # "k" THEN @ ELSE IF on THEN key ELSE NoKey,
                     !.limit = IF letter # "l" THEN @ ELSE IF on THEN limit ELSE 0]
<1>1. n \in open /\ ChannelOK(chan[n])
  BY DEF ModeChannel, MayChangeModes, ChanInv
<1>2. PICK modes \in SUBSET {"i", "t", "k", "l"}, k \in Keys \cup {NoKey}, l \in Limits \cup {0} :
        ch = [chan[n] EXCEPT !.modes = modes, !.key = k, !.limit = l]
  <2>1. chan[n] \in Channel
    BY <1>1 DEF ChannelOK
  <2> DEFINE modes == IF on THEN old.modes \cup {letter} ELSE old.modes \ {letter}
             k == IF letter # "k" THEN old.key ELSE IF on THEN key ELSE NoKey
             l == IF letter # "l" THEN old.limit ELSE IF on THEN limit ELSE 0
  <2>2. modes \in SUBSET {"i", "t", "k", "l"} /\ k \in Keys \cup {NoKey} /\ l \in Limits \cup {0}
    BY <2>1 DEF Channel
  <2>3. ch = [chan[n] EXCEPT !.modes = modes, !.key = k, !.limit = l]
    BY <2>1 DEF SetMode, Channel
  <2> HIDE DEF modes, k, l, ch
  <2> QED
    BY <2>2, <2>3
<1> HIDE DEF ch
<1>3. ChannelOK(ch) /\ ch.members = chan[n].members
  BY <1>1, <1>2 DEF ChannelOK, Channel
<1>4. StoreMode(c, n, ch, on \/ letter \in old.modes)
  BY DEF ModeChannel, ch
<1> QED
  BY <1>1, <1>3, <1>4 DEF StoresSameMembers

LEMMA ModeOperatorStores ==
  ASSUME ChanInv, NEW c \in Clients, NEW n \in ChanNames, NEW on \in BOOLEAN, NEW t,
         ModeOperator(c, n, on, t)
  PROVE  n \in open /\ StoresSameMembers(c, n)
<1> DEFINE ch == [chan[n] EXCEPT !.opCount = IF on THEN @ + 1 ELSE @ - 1,
                                 !.opRemoved = ~on]
<1>1. n \in open /\ ChannelOK(chan[n])
  BY DEF ModeOperator, MayChangeModes, ChanInv
<1>2. PICK m \in Exact(ch, t) :
        StoreMode(c, n, [ch EXCEPT !.ops = IF on THEN @ \cup {m} ELSE @ \ {m}], TRUE)
  BY DEF ModeOperator
<1>3. ch.opCount \in -MaxOpCount..MaxOpCount
  BY DEF ModeOperator
<1>4. chan[n] \in Channel
  BY <1>1 DEF ChannelOK
<1>5. PICK k \in -MaxOpCount..MaxOpCount, b \in BOOLEAN :
        ch = [chan[n] EXCEPT !.opCount = k, !.opRemoved = b]
  <2> DEFINE k == IF on THEN chan[n].opCount + 1 ELSE chan[n].opCount - 1
  <2>1. ch = [chan[n] EXCEPT !.opCount = k, !.opRemoved = ~on]
    OBVIOUS
  <2>2. ch.opCount = k
    BY <1>4, <2>1 DEF Channel
  <2> HIDE DEF k, ch
  <2> QED
    BY <1>3, <2>1, <2>2
<1>6. ch.members = chan[n].members /\ ch.ops = chan[n].ops /\ m \in chan[n].members
  BY <1>2, <1>4, <1>5 DEF Channel, Exact
<1> HIDE DEF ch
<1>7. ChannelOK(ch)
  BY <1>1, <1>5, <1>6 DEF ChannelOK, Channel
<1> DEFINE ops == IF on THEN ch.ops \cup {m} ELSE ch.ops \ {m}
           new == [ch EXCEPT !.ops = ops]
<1>8. ops \subseteq ch.members /\ ops \in SUBSET Clients
  BY <1>1, <1>6 DEF ChannelOK, Channel
<1>9. StoreMode(c, n, new, TRUE)
  BY <1>2
<1> HIDE DEF ops
<1>10. ChannelOK(new) /\ new.members = chan[n].members
  BY <1>6, <1>7, <1>8 DEF ChannelOK, Channel
<1> HIDE DEF new
<1> QED
  BY <1>1, <1>9, <1>10 DEF StoresSameMembers

LEMMA ModeInv ==
  ASSUME ChanInv, NEW c, NEW n \in open, StoresSameMembers(c, n)
  PROVE  ChanInv'
BY StoreModeInv DEF StoresSameMembers

\* One channel left by one member, as PART and KICK leave it.
LEMMA OneDepartureInv ==
  ASSUME ChanInv, NEW n \in open, NEW ch, ChannelOK(ch), NEW d \in Clients,
         StoreChannels(Only(n, ch), WithoutJoined(d, n)), up' = up
  PROVE  ChanInv'
<1> DEFINE after == Only(n, ch)
           lists == WithoutJoined(d, n)
<1>1. DOMAIN after = {n} /\ after[n] = ch
  BY DEF Only
<1>2. lists \in [Clients -> SUBSET ChanNames] /\ \A c \in Clients : lists[c] \subseteq joined[c]
  BY DEF WithoutJoined, ChanInv
<1>3. DOMAIN after \subseteq open /\ \A m \in DOMAIN after : ChannelOK(after[m])
  BY <1>1
<1>4. StoreChannels(after, lists)
  OBVIOUS
<1> HIDE DEF after, lists
<1> QED
  BY <1>2, <1>3, <1>4, StoreChannelsOK

LEMMA PartInv ==
  ASSUME ChanInv, NEW c \in Clients, NEW n \in ChanNames, Part(c, n)
  PROVE  ChanInv'
<1>1. n \in open /\ ChannelOK(chan[n]) /\ up' = up
  BY DEF Part, InChannel, ChanInv
<1>2. PICK ch \in Departed(chan[n], c, nick[c]) :
        StoreChannels(Only(n, ch), WithoutJoined(c, n))
  BY DEF Part
<1> QED
  BY <1>1, <1>2, DepartedOK, OneDepartureInv

LEMMA KickInv ==
  ASSUME ChanInv, NEW c \in Clients, NEW n \in ChanNames, NEW t, Kick(c, n, t)
  PROVE  ChanInv'
<1>1. n \in open /\ ChannelOK(chan[n]) /\ up' = up
  BY DEF Kick, NeedsOperator, InChannel, ChanInv
<1>2. PICK d \in ClientsNamed(t), ch \in Departed(chan[n], c, t) :
        StoreChannels(Only(n, ch), WithoutJoined(d, n))
  BY DEF Kick
<1>3. d \in Clients
  BY DEF ClientsNamed, Live
<1> QED
  BY <1>1, <1>2, <1>3, DepartedOK, OneDepartureInv

\* The end of a session goes through the weak_ptrs that still lock, and those
\* lead to open channels.
LEMMA RemoveClientInv ==
  ASSUME ChanInv, NEW c \in Clients, RemoveClient(c)
  PROVE  ChanInv'
<1> DEFINE mine  == joined[c] \ dangling[c]
           ends  == [n \in mine |-> Departed(chan[n], c, nick[c])]
           lists == [joined EXCEPT ![c] = {}]
<1>1. PICK after \in [mine -> UNION {ends[n] : n \in mine}] :
        /\ \A n \in mine : after[n] \in ends[n]
        /\ StoreChannels(after, lists)
  BY DEF RemoveClient
<1>2. DOMAIN after = mine /\ mine \subseteq open /\ mine \subseteq ChanNames
  BY <1>1 DEF ChanInv, ListedIsOpen
<1>3. ASSUME NEW n \in mine PROVE ChannelOK(after[n])
  <2>1. after[n] \in Departed(chan[n], c, nick[c]) /\ ChannelOK(chan[n])
    BY <1>1, <1>2 DEF ChanInv
  <2> QED
    BY <2>1, DepartedOK
<1>4. lists \in [Clients -> SUBSET ChanNames] /\ \A d \in Clients : lists[d] \subseteq joined[d]
  BY DEF ChanInv
<1>5. up' = up
  BY DEF RemoveClient
<1>6. StoreChannels(after, lists)
  BY <1>1
<1> HIDE DEF mine, lists
<1> QED
  BY <1>2, <1>3, <1>4, <1>5, <1>6, StoreChannelsOK

\* INVITE and TOPIC write a field that says nothing about the members.
LEMMA InviteInv ==
  ASSUME ChanInv, NEW c \in Clients, NEW n \in ChanNames, NEW t \in Targets, Invite(c, t, n)
  PROVE  ChanInv'
<1> DEFINE ch == [chan[n] EXCEPT !.invites = @ \cup {t}]
<1>1. n \in open /\ ChannelOK(chan[n]) /\ chan[n] \in Channel
  BY DEF Invite, AllowedUnder, InChannel, ChanInv, ChannelOK
<1>2. chan' = [chan EXCEPT ![n] = ch] /\ UNCHANGED <<open, joined, dangling, up>>
  BY DEF Invite
<1>3. ChannelOK(ch) /\ ch.members = chan[n].members
  BY <1>1 DEF ChannelOK, Channel
<1> HIDE DEF ch
<1> QED
  BY <1>1, <1>2, <1>3, SameMembersInv

LEMMA TopicInv ==
  ASSUME ChanInv, NEW c \in Clients, NEW n \in ChanNames, NEW text \in Topics, Topic(c, n, text)
  PROVE  ChanInv'
<1> DEFINE ch == [chan[n] EXCEPT !.topic = text]
<1>1. n \in open /\ ChannelOK(chan[n]) /\ chan[n] \in Channel
  BY DEF Topic, AllowedUnder, InChannel, ChanInv, ChannelOK
<1>2. chan' = [chan EXCEPT ![n] = ch] /\ UNCHANGED <<open, joined, dangling, up>>
  BY DEF Topic
<1>3. ChannelOK(ch) /\ ch.members = chan[n].members
  BY <1>1 DEF ChannelOK, Channel
<1> HIDE DEF ch
<1> QED
  BY <1>1, <1>2, <1>3, SameMembersInv

\* What leaves the channels alone, or only ends the server, keeps the invariant.
LEMMA QuietInv ==
  ASSUME ChanInv, UNCHANGED <<open, chan, joined, dangling>>, up' \in BOOLEAN
  PROVE  ChanInv'
BY DEF ChanInv, ListedIsOpen, ChannelOK

-----------------------------------------------------------------------------
(* Every step.                                                                *)

\* A step is a session's, or a handler's on one channel.
LEMMA StepCases ==
  ASSUME Next
  PROVE  \E c \in Clients :
           \/ Session(c)
           \/ RemoveClient(c)
           \/ \E n \in ChanNames :
                \/ JoinNew(c, n) \/ Part(c, n) \/ CallerCrash(c, n)
                \/ \E key \in Keys \cup {NoKey} :
                     Join(c, n, key) \/ JoinRefused(c, n, key) \/ JoinCrash(c, n, key)
                \/ \E letter \in {"i", "t", "k", "l"}, on \in BOOLEAN,
                     key \in Keys \cup {NoKey}, limit \in Limits \cup {0} :
                     ModeChannel(c, n, letter, on, key, limit)
                \/ \E text \in Topics : Topic(c, n, text)
                \/ \E t \in Targets :
                     \/ Kick(c, n, t) \/ Invite(c, t, n) \/ ModeCrash(c, n, t)
                     \/ \E on \in BOOLEAN : ModeOperator(c, n, on, t)
BY DEF Next, OtherCommand

\* What the handlers do to the sessions and their nicknames are steps of
\* NickRegistry: the channels add no way to change a nickname or a descriptor.
LEMMA StepOfNicks == [Next]_vars => [NickNext]_nickVars
<1> SUFFICES ASSUME [Next]_vars PROVE [NickNext]_nickVars
  OBVIOUS
<1>1. ASSUME NEW c \in Clients, Session(c) PROVE NickNext
  BY <1>1 DEF Session, NickNext
<1>2. ASSUME NEW c \in Clients, RemoveClient(c) PROVE NickNext
  BY <1>2 DEF RemoveClient, NickNext
<1>3. ASSUME NEW c, NEW n, NEW key, NEW t,
             \/ JoinNew(c, n) \/ Part(c, n) \/ CallerCrash(c, n)
             \/ Join(c, n, key) \/ JoinRefused(c, n, key) \/ JoinCrash(c, n, key)
             \/ Kick(c, n, t) \/ Invite(c, t, n) \/ ModeCrash(c, n, t) \/ Topic(c, n, t)
      PROVE  UNCHANGED nickVars
  BY <1>3 DEF JoinNew, Part, CallerCrash, Join, JoinRefused, JoinCrash, Kick, Invite,
     ModeCrash, Topic, Crash
<1>4. ASSUME NEW c, NEW n, NEW letter, NEW on, NEW key, NEW limit,
             ModeChannel(c, n, letter, on, key, limit)
      PROVE  UNCHANGED nickVars
  BY <1>4 DEF ModeChannel, StoreMode
<1>5. ASSUME NEW c, NEW n, NEW on, NEW t, ModeOperator(c, n, on, t)
      PROVE  UNCHANGED nickVars
  BY <1>5 DEF ModeOperator, StoreMode
<1>6. CASE Next
  BY <1>6, <1>1, <1>2, <1>3, <1>4, <1>5, StepCases
<1>7. CASE UNCHANGED vars
  BY <1>7 DEF vars
<1> QED
  BY <1>6, <1>7

LEMMA ChanStepInv == ChanInv /\ [Next]_vars => ChanInv'
<1> SUFFICES ASSUME ChanInv, [Next]_vars PROVE ChanInv'
  OBVIOUS
<1>1. ASSUME NEW c \in Clients, Session(c) \/ RemoveClient(c) PROVE ChanInv'
  BY <1>1, QuietInv, RemoveClientInv DEF Session, chanVars, ChanInv
<1>2. ASSUME NEW c \in Clients, NEW n \in ChanNames, JoinNew(c, n) \/ Part(c, n)
      PROVE  ChanInv'
  BY <1>2, JoinNewInv, PartInv
<1>3. ASSUME NEW c \in Clients, NEW n \in ChanNames, NEW key,
             Join(c, n, key) \/ JoinRefused(c, n, key)
      PROVE  ChanInv'
  BY <1>3, JoinInv, JoinRefusedInv
<1>4. ASSUME NEW c, NEW n, NEW key, NEW t,
             JoinCrash(c, n, key) \/ CallerCrash(c, n) \/ ModeCrash(c, n, t)
      PROVE  ChanInv'
  BY <1>4, QuietInv DEF JoinCrash, CallerCrash, ModeCrash, Crash
<1>5. ASSUME NEW c \in Clients, NEW n \in ChanNames, NEW t \in Targets,
             \/ Kick(c, n, t) \/ Invite(c, t, n)
             \/ \E on \in BOOLEAN : ModeOperator(c, n, on, t)
      PROVE  ChanInv'
  BY <1>5, KickInv, InviteInv, ModeOperatorStores, ModeInv
<1>6. ASSUME NEW c \in Clients, NEW n \in ChanNames, NEW text \in Topics, Topic(c, n, text)
      PROVE  ChanInv'
  BY <1>6, TopicInv
<1>7. ASSUME NEW c \in Clients, NEW n \in ChanNames,
             NEW letter \in {"i", "t", "k", "l"}, NEW on \in BOOLEAN,
             NEW key \in Keys \cup {NoKey}, NEW limit \in Limits \cup {0},
             ModeChannel(c, n, letter, on, key, limit)
      PROVE  ChanInv'
  BY <1>7, ModeChannelStores, ModeInv
<1>8. CASE Next
  BY <1>8, <1>1, <1>2, <1>3, <1>4, <1>5, <1>6, <1>7, StepCases
<1>9. CASE UNCHANGED vars
  BY <1>9, QuietInv DEF vars, chanVars, ChanInv
<1> QED
  BY <1>8, <1>9

LEMMA ChanInitInv == Init => ChanInv
BY NewChannelOK DEF Init, ChanInv, ListedIsOpen

LEMMA IInvImplies == IInv => TypeOK /\ Bookkeeping
<1> SUFFICES ASSUME IInv PROVE TypeOK /\ Bookkeeping
  OBVIOUS
<1>1. chan \in [ChanNames -> Channel]
  BY DEF IInv, ChanInv, ChannelOK
<1> QED
  BY <1>1 DEF IInv, NickInv, ChanInv, ChannelOK, TypeOK, Bookkeeping

LEMMA IInvHolds == Spec => []IInv
<1>1. Init => IInv
  BY NickInitInv, ChanInitInv DEF Init, IInv
<1>2. IInv /\ [Next]_vars => IInv'
  BY NickStepInv, ChanStepInv, StepOfNicks DEF IInv
<1> QED
  BY <1>1, <1>2, PTL DEF Spec

\* The variables keep their types whatever the clients send.
THEOREM TypeCorrect == Spec => []TypeOK
BY IInvHolds, IInvImplies, PTL

\* The member counter is exact, operators are members, and a channel is in the
\* server's map exactly while it has an entry.
THEOREM BookkeepingHolds == Spec => []Bookkeeping
BY IInvHolds, IInvImplies, PTL

\* Nicknames stay unique, and lead to the right client, while the channel
\* handlers run.
THEOREM NicksStayUnique == Spec => [](NicksUnique /\ NickReaches)
<1>1. IInv => NicksUnique /\ NickReaches
  BY InvUnique, InvReaches DEF IInv
<1> QED
  BY <1>1, IInvHolds, PTL

-----------------------------------------------------------------------------
(* The two sides of a membership agree, and the channels are the rooms of      *)
(* Rooms, for any number of clients and channels, as long as every nickname is *)
(* in lower case and clients have one before they use channels.  GhostMember   *)
(* shows that neither holds without.                                           *)

\* The restriction: Lower is the identity.
LowerNames == NamedOnly /\ \A s \in AllNicks : Lower[s] = s

\* A client lists exactly the channels that list it, no list outlives its
\* channel, and only named live clients are members.
ListInv ==
  /\ \A c \in Clients, n \in ChanNames : c \in chan[n].members <=> n \in joined[c]
  /\ \A c \in Clients : dangling[c] = {}
  /\ \A c \in Clients : joined[c] # {} => c \in Live /\ nick[c] # NoNick

\* What a handler may do to the members of channel n: nothing else changes.
MembersBecome(n, members) ==
  \A m \in ChanNames : chan'[m].members = IF m = n THEN members ELSE chan[m].members

LEMMA MemberIsLive ==
  ASSUME ChanInv, ListInv, NEW n \in ChanNames, NEW m \in chan[n].members
  PROVE  m \in Live /\ nick[m] # NoNick
<1>1. m \in Clients
  BY MembersFinite DEF ChanInv, ChannelOK
<1> QED
  BY <1>1 DEF ListInv

\* The lookup by the spelled nickname finds the member that has it, and only it.
LEMMA MatchingFindsOne ==
  ASSUME LowerNames, IInv, NEW ch, NEW d \in Live, d \in ch.members, nick[d] # NoNick
  PROVE  d \in Matching(ch, nick[d]) /\ \A m \in Matching(ch, nick[d]) : m = d
<1>1. Lower[nick[d]] = nick[d]
  BY DEF LowerNames, IInv, NickInv, NickTypeOK, Live
<1>2. \A m \in Live : Lower[nick[m]] = nick[d] => m = d
  BY <1>1, SameNameSameClient DEF IInv
<1> QED
  BY <1>1, <1>2 DEF Matching

\* Who is removed under the nickname it has leaves, whoever is promoted before.
LEMMA DepartedMembers ==
  ASSUME NEW ch, ChannelOK(ch), NEW c, NEW s, NEW d \in Matching(ch, s),
         \A m \in Matching(ch, s) : m = d,
         NEW p \in Departed(ch, c, s)
  PROVE  p.members = ch.members \ {d}
<1>1. PICK q \in Promoted(ch, Heirs(ch, c, TRUE)) : p \in RemoveClientByNickname(q, s)
  BY DEF Departed
<1>2. ChannelOK(q) /\ q.members = ch.members
  BY <1>1, PromotedOK, HeirsAreMembers
<1>3. Matching(q, s) = {d}
  BY <1>2 DEF Matching
<1>4. p = [q EXCEPT !.members = @ \ {d}, !.ops = @ \ {d}, !.count = @ - 1]
  BY <1>1, <1>3 DEF RemoveClientByNickname
<1> QED
  BY <1>2, <1>4 DEF ChannelOK, Channel

\* Whoever InChannel finds is the client itself.
LEMMA FoundIsIn ==
  ASSUME IInv, NEW c \in Live, nick[c] # NoNick, NEW n, InChannel(c, n)
  PROVE  n \in open /\ c \in chan[n].members
<1>1. PICK m \in chan[n].members \cap Live : Lower[nick[m]] = Lower[nick[c]]
  BY DEF InChannel, IsClientInChannel, Matching
<1>2. m = c
  BY <1>1, SameNameSameClient DEF IInv
<1> QED
  BY <1>1, <1>2 DEF InChannel

-----------------------------------------------------------------------------
(* What steps do to memberships: nothing, one in, one out.                    *)

LEMMA NobodyMoves ==
  ASSUME ListInv, UNCHANGED <<nickVars, joined, dangling>>,
         \A n \in ChanNames : chan'[n].members = chan[n].members
  PROVE  ListInv' /\ UNCHANGED Rooms!roomVars
<1>1. Live' = Live
  BY DEF Live, nickVars
<1>2. ListInv'
  BY <1>1 DEF ListInv, nickVars
<1>3. UNCHANGED Rooms!roomVars
  BY <1>1 DEF Rooms!roomVars, nickVars
<1> QED
  BY <1>2, <1>3

LEMMA OneEnters ==
  ASSUME IInv, ListInv, NEW c \in Live, nick[c] # NoNick, NEW n \in ChanNames,
         c \notin chan[n].members,
         joined' = [joined EXCEPT ![c] = @ \cup {n}],
         MembersBecome(n, chan[n].members \cup {c}),
         UNCHANGED <<nickVars, dangling>>
  PROVE  ListInv' /\ Rooms!Enter(c, n)
<1>1. c \in Clients /\ Live' = Live
  BY DEF Live, nickVars
<1>2. joined \in [Clients -> SUBSET ChanNames]
  BY DEF IInv, ChanInv
<1>3. ASSUME NEW d \in Clients, NEW m \in ChanNames
      PROVE  d \in chan'[m].members <=> m \in joined'[d]
  BY <1>1, <1>2 DEF MembersBecome, ListInv
<1>4. ListInv'
  BY <1>1, <1>2, <1>3 DEF ListInv, nickVars
<1>5. Rooms!Enter(c, n)
  BY <1>1 DEF Rooms!Enter, MembersBecome, nickVars
<1> QED
  BY <1>4, <1>5

\* What StoreChannels makes of the members.
LEMMA StoredMembers ==
  ASSUME NEW after, NEW lists, StoreChannels(after, lists), NEW n \in ChanNames
  PROVE  chan'[n].members = IF n \in DOMAIN after THEN after[n].members ELSE chan[n].members
BY NewChannelOK DEF StoreChannels

\* Lists that agree with the members stored leave no weak_ptr expired.
LEMMA StoredLists ==
  ASSUME ListInv, NEW after, DOMAIN after \subseteq ChanNames, NEW lists,
         StoreChannels(after, lists),
         \A c \in Clients, n \in ChanNames : c \in chan'[n].members <=> n \in lists[c],
         \A c \in Clients : lists[c] # {} => c \in Live' /\ nick'[c] # NoNick
  PROVE  ListInv'
<1>1. joined' = lists
  BY DEF StoreChannels
<1>2. ASSUME NEW c \in Clients PROVE dangling'[c] = {}
  <2>1. dangling'[c] = lists[c] \cap {n \in DOMAIN after : after[n].members = {}}
    BY DEF StoreChannels, ListInv
  <2>2. \A n \in DOMAIN after : chan'[n].members = after[n].members
    BY StoredMembers
  <2> QED
    BY <2>1, <2>2
<1> QED
  BY <1>1, <1>2 DEF ListInv

LEMMA OneLeaves ==
  ASSUME IInv, ListInv, NEW n \in ChanNames, NEW d \in chan[n].members,
         NEW ch, ch.members = chan[n].members \ {d},
         StoreChannels(Only(n, ch), WithoutJoined(d, n)), UNCHANGED nickVars
  PROVE  ListInv' /\ Rooms!Leave(d, n)
<1> DEFINE after == Only(n, ch)
           lists == WithoutJoined(d, n)
<1>1. DOMAIN after = {n} /\ after[n] = ch /\ StoreChannels(after, lists)
  BY DEF Only
<1>2. Live' = Live /\ d \in Live
  BY MemberIsLive DEF Live, nickVars, IInv
<1>3. d \in Clients /\ lists = [joined EXCEPT ![d] = @ \ {n}]
  BY <1>2 DEF WithoutJoined, Live
<1>4. joined \in [Clients -> SUBSET ChanNames]
  BY DEF IInv, ChanInv
<1> HIDE DEF after, lists
<1>5. MembersBecome(n, chan[n].members \ {d})
  BY <1>1, StoredMembers DEF MembersBecome
<1>6. ASSUME NEW c \in Clients, NEW m \in ChanNames
      PROVE  c \in chan'[m].members <=> m \in lists[c]
  BY <1>3, <1>4, <1>5 DEF MembersBecome, ListInv
<1>7. \A c \in Clients : lists[c] # {} => c \in Live' /\ nick'[c] # NoNick
  BY <1>2, <1>3, <1>4 DEF ListInv, nickVars
<1>8. ListInv'
  BY <1>1, <1>6, <1>7, StoredLists
<1>9. Rooms!Leave(d, n)
  BY <1>2, <1>5 DEF Rooms!Leave, MembersBecome, nickVars
<1> QED
  BY <1>8, <1>9

-----------------------------------------------------------------------------
(* One lemma per handler that moves somebody.                                 *)

LEMMA ActingNamed ==
  ASSUME LowerNames, NEW c, Acting(c)
  PROVE  c \in Live /\ nick[c] # NoNick
BY DEF LowerNames, Acting

LEMMA JoinNewMoves ==
  ASSUME LowerNames, IInv, ListInv, NEW c \in Clients, NEW n \in ChanNames, JoinNew(c, n)
  PROVE  ListInv' /\ Rooms!Enter(c, n)
<1>1. c \in Live /\ nick[c] # NoNick
  BY ActingNamed DEF JoinNew
<1>2. chan[n].members = {}
  BY DEF JoinNew, IInv, ChanInv
<1>3. AddClient(c, NewChannel, TRUE).members = {c}
  <2>1. ChannelOK(NewChannel) /\ NewChannel.members = {} /\ c \notin NewChannel.members
    BY NewChannelOK
  <2>2. AddClient(c, NewChannel, TRUE).members = NewChannel.members \cup {c}
    BY <2>1, AddClientOK
  <2> QED
    BY <2>1, <2>2
<1>4. MembersBecome(n, chan[n].members \cup {c})
  BY <1>2, <1>3 DEF JoinNew, MembersBecome, IInv, ChanInv
<1> QED
  BY <1>1, <1>2, <1>4, OneEnters DEF JoinNew

LEMMA JoinMoves ==
  ASSUME LowerNames, IInv, ListInv, NEW c \in Clients, NEW n \in ChanNames, NEW key,
         Join(c, n, key)
  PROVE  ListInv' /\ Rooms!Enter(c, n)
<1> DEFINE old == InviteUsed(c, chan[n])
<1>1. c \in Live /\ nick[c] # NoNick
  BY ActingNamed DEF Join
<1>2. c \notin chan[n].members
  BY <1>1, NotFoundNotIn DEF Join, IInv
<1>3. ChannelOK(old) /\ old.members = chan[n].members
  BY InviteUsedOK DEF IInv, ChanInv
<1>4. chan' = [chan EXCEPT ![n] = AddClient(c, old, FALSE)]
  BY DEF Join
<1> HIDE DEF old
<1>5. AddClient(c, old, FALSE).members = chan[n].members \cup {c}
  <2>1. c \notin old.members
    BY <1>2, <1>3
  <2>2. AddClient(c, old, FALSE).members = old.members \cup {c}
    BY <1>3, <2>1, AddClientOK
  <2> QED
    BY <1>3, <2>2
<1>6. MembersBecome(n, chan[n].members \cup {c})
  BY <1>4, <1>5 DEF MembersBecome, IInv, ChanInv
<1> QED
  BY <1>1, <1>2, <1>6, OneEnters DEF Join

LEMMA PartMoves ==
  ASSUME LowerNames, IInv, ListInv, NEW c \in Clients, NEW n \in ChanNames, Part(c, n)
  PROVE  ListInv' /\ Rooms!Leave(c, n)
<1>1. c \in Live /\ nick[c] # NoNick
  BY ActingNamed DEF Part
<1>2. c \in chan[n].members
  BY <1>1, FoundIsIn DEF Part
<1>3. PICK ch \in Departed(chan[n], c, nick[c]) :
        StoreChannels(Only(n, ch), WithoutJoined(c, n))
  BY DEF Part
<1>4. ch.members = chan[n].members \ {c}
  <2>1. ChannelOK(chan[n])
    BY DEF IInv, ChanInv
  <2>2. c \in Matching(chan[n], nick[c]) /\ \A m \in Matching(chan[n], nick[c]) : m = c
    BY <1>1, <1>2, MatchingFindsOne
  <2> QED
    BY <1>3, <2>1, <2>2, DepartedMembers
<1> QED
  BY <1>2, <1>3, <1>4, OneLeaves DEF Part

\* The client whose list loses the channel, which the registry names, is the
\* member removed, which is found among the members.
LEMMA KickMoves ==
  ASSUME LowerNames, IInv, ListInv, NEW c \in Clients, NEW n \in ChanNames,
         NEW t \in Targets, Kick(c, n, t)
  PROVE  ListInv' /\ \E d \in ClientsNamed(t) : Rooms!Leave(d, n)
<1>1. PICK d \in ClientsNamed(t), ch \in Departed(chan[n], c, t) :
        /\ IsClientInChannel(chan[n], Lower[t])
        /\ StoreChannels(Only(n, ch), WithoutJoined(d, n))
  BY DEF Kick
<1>2. Lower[t] = t
  BY DEF LowerNames, Targets, AllNicks
<1>3. PICK m \in chan[n].members \cap Live : Lower[nick[m]] = t
  BY <1>1, <1>2 DEF IsClientInChannel, Matching
<1>4. nick[m] # NoNick /\ nick[m] = t
  BY <1>3, MemberIsLive DEF IInv, LowerNames, NickInv, NickTypeOK, Live
<1>5. nickToFd[t] = fdOf[m]
  BY <1>3, <1>4 DEF IInv, NickInv, OwnEntry
<1>6. d = m
  BY <1>1, <1>2, <1>3, <1>5 DEF ClientsNamed, IInv, NickInv, FdsDistinct
<1>7. d \in Matching(chan[n], t) /\ \A k \in Matching(chan[n], t) : k = d
  BY <1>3, <1>4, <1>6, MatchingFindsOne
<1>8. ch.members = chan[n].members \ {d}
  <2>1. ChannelOK(chan[n])
    BY DEF IInv, ChanInv
  <2> QED
    BY <1>1, <1>7, <2>1, DepartedMembers
<1>9. ListInv' /\ Rooms!Leave(d, n)
  BY <1>1, <1>3, <1>6, <1>8, OneLeaves DEF Kick
<1> QED
  BY <1>1, <1>9

\* A disconnection empties the client's list and takes it off each of its channels.
LEMMA RemoveClientMoves ==
  ASSUME LowerNames, IInv, ListInv, NEW c \in Clients, RemoveClient(c)
  PROVE  ListInv' /\ Rooms!Go(c)
<1> DEFINE mine  == joined[c] \ dangling[c]
           ends  == [n \in mine |-> Departed(chan[n], c, nick[c])]
           lists == [joined EXCEPT ![c] = {}]
<1>1. PICK after \in [mine -> UNION {ends[n] : n \in mine}] :
        /\ \A n \in mine : after[n] \in ends[n]
        /\ StoreChannels(after, lists)
  BY DEF RemoveClient
<1>2. joined \in [Clients -> SUBSET ChanNames] /\ mine = joined[c]
  BY DEF IInv, ChanInv, ListInv
<1>3. /\ DOMAIN after = joined[c] /\ joined[c] \subseteq ChanNames
      /\ StoreChannels(after, lists) /\ lists = [joined EXCEPT ![c] = {}]
      /\ \A n \in joined[c] : after[n] \in Departed(chan[n], c, nick[c])
  BY <1>1, <1>2
<1> HIDE DEF mine, ends, lists
<1>4. c \in Live /\ Live' = Live \ {c}
  BY DEF RemoveClient, Forget, Live, IInv, NickInv, NickTypeOK
<1>5. ASSUME NEW n \in ChanNames
      PROVE  chan'[n].members = chan[n].members \ {c}
  <2>1. CASE n \in joined[c]
    <3>1. c \in chan[n].members /\ nick[c] # NoNick
      BY <2>1 DEF ListInv
    <3>2. ChannelOK(chan[n])
      BY DEF IInv, ChanInv
    <3>3. c \in Matching(chan[n], nick[c]) /\ \A m \in Matching(chan[n], nick[c]) : m = c
      BY <1>4, <3>1, MatchingFindsOne
    <3>4. after[n].members = chan[n].members \ {c}
      BY <1>3, <2>1, <3>2, <3>3, DepartedMembers
    <3> QED
      BY <1>3, <2>1, <3>4, StoredMembers
  <2>2. CASE n \notin joined[c]
    <3>1. c \notin chan[n].members
      BY <2>2 DEF ListInv
    <3> QED
      BY <1>3, <2>2, <3>1, StoredMembers
  <2> QED
    BY <2>1, <2>2
<1>6. ASSUME NEW d \in Clients, NEW n \in ChanNames
      PROVE  d \in chan'[n].members <=> n \in lists[d]
  BY <1>2, <1>3, <1>5 DEF ListInv
<1>7. ASSUME NEW d \in Clients, lists[d] # {} PROVE d \in Live' /\ nick'[d] # NoNick
  <2>1. d # c /\ d \in Live /\ nick[d] # NoNick
    BY <1>2, <1>3, <1>7 DEF ListInv
  <2> QED
    BY <1>4, <2>1 DEF RemoveClient, Forget, IInv, NickInv, NickTypeOK
<1>8. ListInv'
  BY <1>3, <1>6, <1>7, StoredLists
<1>9. Rooms!Go(c)
  <2>1. {d \in Clients : conn'[d] # "none"} = {d \in Clients : conn[d] # "none"}
    BY <1>4 DEF RemoveClient, Forget, Live, IInv, NickInv, NickTypeOK
  <2> QED
    BY <1>4, <1>5, <2>1 DEF Rooms!Go
<1> QED
  BY <1>8, <1>9

\* Connecting and naming oneself moves nobody.
LEMMA SessionMoves ==
  ASSUME IInv, ListInv, NEW c \in Clients, Session(c)
  PROVE  ListInv' /\ [Rooms!Next]_(Rooms!roomVars)
<1>1. CASE Connect(c)
  <2>1. Live' = Live \cup {c} /\ nick' = nick
    BY <1>1 DEF Connect, Live, IInv, NickInv, NickTypeOK
  <2>2. c \notin {d \in Clients : conn[d] # "none"}
        /\ {d \in Clients : conn'[d] # "none"} = {d \in Clients : conn[d] # "none"} \cup {c}
    BY <1>1 DEF Connect, IInv, NickInv, NickTypeOK
  <2>3. UNCHANGED <<chan, joined, dangling>>
    BY DEF Session, chanVars
  <2>4. ListInv'
    BY <2>1, <2>3 DEF ListInv
  <2>5. Rooms!Arrive(c)
    BY <2>1, <2>2, <2>3 DEF Rooms!Arrive
  <2> QED
    BY <2>4, <2>5 DEF Rooms!Next
<1>2. ASSUME NEW new \in Nicks \cup AnonNicks, UpdateNickname(c, new)
      PROVE  ListInv' /\ UNCHANGED Rooms!roomVars
  <2>1. conn' = conn /\ Live' = Live /\ UNCHANGED <<chan, joined, dangling>>
    BY <1>2 DEF UpdateNickname, Live, Session, chanVars
  <2>2. \A d \in Clients : nick[d] # NoNick => nick'[d] # NoNick
    BY <1>2, NickAssumption DEF UpdateNickname, IInv, NickInv, NickTypeOK
  <2>3. ListInv'
    BY <2>1, <2>2 DEF ListInv
  <2> QED
    BY <2>1, <2>3 DEF Rooms!roomVars
<1> QED
  BY <1>1, <1>2 DEF Session, TakeNick, TakeAnonNick

-----------------------------------------------------------------------------
(* Every step.                                                                *)

\* The commands that write a channel without touching its members, its operators
\* or its settings.
SameBut(n) ==
  /\ \A m \in ChanNames \ {n} : chan'[m] = chan[m]
  /\ chan'[n].members = chan[n].members
  /\ chan'[n].ops = chan[n].ops
  /\ Settings(chan'[n]) = Settings(chan[n])

LEMMA OthersSame ==
  ASSUME IInv, NEW c \in Clients, NEW n \in ChanNames, NEW key, NEW t,
         \/ JoinRefused(c, n, key) \/ JoinCrash(c, n, key) \/ CallerCrash(c, n)
         \/ Invite(c, t, n) \/ Topic(c, n, t) \/ ModeCrash(c, n, t)
  PROVE  SameBut(n)
<1>1. chan[n] \in Channel /\ DOMAIN chan = ChanNames
  BY DEF IInv, ChanInv, ChannelOK
<1>2. CASE JoinRefused(c, n, key)
  <2>1. chan' = [chan EXCEPT ![n] = InviteUsed(c, chan[n])]
    BY <1>2 DEF JoinRefused
  <2>2. CASE "i" \in chan[n].modes
    BY <1>1, <2>1, <2>2 DEF InviteUsed, SameBut, Settings, Channel
  <2>3. CASE "i" \notin chan[n].modes
    BY <1>1, <2>1, <2>3 DEF InviteUsed, SameBut, Settings
  <2> QED
    BY <2>2, <2>3
<1>3. CASE Invite(c, t, n) \/ Topic(c, n, t)
  BY <1>1, <1>3 DEF Invite, Topic, SameBut, Settings, Channel
<1>4. CASE JoinCrash(c, n, key) \/ CallerCrash(c, n) \/ ModeCrash(c, n, t)
  BY <1>4 DEF JoinCrash, CallerCrash, ModeCrash, Crash, SameBut
<1> QED
  BY <1>2, <1>3, <1>4

LEMMA OthersMoveNobody ==
  ASSUME IInv, ListInv, NEW c \in Clients, NEW n \in ChanNames, NEW key, NEW t,
         \/ JoinRefused(c, n, key) \/ JoinCrash(c, n, key) \/ CallerCrash(c, n)
         \/ Invite(c, t, n) \/ Topic(c, n, t) \/ ModeCrash(c, n, t)
  PROVE  ListInv' /\ UNCHANGED Rooms!roomVars
<1>1. \A m \in ChanNames : chan'[m].members = chan[m].members
  BY OthersSame DEF SameBut
<1>2. UNCHANGED <<nickVars, joined, dangling>>
  BY DEF JoinRefused, JoinCrash, CallerCrash, Invite, Topic, ModeCrash, Crash
<1> QED
  BY <1>1, <1>2, NobodyMoves

LEMMA ModeSameMembers ==
  ASSUME IInv, NEW c, NEW n \in ChanNames, StoresSameMembers(c, n)
  PROVE  /\ \A m \in ChanNames : chan'[m].members = chan[m].members
         /\ \A m \in ChanNames \ {n} : chan'[m] = chan[m]
<1>1. PICK ch, reported : /\ ChannelOK(ch)
                          /\ ch.members = chan[n].members
                          /\ StoreMode(c, n, ch, reported)
  BY DEF StoresSameMembers
<1>2. PICK p \in AfterMode(ch, c, reported) : chan' = [chan EXCEPT ![n] = p]
  BY <1>1 DEF StoreMode
<1>3. p.members = chan[n].members
  BY <1>1, <1>2, AfterModeOK
<1> QED
  BY <1>2, <1>3 DEF IInv, ChanInv

LEMMA ModeMovesNobody ==
  ASSUME IInv, ListInv, NEW c, NEW n \in ChanNames, StoresSameMembers(c, n)
  PROVE  ListInv' /\ UNCHANGED Rooms!roomVars
<1>1. UNCHANGED <<nickVars, joined, dangling>>
  BY DEF StoresSameMembers, StoreMode
<1> QED
  BY <1>1, ModeSameMembers, NobodyMoves

\* A step that keeps the lists and is one of Rooms or moves nobody.
Moves == ListInv' /\ [Rooms!Next]_(Rooms!roomVars)

LEMMA ListStep ==
  ASSUME LowerNames, IInv, ListInv, [Next]_vars
  PROVE  Moves
<1>1. ASSUME NEW c \in Clients, Session(c) \/ RemoveClient(c) PROVE Moves
  BY <1>1, SessionMoves, RemoveClientMoves DEF Moves, Rooms!Next
<1>2. ASSUME NEW c \in Clients, NEW n \in ChanNames, JoinNew(c, n) \/ Part(c, n)
      PROVE  Moves
  BY <1>2, JoinNewMoves, PartMoves DEF Moves, Rooms!Next
<1>3. ASSUME NEW c \in Clients, NEW n \in ChanNames, NEW key, Join(c, n, key)
      PROVE  Moves
  BY <1>3, JoinMoves DEF Moves, Rooms!Next
<1>4. ASSUME NEW c \in Clients, NEW n \in ChanNames, NEW t \in Targets, Kick(c, n, t)
      PROVE  Moves
  BY <1>4, KickMoves DEF Moves, Rooms!Next, ClientsNamed, Live
<1>5. ASSUME NEW c \in Clients, NEW n \in ChanNames, NEW key, NEW t,
             \/ JoinRefused(c, n, key) \/ JoinCrash(c, n, key) \/ CallerCrash(c, n)
             \/ Invite(c, t, n) \/ Topic(c, n, t) \/ ModeCrash(c, n, t)
      PROVE  Moves
  BY <1>5, OthersMoveNobody DEF Moves
<1>6. ASSUME NEW c \in Clients, NEW n \in ChanNames,
             NEW letter \in {"i", "t", "k", "l"}, NEW on \in BOOLEAN,
             NEW key \in Keys \cup {NoKey}, NEW limit \in Limits \cup {0},
             ModeChannel(c, n, letter, on, key, limit)
      PROVE  Moves
  BY <1>6, ModeChannelStores, ModeMovesNobody DEF Moves, IInv
<1>7. ASSUME NEW c \in Clients, NEW n \in ChanNames, NEW on \in BOOLEAN, NEW t,
             ModeOperator(c, n, on, t)
      PROVE  Moves
  BY <1>7, ModeOperatorStores, ModeMovesNobody DEF Moves, IInv
<1>8. CASE UNCHANGED vars
  BY <1>8, NobodyMoves DEF Moves, vars, chanVars
<1>9. CASE Next
  <2>1. ASSUME NEW c \in Clients, NEW n \in ChanNames, NEW key,
               JoinRefused(c, n, key) \/ JoinCrash(c, n, key)
        PROVE  Moves
    BY <1>5, <2>1
  <2>2. ASSUME NEW c \in Clients, NEW n \in ChanNames, NEW t,
               CallerCrash(c, n) \/ Invite(c, t, n) \/ Topic(c, n, t) \/ ModeCrash(c, n, t)
        PROVE  Moves
    BY <1>5, <2>2
  <2> QED
    BY <1>1, <1>2, <1>3, <1>4, <1>6, <1>7, <1>9, <2>1, <2>2, StepCases
<1> QED
  BY <1>8, <1>9

LEMMA ListInvHolds == ASSUME LowerNames PROVE Spec => [](IInv /\ ListInv)
<1>1. Init => ListInv
  BY DEF Init, ListInv, NewChannel
<1>2. Init => IInv
  BY NickInitInv, ChanInitInv DEF Init, IInv
<1>3. IInv /\ ListInv /\ [Next]_vars => IInv' /\ ListInv'
  BY NickStepInv, ChanStepInv, StepOfNicks, ListStep DEF IInv, Moves
<1> QED
  BY <1>1, <1>2, <1>3, PTL DEF Spec

\* While names are in lower case, a client's list of channels and the channels'
\* lists of members always tell the same.
THEOREM ListsAlwaysAgree == ASSUME LowerNames PROVE Spec => []ListsAgree
<1>1. IInv /\ ListInv => ListsAgree
  BY DEF IInv, ChanInv, ListInv, ListsAgree, Live
<1> QED
  BY <1>1, ListInvHolds, PTL

\* While names are in lower case, no channel keeps a client that has disconnected.
THEOREM NoGhostsEver == ASSUME LowerNames PROVE Spec => []NoGhosts
<1>1. IInv /\ ListInv => NoGhosts
  BY MemberIsLive DEF IInv, NoGhosts, Ghosts
<1> QED
  BY <1>1, ListInvHolds, PTL

\* While names are in lower case, every step of a handler enters, leaves, arrives
\* or goes as Rooms allows, or moves nobody.
THEOREM ChannelsImplementRooms == ASSUME LowerNames PROVE Spec => RoomsSpec
<1>1. Init => Rooms!Init
  BY DEF Init, NickInit, Rooms!Init, Live, NewChannel
<1>2. IInv /\ ListInv /\ [Next]_vars => [Rooms!Next]_(Rooms!roomVars)
  BY ListStep DEF Moves
<1> QED
  BY <1>1, <1>2, ListInvHolds, PTL DEF Spec, RoomsSpec, Rooms!Spec

-----------------------------------------------------------------------------
(* Admission, which holds for names in any case.                              *)

LEMMA DepartedKeeps ==
  ASSUME NEW ch, ChannelOK(ch), NEW c, NEW s, NEW p \in Departed(ch, c, s)
  PROVE  p.members \subseteq ch.members /\ Settings(p) = Settings(ch)
<1>1. PICK q \in Promoted(ch, Heirs(ch, c, TRUE)) : p \in RemoveClientByNickname(q, s)
  BY DEF Departed
<1>2. ch \in Channel
  BY DEF ChannelOK
<1>3. q.members = ch.members /\ Settings(q) = Settings(ch) /\ q \in Channel
  <2>1. ChannelOK(q) /\ q.members = ch.members
    BY <1>1, PromotedOK, HeirsAreMembers
  <2>2. Settings(q) = Settings(ch)
    BY <1>1, <1>2 DEF Promoted, Settings, Channel
  <2> QED
    BY <2>1, <2>2 DEF ChannelOK
<1>4. p.members \subseteq q.members /\ Settings(p) = Settings(q)
  <2>1. CASE Matching(q, s) = {}
    BY <1>1, <2>1 DEF RemoveClientByNickname
  <2>2. CASE Matching(q, s) # {}
    <3>1. PICK m \in Matching(q, s) :
            p = [q EXCEPT !.members = @ \ {m}, !.ops = @ \ {m}, !.count = @ - 1]
      BY <1>1, <2>2 DEF RemoveClientByNickname
    <3> QED
      BY <1>3, <3>1 DEF Settings, Channel
  <2> QED
    BY <2>1, <2>2
<1> QED
  BY <1>3, <1>4

\* What PART, KICK and a disconnection store: what is not erased shrinks and keeps its
\* settings.
LEMMA LeavingShrinks ==
  ASSUME IInv, NEW c \in Clients, NEW n \in ChanNames, NEW t, NEW m \in open,
         Part(c, n) \/ Kick(c, n, t) \/ RemoveClient(c)
  PROVE  /\ chan'[m].members \subseteq chan[m].members
         /\ m \in open' => Settings(chan'[m]) = Settings(chan[m])
<1>1. ASSUME NEW after, NEW lists, StoreChannels(after, lists), DOMAIN after \subseteq open,
             \A k \in DOMAIN after : \E s : after[k] \in Departed(chan[k], c, s)
      PROVE  /\ chan'[m].members \subseteq chan[m].members
             /\ m \in open' => Settings(chan'[m]) = Settings(chan[m])
  <2>1. m \in ChanNames /\ ChannelOK(chan[m])
    BY DEF IInv, ChanInv
  <2>2. m \in open' => chan'[m] = IF m \in DOMAIN after THEN after[m] ELSE chan[m]
    BY <1>1, <2>1 DEF StoreChannels
  <2>3. m \in DOMAIN after =>
          after[m].members \subseteq chan[m].members /\ Settings(after[m]) = Settings(chan[m])
    BY <1>1, <2>1, DepartedKeeps
  <2>4. chan'[m].members = IF m \in DOMAIN after THEN after[m].members ELSE chan[m].members
    BY <1>1, <2>1, StoredMembers
  <2> QED
    BY <2>2, <2>3, <2>4
<1>2. CASE Part(c, n) \/ Kick(c, n, t)
  <2>1. PICK ch, s, d : ch \in Departed(chan[n], c, s) /\ StoreChannels(Only(n, ch), WithoutJoined(d, n))
    BY <1>2 DEF Part, Kick
  <2>2. n \in open
    BY <1>2 DEF Part, Kick, NeedsOperator, InChannel
  <2> DEFINE after == Only(n, ch)
  <2>3. DOMAIN after = {n} /\ after[n] = ch
    BY DEF Only
  <2>4. StoreChannels(after, WithoutJoined(d, n))
    BY <2>1
  <2> HIDE DEF after
  <2> QED
    BY <1>1, <2>1, <2>2, <2>3, <2>4
<1>3. CASE RemoveClient(c)
  <2> DEFINE mine  == joined[c] \ dangling[c]
             ends  == [k \in mine |-> Departed(chan[k], c, nick[c])]
             lists == [joined EXCEPT ![c] = {}]
  <2>1. PICK after \in [mine -> UNION {ends[k] : k \in mine}] :
          /\ \A k \in mine : after[k] \in ends[k]
          /\ StoreChannels(after, lists)
    BY <1>3 DEF RemoveClient
  <2>2. DOMAIN after = mine /\ mine \subseteq open
        /\ \A k \in mine : after[k] \in Departed(chan[k], c, nick[c])
    BY <2>1 DEF IInv, ChanInv, ListedIsOpen
  <2> HIDE DEF mine, lists
  <2> QED
    BY <1>1, <2>1, <2>2
<1> QED
  BY <1>2, <1>3

\* Nobody becomes a member of a channel that exists but by a JOIN that was let in.
LetIn(d, n) == \E key : Join(d, n, key)

LEMMA EntersByJoin ==
  ASSUME IInv, [Next]_vars, NEW n \in open, NEW d \in chan'[n].members \ chan[n].members
  PROVE  LetIn(d, n)
<1>0. n \in ChanNames
  BY DEF IInv, ChanInv
<1>1. ASSUME NEW c \in Clients, Session(c) PROVE FALSE
  BY <1>1 DEF Session, chanVars
<1>2. ASSUME NEW c \in Clients, NEW m \in ChanNames, NEW t,
             Part(c, m) \/ Kick(c, m, t) \/ RemoveClient(c)
      PROVE  FALSE
  BY <1>2, LeavingShrinks
<1>3. ASSUME NEW c \in Clients, NEW m \in ChanNames, JoinNew(c, m) PROVE FALSE
  <2>1. m # n
    BY <1>3 DEF JoinNew
  <2> QED
    BY <1>0, <1>3, <2>1 DEF JoinNew, IInv, ChanInv
<1>4. ASSUME NEW c \in Clients, NEW m \in ChanNames, NEW key, Join(c, m, key)
      PROVE  LetIn(d, n)
  <2> DEFINE old == InviteUsed(c, chan[m])
             new == AddClient(c, old, FALSE)
  <2>1. chan' = [chan EXCEPT ![m] = new]
    BY <1>4 DEF Join
  <2>2. old.members = chan[m].members /\ old \in Channel
    BY InviteUsedOK DEF IInv, ChanInv, ChannelOK
  <2> HIDE DEF old
  <2>3. new.members = chan[m].members \cup {c}
    BY <2>2 DEF AddClient, Channel
  <2> HIDE DEF new
  <2>4. m = n /\ d = c
    BY <1>0, <2>1, <2>3 DEF IInv, ChanInv
  <2> QED
    BY <1>4, <2>4 DEF LetIn
<1>5. ASSUME NEW c \in Clients, NEW m \in ChanNames, NEW key, NEW t,
             \/ JoinRefused(c, m, key) \/ JoinCrash(c, m, key) \/ CallerCrash(c, m)
             \/ Invite(c, t, m) \/ Topic(c, m, t) \/ ModeCrash(c, m, t)
      PROVE  FALSE
  BY <1>0, <1>5, OthersSame DEF SameBut
<1>6. ASSUME NEW c \in Clients, NEW m \in ChanNames,
             NEW letter \in {"i", "t", "k", "l"}, NEW on \in BOOLEAN,
             NEW key \in Keys \cup {NoKey}, NEW limit \in Limits \cup {0},
             ModeChannel(c, m, letter, on, key, limit)
      PROVE  FALSE
  BY <1>0, <1>6, ModeChannelStores, ModeSameMembers DEF IInv
<1>7. ASSUME NEW c \in Clients, NEW m \in ChanNames, NEW on \in BOOLEAN, NEW t,
             ModeOperator(c, m, on, t)
      PROVE  FALSE
  BY <1>0, <1>7, ModeOperatorStores, ModeSameMembers DEF IInv
<1>8. ASSUME NEW c \in Clients, NEW m \in ChanNames, NEW key,
             JoinRefused(c, m, key) \/ JoinCrash(c, m, key)
      PROVE  FALSE
  BY <1>5, <1>8
<1>9. ASSUME NEW c \in Clients, NEW m \in ChanNames, NEW t,
             CallerCrash(c, m) \/ Invite(c, t, m) \/ Topic(c, m, t) \/ ModeCrash(c, m, t)
      PROVE  FALSE
  BY <1>5, <1>9
<1>10. CASE UNCHANGED vars
  BY <1>10 DEF vars, chanVars
<1>11. CASE Next
  <2>1. ASSUME NEW c \in Clients, RemoveClient(c) PROVE FALSE
    BY <1>0, <1>2, <2>1
  <2>2. ASSUME NEW c \in Clients, NEW m \in ChanNames, Part(c, m) PROVE FALSE
    BY <1>2, <2>2
  <2>3. ASSUME NEW c \in Clients, NEW m \in ChanNames, NEW t, Kick(c, m, t) PROVE FALSE
    BY <1>2, <2>3
  <2> QED
    BY <1>1, <1>3, <1>4, <1>6, <1>7, <1>8, <1>9, <1>11, <2>1, <2>2, <2>3, StepCases
<1> QED
  BY <1>10, <1>11

LEMMA LetInProperly ==
  ASSUME IInv, NEW n \in open, NEW d \in chan'[n].members \ chan[n].members, LetIn(d, n)
  PROVE  /\ "i" \in chan[n].modes =>
              Invited(d, chan[n]) /\ Lower[nick[d]] \notin chan'[n].invites
         /\ "l" \in chan[n].modes => Cardinality(chan'[n].members) <= chan[n].limit
<1> DEFINE old == InviteUsed(d, chan[n])
           new == AddClient(d, old, FALSE)
<1>1. PICK key : Join(d, n, key)
  BY DEF LetIn
<1>2. chan' = [chan EXCEPT ![n] = new] /\ n \in ChanNames
  BY <1>1 DEF Join, IInv, ChanInv
<1>3. ChannelOK(chan[n]) /\ chan'[n] = new
  BY <1>2 DEF IInv, ChanInv
<1>4. d \in Clients /\ d \notin chan[n].members /\ PassesInvite(d, chan[n])
      /\ PassesKeyAndLimit(chan[n], key)
  BY <1>1 DEF Join, Acting, Live
<1>5. ChannelOK(old) /\ old.members = chan[n].members /\ old.count = chan[n].count
  BY <1>3, InviteUsedOK DEF ChannelOK
<1>6. "i" \in chan[n].modes => Lower[nick[d]] \notin new.invites
  BY <1>3, <1>4 DEF InviteUsed, AddClient, ChannelOK, Channel
<1> HIDE DEF old
<1>7. ChannelOK(new) /\ new.count = chan[n].count + 1
  <2>1. d \notin old.members
    BY <1>4, <1>5
  <2>2. ChannelOK(new)
    BY <1>4, <1>5, <2>1, AddClientOK
  <2>3. new.count = old.count + 1
    BY <1>5 DEF AddClient, ChannelOK, Channel
  <2> QED
    BY <1>5, <2>2, <2>3
<1> HIDE DEF new
<1>8. Cardinality(new.members) = chan[n].count + 1
  BY <1>7 DEF ChannelOK
<1> QED
  BY <1>3, <1>4, <1>6, <1>8 DEF PassesInvite, PassesKeyAndLimit

\* Whoever gets into an existing channel was invited under +i, used that invitation
\* up, and is within the limit under +l, whatever the names and whoever left before.
THEOREM AdmissionHolds == Spec => Admission
<1>1. IInv /\ [Next]_vars =>
        [\A n \in open : \A c \in chan'[n].members \ chan[n].members :
           /\ "i" \in chan[n].modes =>
                Invited(c, chan[n]) /\ Lower[nick[c]] \notin chan'[n].invites
           /\ "l" \in chan[n].modes =>
                Cardinality(chan'[n].members) <= chan[n].limit]_vars
  BY EntersByJoin, LetInProperly
<1> QED
  BY <1>1, IInvHolds, PTL DEF Spec, Admission

-----------------------------------------------------------------------------
(* Who rules a channel.                                                       *)

\* What OperatorAuthority says of one channel and one step.
Ruled(n) ==
  /\ Settings(chan'[n]) # Settings(chan[n]) => chan[n].ops # {}
  /\ /\ ~(chan'[n].ops \subseteq chan[n].ops)
     /\ chan[n].members \subseteq chan'[n].members
     => chan[n].ops # {} /\ chan'[n].members = chan[n].members

LEMMA LeavingRuled ==
  ASSUME LowerNames, IInv, ListInv, NEW c \in Clients, NEW n \in ChanNames,
         NEW t, Part(c, n) \/ (t \in Targets /\ Kick(c, n, t)),
         NEW m \in open \cap open'
  PROVE  Ruled(m)
<1>1. Settings(chan'[m]) = Settings(chan[m])
  BY LeavingShrinks
<1>2. m \in ChanNames
  BY DEF IInv, ChanInv
<1>3. PICK d \in chan[n].members :
        chan'[m].members = IF m = n THEN chan[m].members \ {d} ELSE chan[m].members
  <2>1. PICK d : Rooms!Leave(d, n)
    BY PartMoves, KickMoves
  <2> QED
    BY <1>2, <2>1 DEF Rooms!Leave
<1>4. CASE m = n
  BY <1>1, <1>3, <1>4 DEF Ruled
<1>5. CASE m # n
  <2>1. PICK ch, lists : StoreChannels(Only(n, ch), lists)
    BY DEF Part, Kick
  <2>2. chan'[m] = chan[m]
    BY <1>2, <1>5, <2>1 DEF StoreChannels, Only
  <2> QED
    BY <2>2 DEF Ruled
<1> QED
  BY <1>4, <1>5

LEMMA JoiningRuled ==
  ASSUME IInv, NEW c \in Clients, NEW n \in ChanNames, NEW key,
         JoinNew(c, n) \/ Join(c, n, key), NEW m \in open \cap open'
  PROVE  Ruled(m)
<1>1. m \in ChanNames /\ DOMAIN chan = ChanNames
  BY DEF IInv, ChanInv
<1>2. CASE m # n
  BY <1>1, <1>2 DEF JoinNew, Join, Ruled
<1>3. CASE m = n
  <2> DEFINE old == InviteUsed(c, chan[n])
             new == AddClient(c, old, FALSE)
  <2>1. chan' = [chan EXCEPT ![n] = new]
    BY <1>3 DEF JoinNew, Join
  <2>2. chan[n] \in Channel
    BY DEF IInv, ChanInv, ChannelOK
  <2>3. old \in Channel /\ old.ops = chan[n].ops /\ Settings(old) = Settings(chan[n])
    <3>1. CASE "i" \in chan[n].modes
      BY <2>2, <3>1 DEF InviteUsed, Settings, Channel
    <3>2. CASE "i" \notin chan[n].modes
      BY <2>2, <3>2 DEF InviteUsed
    <3> QED
      BY <3>1, <3>2
  <2> HIDE DEF old
  <2>4. new.ops \subseteq old.ops /\ Settings(new) = Settings(old)
    BY <2>3 DEF AddClient, Settings, Channel
  <2> HIDE DEF new
  <2> QED
    BY <1>1, <1>3, <2>1, <2>3, <2>4 DEF Ruled
<1> QED
  BY <1>2, <1>3

LEMMA ModeRuled ==
  ASSUME IInv, NEW c, NEW n \in ChanNames, MayChangeModes(c, n), StoresSameMembers(c, n),
         NEW m \in open
  PROVE  Ruled(m)
<1>1. m \in ChanNames
  BY DEF IInv, ChanInv
<1>2. chan[n].ops # {}
  BY DEF MayChangeModes, IsOperator
<1> QED
  BY <1>1, <1>2, ModeSameMembers DEF Ruled

LEMMA StepRuled ==
  ASSUME LowerNames, IInv, ListInv, [Next]_vars, NEW m \in open \cap open'
  PROVE  Ruled(m)
<1>0. m \in ChanNames
  BY DEF IInv, ChanInv
<1>1. ASSUME NEW c \in Clients, Session(c) PROVE Ruled(m)
  BY <1>1 DEF Session, chanVars, Ruled
<1>2. ASSUME NEW c \in Clients, RemoveClient(c) PROVE Ruled(m)
  <2>1. m \in open' /\ chan'[m].members = chan[m].members \ {c}
    BY <1>0, <1>2, RemoveClientMoves DEF Rooms!Go
  <2>2. Settings(chan'[m]) = Settings(chan[m])
    BY <1>0, <1>2, LeavingShrinks
  <2>3. CASE c \in chan[m].members
    BY <2>1, <2>2, <2>3 DEF Ruled
  <2>4. CASE c \notin chan[m].members
    <3>1. m \notin joined[c]
      BY <1>0, <2>4 DEF ListInv
    <3>2. PICK after, lists : StoreChannels(after, lists) /\ DOMAIN after = joined[c] \ dangling[c]
      BY <1>2 DEF RemoveClient
    <3>3. chan'[m] = chan[m]
      BY <1>0, <3>1, <3>2 DEF StoreChannels
    <3> QED
      BY <3>3 DEF Ruled
  <2> QED
    BY <2>3, <2>4
<1>3. ASSUME NEW c \in Clients, NEW n \in ChanNames, NEW t, Part(c, n) \/ (t \in Targets /\ Kick(c, n, t))
      PROVE  Ruled(m)
  BY <1>3, LeavingRuled
<1>4. ASSUME NEW c \in Clients, NEW n \in ChanNames, NEW key, JoinNew(c, n) \/ Join(c, n, key)
      PROVE  Ruled(m)
  BY <1>4, JoiningRuled
<1>5. ASSUME NEW c \in Clients, NEW n \in ChanNames, NEW key, NEW t,
             \/ JoinRefused(c, n, key) \/ JoinCrash(c, n, key) \/ CallerCrash(c, n)
             \/ Invite(c, t, n) \/ Topic(c, n, t) \/ ModeCrash(c, n, t)
      PROVE  Ruled(m)
  <2>1. SameBut(n)
    BY <1>5, OthersSame
  <2> QED
    BY <1>0, <2>1 DEF SameBut, Ruled
<1>6. ASSUME NEW c \in Clients, NEW n \in ChanNames,
             NEW letter \in {"i", "t", "k", "l"}, NEW on \in BOOLEAN,
             NEW key \in Keys \cup {NoKey}, NEW limit \in Limits \cup {0},
             ModeChannel(c, n, letter, on, key, limit)
      PROVE  Ruled(m)
  <2>1. MayChangeModes(c, n)
    BY <1>6 DEF ModeChannel
  <2>2. StoresSameMembers(c, n)
    BY <1>6, ModeChannelStores DEF IInv
  <2> QED
    BY <2>1, <2>2, ModeRuled
<1>7. ASSUME NEW c \in Clients, NEW n \in ChanNames, NEW on \in BOOLEAN, NEW t,
             ModeOperator(c, n, on, t)
      PROVE  Ruled(m)
  <2>1. MayChangeModes(c, n)
    BY <1>7 DEF ModeOperator
  <2>2. StoresSameMembers(c, n)
    BY <1>7, ModeOperatorStores DEF IInv
  <2> QED
    BY <2>1, <2>2, ModeRuled
<1>8. CASE UNCHANGED vars
  BY <1>8 DEF vars, chanVars, Ruled
<1>9. CASE Next
  <2>1. ASSUME NEW c \in Clients, NEW n \in ChanNames, Part(c, n) \/ JoinNew(c, n)
        PROVE  Ruled(m)
    BY <1>3, <1>4, <2>1
  <2>2. ASSUME NEW c \in Clients, NEW n \in ChanNames, NEW t \in Targets, Kick(c, n, t)
        PROVE  Ruled(m)
    BY <1>3, <2>2
  <2>3. ASSUME NEW c \in Clients, NEW n \in ChanNames, NEW key,
               JoinRefused(c, n, key) \/ JoinCrash(c, n, key) \/ Join(c, n, key)
        PROVE  Ruled(m)
    BY <1>4, <1>5, <2>3
  <2>4. ASSUME NEW c \in Clients, NEW n \in ChanNames, NEW t,
               CallerCrash(c, n) \/ Invite(c, t, n) \/ Topic(c, n, t) \/ ModeCrash(c, n, t)
        PROVE  Ruled(m)
    BY <1>5, <2>4
  <2> QED
    BY <1>1, <1>2, <1>6, <1>7, <1>9, <2>1, <2>2, <2>3, <2>4, StepCases
<1> QED
  BY <1>8, <1>9

\* While names are in lower case, the settings of a channel change, and somebody
\* becomes operator while nobody leaves, only by an operator's command.
THEOREM OperatorsRule == ASSUME LowerNames PROVE Spec => OperatorAuthority
<1>1. IInv /\ ListInv /\ [Next]_vars =>
        [\A n \in open \cap open' :
           /\ Settings(chan'[n]) # Settings(chan[n]) => chan[n].ops # {}
           /\ /\ ~(chan'[n].ops \subseteq chan[n].ops)
              /\ chan[n].members \subseteq chan'[n].members
              => chan[n].ops # {} /\ chan'[n].members = chan[n].members]_vars
  BY StepRuled DEF Ruled
<1> QED
  BY <1>1, ListInvHolds, PTL DEF Spec, OperatorAuthority
=============================================================================
