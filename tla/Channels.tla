------------------------------ MODULE Channels ------------------------------
(***************************************************************************)
(* Channels and their members: class Channel, Server::_channels,           *)
(* Client::_joinedChannels, and the handlers JOIN, PART, KICK, MODE,       *)
(* INVITE, TOPIC and remove_Client that keep them in step.  NICK and accept*)
(* come from NickRegistry: a channel finds its members by their CURRENT    *)
(* nickname, some handlers lowering what they look for and some not.       *)
(*                                                                         *)
(* Every handler runs to its end before the next one starts (one thread),  *)
(* so each is one action.  A comma list of channels is the sequence of its *)
(* elements.  Channel names are already lowered, as every lookup does.     *)
(*                                                                         *)
(* Channel::_ClientModes is ordered by the address of the members' control *)
(* blocks, so "the first member that ..." is any member that does.  A      *)
(* member that has disconnected but is still in the map is an expired      *)
(* weak_ptr: getClientModes dereferences it, which ends the process.       *)
(***************************************************************************)
EXTENDS NickRegistry, Integers, FiniteSets

CONSTANTS
  ChanNames,  \* lowered channel names
  Keys,       \* passwords for +k
  NoKey,      \* the empty password
  Limits,     \* arguments of +l
  Topics,     \* arguments of TOPIC
  NoTopic,    \* the initial topic, "not set"
  ModeChars,  \* the mode letters clients use, among "i", "t", "k", "l", "o", "q"
  NamedOnly,  \* TRUE: clients use channel commands only once they have a nickname
  MaxOpCount  \* bound on |_operatorCount| explored

ASSUME ChannelAssumption ==
  /\ Limits \subseteq Nat
  /\ NoKey \notin Keys
  /\ ModeChars \subseteq {"i", "t", "k", "l", "o", "q"}
  /\ NamedOnly \in BOOLEAN
  /\ MaxOpCount \in Nat
  /\ IsFiniteSet(Clients)

VARIABLES
  open,      \* the keys of Server::_channels
  chan,      \* chan[n]: the Channel object of an open n, NewChannel otherwise
  joined,    \* joined[c]: the keys of Client::_joinedChannels
  dangling,  \* dangling[c]: those of them whose weak_ptr has expired
  up         \* FALSE once an exception or a null dereference ended the server

chanVars == <<open, chan, joined, dangling, up>>
vars == <<nickVars, chanVars>>

\* The nicknames a command can name somebody by.
Targets == Nicks \cup AnonNicks

\* What a Channel object holds: the keys of _ClientModes, those with OPERATOR,
\* _clientCount, _operatorCount, _wasOpRemoved, _ChannelModes, _ulimit,
\* _password, _invites and _topic.
Channel ==
  [members : SUBSET Clients, ops : SUBSET Clients, count : Nat,
   opCount : -MaxOpCount..MaxOpCount, opRemoved : BOOLEAN,
   modes : SUBSET {"i", "t", "k", "l"}, limit : Limits \cup {0},
   key : Keys \cup {NoKey}, invites : SUBSET Targets, topic : Topics \cup {NoTopic}]

NewChannel ==
  [members |-> {}, ops |-> {}, count |-> 0, opCount |-> 0, opRemoved |-> FALSE,
   modes |-> {"t"}, limit |-> 0, key |-> NoKey, invites |-> {}, topic |-> NoTopic]

TypeOK ==
  /\ NickTypeOK
  /\ open \subseteq ChanNames
  /\ chan \in [ChanNames -> Channel]
  /\ joined \in [Clients -> SUBSET ChanNames]
  /\ dangling \in [Clients -> SUBSET ChanNames]
  /\ up \in BOOLEAN

Init ==
  /\ NickInit
  /\ open = {}
  /\ chan = [n \in ChanNames |-> NewChannel]
  /\ joined = [c \in Clients |-> {}]
  /\ dangling = [c \in Clients |-> {}]
  /\ up = TRUE

-----------------------------------------------------------------------------
(* Looking members up                                                       *)

Ghosts(ch) == ch.members \ Live

\* The members isClientInChannel and removeClientByNickname compare equal to s:
\* it is the member's side that is lowered, never s.
Matching(ch, s) == {m \in ch.members \cap Live : Lower[nick[m]] = s}
IsClientInChannel(ch, s) == Matching(ch, s) # {}

\* getClientModes(s) compares the spelling itself; it throws when nobody
\* matches and crashes on a ghost it passes on its way.
Exact(ch, s) == {m \in ch.members \cap Live : nick[m] = s}
LookupFails(ch, s) == Exact(ch, s) = {} \/ Ghosts(ch) # {}

IsOperator(ch, c) == Exact(ch, nick[c]) \cap ch.ops # {}

\* The exception or the null dereference that nothing on the way to main stops.
Crash == up' = FALSE /\ UNCHANGED <<nickVars, open, chan, joined, dangling>>

-----------------------------------------------------------------------------
(* Leaving                                                                  *)

\* promoteFallbackOperator: the members one of whom becomes operator, none when
\* the counter says an operator remains or the channel holds one entry.
Heirs(ch, leaver, isLeaving) ==
  IF \/ isLeaving /\ ch.opCount = 1
     \/ ~isLeaving /\ ch.opCount > 0
     \/ Cardinality(ch.members) = 1
  THEN {}
  ELSE (ch.members \cap Live) \ {leaver}

Promoted(ch, heirs) ==
  IF heirs = {} THEN {ch} ELSE {[ch EXCEPT !.ops = @ \cup {h}] : h \in heirs}

\* Faulty variant: the counter is forgotten.
RemoveUncounted(ch, s) ==
  IF Matching(ch, s) = {} THEN {ch}
  ELSE {[ch EXCEPT !.members = @ \ {m}, !.ops = @ \ {m}] : m \in Matching(ch, s)}

RemoveClientByNickname(ch, s) ==
  IF Matching(ch, s) = {} THEN {ch}
  ELSE {[ch EXCEPT !.members = @ \ {m}, !.ops = @ \ {m}, !.count = @ - 1] :
          m \in Matching(ch, s)}

\* What the channel may be after validateFallbackOperator(ch, c) and
\* removeClientByNickname(s).
Departed(ch, c, s) ==
  UNION {RemoveClientByNickname(p, s) : p \in Promoted(ch, Heirs(ch, c, TRUE))}

\* Write back the channels of after; the empty ones are erased and with them
\* every weak_ptr to them expires.  lists is what _joinedChannels becomes.
StoreChannels(after, lists) ==
  LET erased == {n \in DOMAIN after : after[n].members = {}}
  IN  /\ chan' = [n \in ChanNames |->
                    IF n \in erased THEN NewChannel
                    ELSE IF n \in DOMAIN after THEN after[n] ELSE chan[n]]
      /\ open' = open \ erased
      /\ joined' = lists
      /\ dangling' = [m \in Clients |-> lists[m] \cap (dangling[m] \cup erased)]

Only(n, ch) == [k \in {n} |-> ch]

\* Faulty variant: removeJoinedChannel is not called.
StillJoined(c, n) == joined

WithoutJoined(c, n) == [joined EXCEPT ![c] = @ \ {n}]

-----------------------------------------------------------------------------
(* The handlers                                                             *)

Acting(c) == up /\ c \in Live /\ (NamedOnly => nick[c] # NoNick)

\* The nickname check of validateIsClientInChannel, which does lower its side.
InChannel(c, n) == n \in open /\ IsClientInChannel(chan[n], Lower[nick[c]])

(* JOIN *)

Invited(c, ch) == Lower[nick[c]] \in ch.invites

\* Faulty variant: the newcomer is not counted.
PassesKeyAndLimitLate(ch, key) ==
  /\ "k" \in ch.modes => key = ch.key
  /\ "l" \in ch.modes => ch.count <= ch.limit

\* canClientJoin up to the invite list, and the rest of it.
PassesInvite(c, ch) == "i" \in ch.modes => Invited(c, ch)
PassesKeyAndLimit(ch, key) ==
  /\ "k" \in ch.modes => key = ch.key
  /\ "l" \in ch.modes => ch.count + 1 <= ch.limit

\* canClientJoin uses an invite up as soon as it has found it.
InviteUsed(c, ch) ==
  IF "i" \in ch.modes THEN [ch EXCEPT !.invites = @ \ {Lower[nick[c]]}] ELSE ch

\* Faulty variant: the newcomer is not counted.
AddClientUncounted(c, ch, creator) ==
  [ch EXCEPT !.members = @ \cup {c}, !.ops = IF creator THEN @ \cup {c} ELSE @ \ {c}]

\* Channel::addClient: whoever created the channel is its operator.  The
\* nickname lookup of setChannelMode passes over the other entries.
AddClient(c, ch, creator) ==
  [ch EXCEPT !.members = @ \cup {c},
             !.ops = IF creator THEN @ \cup {c} ELSE @ \ {c},
             !.count = @ + 1]

JoinNew(c, n) ==
  /\ Acting(c)
  /\ n \notin open
  /\ open' = open \cup {n}
  /\ chan' = [chan EXCEPT ![n] = AddClient(c, NewChannel, TRUE)]
  /\ joined' = [joined EXCEPT ![c] = @ \cup {n}]
  /\ UNCHANGED <<nickVars, dangling, up>>

Join(c, n, key) ==
  /\ Acting(c)
  /\ n \in open
  /\ ~InChannel(c, n)
  /\ PassesInvite(c, chan[n])
  /\ PassesKeyAndLimit(chan[n], key)
  /\ chan' = [chan EXCEPT ![n] = AddClient(c, InviteUsed(c, chan[n]), FALSE)]
  /\ joined' = [joined EXCEPT ![c] = @ \cup {n}]
  /\ UNCHANGED <<nickVars, open, dangling, up>>

JoinCrash(c, n, key) ==
  /\ Acting(c)
  /\ n \in open
  /\ ~InChannel(c, n)
  /\ PassesInvite(c, chan[n])
  /\ PassesKeyAndLimit(chan[n], key)
  /\ Ghosts(chan[n]) # {}
  /\ Crash

\* A join the key or the limit refuses, after the invite was used.
JoinRefused(c, n, key) ==
  /\ Acting(c)
  /\ n \in open
  /\ ~InChannel(c, n)
  /\ PassesInvite(c, chan[n])
  /\ ~PassesKeyAndLimit(chan[n], key)
  /\ chan' = [chan EXCEPT ![n] = InviteUsed(c, @)]
  /\ UNCHANGED <<nickVars, open, joined, dangling, up>>

(* PART, KICK and the end of a session *)

Part(c, n) ==
  /\ Acting(c)
  /\ InChannel(c, n)
  /\ \E ch \in Departed(chan[n], c, nick[c]) :
       StoreChannels(Only(n, ch), WithoutJoined(c, n))
  /\ UNCHANGED <<nickVars, up>>

\* validateModes(channel, client, NONE): operators only.
NeedsOperator(c, n) == InChannel(c, n) /\ IsOperator(chan[n], c)

Kick(c, n, t) ==
  /\ Acting(c)
  /\ NeedsOperator(c, n)
  /\ \E d \in ClientsNamed(t) :
       /\ IsClientInChannel(chan[n], Lower[t])
       /\ \E ch \in Departed(chan[n], c, t) :
            StoreChannels(Only(n, ch), WithoutJoined(d, n))
  /\ UNCHANGED <<nickVars, up>>

\* Faulty variants: the channels are not told; only one of them is.
RemoveClientQuietly(c) ==
  /\ up
  /\ joined' = [joined EXCEPT ![c] = {}]
  /\ dangling' = [dangling EXCEPT ![c] = {}]
  /\ Forget(c)
  /\ UNCHANGED <<open, chan, up>>

RemoveClientOnce(c) ==
  LET mine == joined[c] \ dangling[c]
      one  == IF mine = {} THEN {} ELSE {CHOOSE n \in mine : TRUE}
      ends == UNION {Departed(chan[n], c, nick[c]) : n \in one}
  IN  /\ up
      /\ \E after \in [one -> ends] : StoreChannels(after, [joined EXCEPT ![c] = {}])
      /\ Forget(c)
      /\ UNCHANGED up

RemoveClient(c) ==
  LET mine  == joined[c] \ dangling[c]
      ends  == [n \in mine |-> Departed(chan[n], c, nick[c])]
  IN  /\ up
      /\ \E after \in [mine -> UNION {ends[n] : n \in mine}] :
           /\ \A n \in mine : after[n] \in ends[n]
           /\ StoreChannels(after, [joined EXCEPT ![c] = {}])
      /\ Forget(c)
      /\ UNCHANGED up

(* MODE, one letter per command *)

\* Faulty variant: any member may change the modes.
MemberMayChangeModes(c, n) ==
  /\ Acting(c)
  /\ n \in open
  /\ IsClientInChannel(chan[n], nick[c])

\* initialModeValidation: the client's nickname is not lowered here.
MayChangeModes(c, n) ==
  /\ Acting(c)
  /\ n \in open
  /\ IsClientInChannel(chan[n], nick[c])
  /\ IsOperator(chan[n], c)

\* handleModeCommand after applymodes: when the change was worth a report and
\* an operator has been removed, promoteFallbackOperator runs.
AfterMode(ch, c, reported) ==
  LET heirs == Heirs(ch, c, FALSE)
  IN  IF reported /\ ch.opRemoved /\ heirs # {}
      THEN {[p EXCEPT !.opRemoved = FALSE] : p \in Promoted(ch, heirs)}
      ELSE {ch}

SetMode(ch, letter, on) ==
  [ch EXCEPT !.modes = IF on THEN @ \cup {letter} ELSE @ \ {letter}]

StoreMode(c, n, ch, reported) ==
  /\ \E p \in AfterMode(ch, c, reported) : chan' = [chan EXCEPT ![n] = p]
  /\ UNCHANGED <<nickVars, open, joined, dangling, up>>

\* setChannelMode for the four channel modes, with the key and limit they carry.
ModeChannel(c, n, letter, on, key, limit) ==
  /\ letter \in ModeChars
  /\ MayChangeModes(c, n)
  /\ LET old == chan[n]
         ch  == [SetMode(old, letter, on) EXCEPT
                   !.key = IF letter # "k" THEN @ ELSE IF on THEN key ELSE NoKey,
                   !.limit = IF letter # "l" THEN @ ELSE IF on THEN limit ELSE 0]
     IN  StoreMode(c, n, ch, on \/ letter \in old.modes)

\* +o and -o: the validator lowers the member, the setter does not.
ModeOperator(c, n, on, t) ==
  /\ "o" \in ModeChars
  /\ MayChangeModes(c, n)
  /\ IsClientInChannel(chan[n], t)
  /\ LET ch == [chan[n] EXCEPT !.opCount = IF on THEN @ + 1 ELSE @ - 1,
                               !.opRemoved = ~on]
     IN  /\ ch.opCount \in -MaxOpCount..MaxOpCount
         /\ \E m \in Exact(ch, t) :
              StoreMode(c, n, [ch EXCEPT !.ops = IF on THEN @ \cup {m} ELSE @ \ {m}],
                        TRUE)

\* The lookups of MODE that end the server: the target's spelling differs from
\* the member's, a ghost is met, or the letter is q, whose target is the mode
\* word itself.  (Bound: no member is called "-q", which a nickname may be.)
ModeCrash(c, n, t) ==
  /\ MayChangeModes(c, n)
  /\ \/ "q" \in ModeChars
     \/ /\ "o" \in ModeChars
        /\ IsClientInChannel(chan[n], t)
        /\ LookupFails(chan[n], t)
  /\ Crash

\* The caller's own lookup in MODE, KICK, TOPIC and INVITE.
CallerCrash(c, n) ==
  /\ Acting(c)
  /\ InChannel(c, n)
  /\ LookupFails(chan[n], nick[c])
  /\ Crash

(* INVITE and TOPIC *)

\* validateModes(channel, client, mode): operators only when the mode is set.
AllowedUnder(c, n, letter) ==
  InChannel(c, n) /\ (letter \in chan[n].modes => IsOperator(chan[n], c))

Invite(c, t, n) ==
  /\ Acting(c)
  /\ ClientsNamed(t) # {}
  /\ AllowedUnder(c, n, "i")
  /\ ~IsClientInChannel(chan[n], Lower[t])
  /\ chan' = [chan EXCEPT ![n].invites = @ \cup {t}]
  /\ UNCHANGED <<nickVars, open, joined, dangling, up>>

Topic(c, n, topic) ==
  /\ Acting(c)
  /\ AllowedUnder(c, n, "t")
  /\ chan' = [chan EXCEPT ![n].topic = topic]
  /\ UNCHANGED <<nickVars, open, joined, dangling, up>>

(* accept and NICK *)

Session(c) ==
  /\ up
  /\ \/ Connect(c)
     \/ \E n \in Nicks : TakeNick(c, n)
     \/ \E n \in Nicks, a \in AnonNicks : TakeAnonNick(c, n, a)
  /\ UNCHANGED chanVars

\* What changes nobody's membership.  (INVITE only where +i may be set, a bound:
\* elsewhere nothing reads the invite list.)
OtherCommand(c) ==
  \E n \in ChanNames :
    \/ CallerCrash(c, n)
    \/ \E key \in Keys \cup {NoKey} : JoinRefused(c, n, key) \/ JoinCrash(c, n, key)
    \/ \E on \in BOOLEAN, letter \in {"i", "t"} : ModeChannel(c, n, letter, on, NoKey, 0)
    \/ \E on \in BOOLEAN, key \in Keys : ModeChannel(c, n, "k", on, key, 0)
    \/ \E on \in BOOLEAN, limit \in Limits : ModeChannel(c, n, "l", on, NoKey, limit)
    \/ \E topic \in Topics : Topic(c, n, topic)
    \/ \E t \in Targets :
         \/ "i" \in ModeChars /\ Invite(c, t, n)
         \/ ModeCrash(c, n, t)
         \/ \E on \in BOOLEAN : ModeOperator(c, n, on, t)

Next ==
  \E c \in Clients :
    \/ Session(c)
    \/ RemoveClient(c)
    \/ OtherCommand(c)
    \/ \E n \in ChanNames :
         \/ JoinNew(c, n)
         \/ \E key \in Keys \cup {NoKey} : Join(c, n, key)
         \/ Part(c, n)
         \/ \E t \in Targets : Kick(c, n, t)

Spec == Init /\ [][Next]_vars

-----------------------------------------------------------------------------
(* What the channels promise                                                *)

Rooms == INSTANCE Rooms WITH
  People <- Clients, Names <- ChanNames,
  arrived <- {c \in Clients : conn[c] # "none"}, online <- Live,
  rooms <- [n \in ChanNames |-> chan[n].members]

\* The channels are rooms as Rooms describes them: a member enters or leaves one room
\* at a time, only while online, and one that disconnects is out of all of its rooms
\* in that very step, whichever handler does it.
RoomsSpec == Rooms!Spec

\* Channel::_clientCount, which +l is checked against and which nothing
\* recomputes, is the number of entries of _ClientModes, operators are members,
\* and _channels holds a channel exactly while it has an entry.
Bookkeeping ==
  \A n \in ChanNames :
    /\ chan[n].count = Cardinality(chan[n].members)
    /\ chan[n].ops \subseteq chan[n].members
    /\ n \in open <=> chan[n].members # {}

\* The two sides of a membership, Channel::_ClientModes and
\* Client::_joinedChannels, which different statements of JOIN, PART, KICK and
\* remove_Client change, always tell the same, and no weak_ptr expires while
\* the client still lists the channel.
ListsAgree ==
  \A c \in Live :
    /\ joined[c] = {n \in ChanNames : c \in chan[n].members}
    /\ dangling[c] = {}

\* remove_Client leaves nothing behind: no channel keeps an expired entry
\* (Server.cpp:224, "Client has been completely removed").
NoGhosts == \A n \in ChanNames : Ghosts(chan[n]) = {}

\* No sequence of commands ends the server by an exception nobody catches or a
\* null member (main.cpp:19, "to keep the server running").  The letter q does.
StaysUp == up

\* The settings of a channel change, and somebody becomes operator while nobody
\* leaves, only when the channel has an operator; and nobody ever becomes one by
\* joining a channel that exists.
Settings(ch) == <<ch.modes, ch.key, ch.limit>>
OperatorAuthority ==
  [][\A n \in open \cap open' :
       /\ Settings(chan'[n]) # Settings(chan[n]) => chan[n].ops # {}
       /\ /\ ~(chan'[n].ops \subseteq chan[n].ops)
          /\ chan[n].members \subseteq chan'[n].members
          => chan[n].ops # {} /\ chan'[n].members = chan[n].members]_vars

\* Whoever gets into an existing channel was let in by its modes: on the invite
\* list under +i, for this one time, and within the limit under +l as the number
\* of members goes, not as the counter says.
Admission ==
  [][\A n \in open : \A c \in chan'[n].members \ chan[n].members :
       /\ "i" \in chan[n].modes =>
            Invited(c, chan[n]) /\ Lower[nick[c]] \notin chan'[n].invites
       /\ "l" \in chan[n].modes => Cardinality(chan'[n].members) <= chan[n].limit]_vars
=============================================================================
