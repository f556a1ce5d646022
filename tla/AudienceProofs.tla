--------------------------- MODULE AudienceProofs ---------------------------
(* What clients are shown is what is so: ViewsAgree, for any number of clients *)
(* and channels and whatever the modes, as long as names are in lower case and *)
(* clients have one before they use channels (LowerNames).  Nobody is told     *)
(* about a channel it is not in, and nobody in it is left out.                 *)
EXTENDS Audience, ChannelsProofs

\* Only live clients have a view or are quitting, only those that have connected
\* are shown, and who has not quit is shown to those in the same channel, no more.
ViewInv ==
  /\ AudienceTypeOK
  /\ \A a \in Clients : a \notin Live => view[a] = {} /\ quit[a] = "no"
  /\ \A a \in Clients, n \in ChanNames, b \in Clients, s \in AllNicks :
       <<n, b, s>> \in view[a] => conn[b] # "none"
  /\ \A a \in Live, n \in ChanNames, b \in Live, s \in AllNicks :
       quit[b] = "no" =>
         (<<n, b, s>> \in view[a]
            <=> a \in chan[n].members /\ b \in chan[n].members /\ s = nick[b])

\* The views are the same but for what Change says of each <<channel, member, name>>.
Typed == view' \in [Clients -> SUBSET Shown]

LEMMA NamesAreShown == Shown = ChanNames \X Clients \X AllNicks
BY DEF Shown, AllNicks

LEMMA AfterLeave ==
  ASSUME AudienceTypeOK, NEW m \in Clients, NEW n \in ChanNames, ShowLeave(m, n)
  PROVE  /\ Typed
         /\ \A a \in Clients, k \in ChanNames, b \in Clients, s \in AllNicks :
              <<k, b, s>> \in view'[a]
                <=> /\ <<k, b, s>> \in view[a]
                    /\ ~(a \in ChannelRecipients(n) /\ k = n /\ (a = m \/ b = m))
BY DEF AudienceTypeOK, ShowLeave, Typed

LEMMA AfterJoin ==
  ASSUME AudienceTypeOK, IInv, NEW c \in Clients, NEW n \in ChanNames, ShowJoin(c, n)
  PROVE  /\ Typed
         /\ \A a \in Clients, k \in ChanNames, b \in Clients, s \in AllNicks :
              <<k, b, s>> \in view'[a]
                <=> \/ <<k, b, s>> \in view[a]
                    \/ /\ k = n /\ s = nick[b]
                       /\ \/ a = c /\ b \in ChannelRecipients(n) \cup {c}
                          \/ a \in ChannelRecipients(n) /\ b = c
<1>1. ChannelRecipients(n) \subseteq Clients
  BY DEF ChannelRecipients, Live
<1>2. \A m \in Clients : Entry(n, m) = <<n, m, nick[m]>> /\ Entry(n, m) \in Shown
  BY NamesAreShown DEF Entry, IInv, NickInv, NickTypeOK
<1>3. \A a \in Clients :
        view'[a] = IF a = c THEN view[a] \cup {Entry(n, m) : m \in ChannelRecipients(n) \cup {c}}
                   ELSE IF a \in ChannelRecipients(n) THEN view[a] \cup {Entry(n, c)}
                   ELSE view[a]
  BY DEF ShowJoin, NamesList
<1>4. Typed
  BY <1>1, <1>2 DEF ShowJoin, NamesList, Typed, AudienceTypeOK
<1>5. ASSUME NEW a \in Clients, NEW k \in ChanNames, NEW b \in Clients, NEW s \in AllNicks
      PROVE  <<k, b, s>> \in view'[a]
                <=> \/ <<k, b, s>> \in view[a]
                    \/ /\ k = n /\ s = nick[b]
                       /\ \/ a = c /\ b \in ChannelRecipients(n) \cup {c}
                          \/ a \in ChannelRecipients(n) /\ b = c
  <2>1. ASSUME NEW m \in Clients
        PROVE  <<k, b, s>> = Entry(n, m) <=> k = n /\ b = m /\ s = nick[b]
    BY DEF Entry
  <2>2. <<k, b, s>> \in {Entry(n, m) : m \in ChannelRecipients(n) \cup {c}}
          <=> k = n /\ s = nick[b] /\ b \in ChannelRecipients(n) \cup {c}
    BY <1>1, <2>1
  <2>3. <<k, b, s>> \in {Entry(n, c)} <=> k = n /\ s = nick[b] /\ b = c
    BY <2>1
  <2> DEFINE list == {Entry(n, m) : m \in ChannelRecipients(n) \cup {c}}
  <2>4. view'[a] = IF a = c THEN view[a] \cup list
                   ELSE IF a \in ChannelRecipients(n) THEN view[a] \cup {Entry(n, c)}
                   ELSE view[a]
    BY <1>3
  <2> HIDE DEF list
  <2>5. <<k, b, s>> \in list <=> k = n /\ s = nick[b] /\ b \in ChannelRecipients(n) \cup {c}
    BY <2>2 DEF list
  <2> QED
    BY <2>3, <2>4, <2>5
<1> QED
  BY <1>4, <1>5

LEMMA AfterRename ==
  ASSUME AudienceTypeOK, NEW c \in Clients, nick'[c] \in AllNicks, ShowRename(c)
  PROVE  /\ Typed
         /\ \A a \in Clients, k \in ChanNames, b \in Clients, s \in AllNicks :
              <<k, b, s>> \in view'[a]
                <=> IF a \in SharedChannelRecipients(c) \cup {c} /\ b = c
                    THEN s = nick'[c] /\ \E old \in AllNicks : <<k, b, old>> \in view[a]
                    ELSE <<k, b, s>> \in view[a]
<1> DEFINE new(e) == <<e[1], e[2], IF e[2] = c THEN nick'[c] ELSE e[3]>>
           told == SharedChannelRecipients(c) \cup {c}
<1>1. view' = [a \in Clients |-> IF a \in told THEN {new(e) : e \in view[a]} ELSE view[a]]
  BY DEF ShowRename
<1>2. ASSUME NEW a \in Clients, NEW e \in view[a]
      PROVE  /\ e[1] \in ChanNames /\ e[2] \in Clients /\ e[3] \in AllNicks
             /\ e = <<e[1], e[2], e[3]>>
  BY NamesAreShown DEF AudienceTypeOK
<1>3. Typed
  <2>1. ASSUME NEW a \in Clients, NEW e \in view[a] PROVE new(e) \in Shown
    BY <1>2, NamesAreShown
  <2> HIDE DEF new, told
  <2> QED
    BY <1>1, <2>1 DEF Typed, AudienceTypeOK
<1>4. ASSUME NEW a \in Clients, NEW k \in ChanNames, NEW b \in Clients, NEW s \in AllNicks
      PROVE  <<k, b, s>> \in view'[a]
                <=> IF a \in told /\ b = c
                    THEN s = nick'[c] /\ \E old \in AllNicks : <<k, b, old>> \in view[a]
                    ELSE <<k, b, s>> \in view[a]
  <2>1. CASE a \notin told
    BY <1>1, <2>1
  <2>2. CASE a \in told
    <3>1. view'[a] = {new(e) : e \in view[a]}
      BY <1>1, <2>2
    <3>2. <<k, b, s>> \in view'[a] <=> \E e \in view[a] : <<k, b, s>> = new(e)
      BY <3>1
    <3>3. \A e \in view[a] : <<k, b, s>> = new(e)
            <=> k = e[1] /\ b = e[2] /\ s = IF b = c THEN nick'[c] ELSE e[3]
      OBVIOUS
    <3>4. CASE b = c
      <4>1. \A e \in view[a] : k = e[1] /\ b = e[2] => e[3] \in AllNicks /\ e = <<k, b, e[3]>>
        BY <1>2
      <4>2. \A old \in AllNicks : <<k, b, old>> \in view[a] =>
              \E e \in view[a] : k = e[1] /\ b = e[2]
        OBVIOUS
      <4> HIDE DEF new, told
      <4> QED
        BY <2>2, <3>2, <3>3, <3>4, <4>1, <4>2
    <3>5. CASE b # c
      <4>1. \A e \in view[a] : k = e[1] /\ b = e[2] /\ s = e[3] => e = <<k, b, s>>
        BY <1>2
      <4>2. <<k, b, s>> \in view[a] => \E e \in view[a] : k = e[1] /\ b = e[2] /\ s = e[3]
        OBVIOUS
      <4> HIDE DEF new, told
      <4> QED
        BY <3>2, <3>3, <3>5, <4>1, <4>2
    <3> QED
      BY <3>4, <3>5
  <2> QED
    BY <2>1, <2>2
<1> QED
  BY <1>3, <1>4

\* QUIT, of which some are told, and the end of a view.
LEMMA AfterQuit ==
  ASSUME AudienceTypeOK, NEW c \in Clients, NEW told
  PROVE  LET after == WithoutQuitter(c, told)
         IN  /\ after \in [Clients -> SUBSET Shown]
             /\ \A a \in Clients : after[a] \subseteq view[a]
             /\ \A a \in Clients, k \in ChanNames, b \in Clients \ {c}, s \in AllNicks :
                  <<k, b, s>> \in after[a] <=> <<k, b, s>> \in view[a]
BY DEF AudienceTypeOK, WithoutQuitter

-----------------------------------------------------------------------------
(* The handlers, each by what it does to members, names and views.             *)

\* Who reads is still who has not quit.
LEMMA ReadByKeeps ==
  ASSUME AudienceTypeOK, NEW c, ReadBy(c)
  PROVE  /\ quit' \in [Clients -> {"no", "reading", "yes"}]
         /\ \A d \in Clients : quit'[d] = "no" <=> quit[d] = "no"
BY DEF AudienceTypeOK, ReadBy

LEMMA EnteringInv ==
  ASSUME LowerNames, IInv, ListInv, ViewInv, NEW c \in Clients, NEW n \in ChanNames,
         Entering(c, n)
  PROVE  ViewInv'
<1>1. Rooms!Enter(c, n) /\ UNCHANGED nickVars
  <2>1. JoinNew(c, n) \/ \E key : Join(c, n, key)
    BY DEF Entering
  <2> QED
    BY <2>1, JoinNewMoves, JoinMoves DEF JoinNew, Join
<1>2. c \in Live /\ c \notin chan[n].members
      /\ \A k \in ChanNames : chan'[k].members =
           IF k = n THEN chan[k].members \cup {c} ELSE chan[k].members
  BY <1>1 DEF Rooms!Enter
<1>3. Live' = Live /\ nick' = nick /\ conn' = conn
  BY <1>1 DEF Live, nickVars
<1>4. AudienceTypeOK
  BY DEF ViewInv
<1>5. ShowJoin(c, n) /\ ReadBy(c)
  BY DEF Entering
<1>6. /\ Typed
      /\ \A a \in Clients, k \in ChanNames, b \in Clients, s \in AllNicks :
           <<k, b, s>> \in view'[a]
             <=> \/ <<k, b, s>> \in view[a]
                 \/ /\ k = n /\ s = nick[b]
                    /\ \/ a = c /\ b \in ChannelRecipients(n) \cup {c}
                       \/ a \in ChannelRecipients(n) /\ b = c
  BY <1>4, <1>5, AfterJoin
<1>7. /\ quit' \in [Clients -> {"no", "reading", "yes"}]
      /\ \A d \in Clients : quit'[d] = "no" <=> quit[d] = "no"
  BY <1>4, <1>5, ReadByKeeps
<1>8. AudienceTypeOK'
  BY <1>6, <1>7 DEF AudienceTypeOK, Typed, Shown
<1>9. ASSUME NEW a \in Clients, a \notin Live' PROVE view'[a] = {} /\ quit'[a] = "no"
  <2>1. a \notin Live /\ a # c /\ a \notin ChannelRecipients(n)
    BY <1>2, <1>3, <1>9 DEF ChannelRecipients
  <2>2. view'[a] = view[a]
    BY <1>5, <2>1 DEF ShowJoin
  <2> QED
    BY <1>7, <2>1, <2>2 DEF ViewInv
<1>10. ASSUME NEW a \in Clients, NEW k \in ChanNames, NEW b \in Clients, NEW s \in AllNicks,
              <<k, b, s>> \in view'[a]
       PROVE  conn'[b] # "none"
  BY <1>2, <1>3, <1>6, <1>10 DEF ViewInv, ChannelRecipients, Live
<1>11. ASSUME NEW a \in Live', NEW k \in ChanNames, NEW b \in Live', NEW s \in AllNicks,
              quit'[b] = "no"
       PROVE  <<k, b, s>> \in view'[a]
                <=> a \in chan'[k].members /\ b \in chan'[k].members /\ s = nick'[b]
  <2>1. a \in Clients /\ b \in Clients /\ a \in Live /\ b \in Live /\ quit[b] = "no"
    BY <1>3, <1>7, <1>11 DEF Live
  <2>2. <<k, b, s>> \in view[a]
          <=> a \in chan[k].members /\ b \in chan[k].members /\ s = nick[b]
    BY <2>1 DEF ViewInv
  <2>3. chan'[k].members = IF k = n THEN chan[k].members \cup {c} ELSE chan[k].members
    BY <1>2
  <2>4. <<k, b, s>> \in view'[a]
          <=> \/ <<k, b, s>> \in view[a]
              \/ /\ k = n /\ s = nick[b]
                 /\ \/ a = c /\ (b \in chan[k].members \/ b = c)
                    \/ a \in chan[k].members /\ b = c
    BY <1>6, <2>1 DEF ChannelRecipients
  <2> QED
    BY <1>3, <2>2, <2>3, <2>4
<1> QED
  BY <1>8, <1>9, <1>10, <1>11 DEF ViewInv

\* PART and KICK: m is no longer a member of n, nor shown as one.
LEMMA LeavingInv ==
  ASSUME IInv, ViewInv, NEW m \in Clients, NEW n \in ChanNames,
         Rooms!Leave(m, n), ShowLeave(m, n), UNCHANGED nickVars, NEW c, ReadBy(c)
  PROVE  ViewInv'
<1>1. m \in chan[n].members
      /\ \A k \in ChanNames : chan'[k].members =
           IF k = n THEN chan[k].members \ {m} ELSE chan[k].members
  BY DEF Rooms!Leave
<1>2. Live' = Live /\ nick' = nick /\ conn' = conn
  BY DEF Live, nickVars
<1>3. AudienceTypeOK
  BY DEF ViewInv
<1>4. /\ Typed
      /\ \A a \in Clients, k \in ChanNames, b \in Clients, s \in AllNicks :
           <<k, b, s>> \in view'[a]
             <=> /\ <<k, b, s>> \in view[a]
                 /\ ~(a \in ChannelRecipients(n) /\ k = n /\ (a = m \/ b = m))
  BY <1>3, AfterLeave
<1>5. /\ quit' \in [Clients -> {"no", "reading", "yes"}]
      /\ \A d \in Clients : quit'[d] = "no" <=> quit[d] = "no"
  BY <1>3, ReadByKeeps
<1>6. AudienceTypeOK'
  BY <1>4, <1>5 DEF AudienceTypeOK, Typed, Shown
<1>7. ASSUME NEW a \in Clients, a \notin Live' PROVE view'[a] = {} /\ quit'[a] = "no"
  <2>1. a \notin Live /\ a \notin ChannelRecipients(n)
    BY <1>2, <1>7 DEF ChannelRecipients
  <2>2. view'[a] = view[a]
    BY <2>1 DEF ShowLeave
  <2> QED
    BY <1>5, <2>1, <2>2 DEF ViewInv
<1>8. ASSUME NEW a \in Clients, NEW k \in ChanNames, NEW b \in Clients, NEW s \in AllNicks,
             <<k, b, s>> \in view'[a]
      PROVE  conn'[b] # "none"
  BY <1>2, <1>4, <1>8 DEF ViewInv
<1>9. ASSUME NEW a \in Live', NEW k \in ChanNames, NEW b \in Live', NEW s \in AllNicks,
             quit'[b] = "no"
      PROVE  <<k, b, s>> \in view'[a]
               <=> a \in chan'[k].members /\ b \in chan'[k].members /\ s = nick'[b]
  <2>1. a \in Clients /\ b \in Clients /\ a \in Live /\ b \in Live /\ quit[b] = "no"
    BY <1>2, <1>5, <1>9 DEF Live
  <2>2. <<k, b, s>> \in view[a]
          <=> a \in chan[k].members /\ b \in chan[k].members /\ s = nick[b]
    BY <2>1 DEF ViewInv
  <2>3. chan'[k].members = IF k = n THEN chan[k].members \ {m} ELSE chan[k].members
    BY <1>1
  <2>4. <<k, b, s>> \in view'[a]
          <=> <<k, b, s>> \in view[a] /\ ~(a \in chan[n].members /\ k = n /\ (a = m \/ b = m))
    BY <1>4, <2>1 DEF ChannelRecipients
  <2> QED
    BY <1>1, <1>2, <2>2, <2>3, <2>4
<1> QED
  BY <1>6, <1>7, <1>8, <1>9 DEF ViewInv

\* Whoever the registry names is one client, so KICK tells of the one it removes.
LEMMA NamedOnce ==
  ASSUME IInv, NEW t, NEW d \in ClientsNamed(t), NEW e \in ClientsNamed(t)
  PROVE  d = e
BY DEF ClientsNamed, IInv, NickInv, FdsDistinct

LEMMA PartingInv ==
  ASSUME LowerNames, IInv, ListInv, ViewInv, NEW c \in Clients, NEW n \in ChanNames,
         Parting(c, n)
  PROVE  ViewInv'
<1>1. Rooms!Leave(c, n) /\ UNCHANGED nickVars
  BY PartMoves DEF Parting, Part
<1> QED
  BY <1>1, LeavingInv DEF Parting

LEMMA KickingInv ==
  ASSUME LowerNames, IInv, ListInv, ViewInv, NEW c \in Clients, NEW n \in ChanNames,
         NEW t \in Targets, Kicking(c, n, t)
  PROVE  ViewInv'
<1>1. PICK d \in ClientsNamed(t) : Rooms!Leave(d, n)
  BY KickMoves DEF Kicking
<1>2. PICK m \in ClientsNamed(t) : ShowLeave(m, n)
  BY DEF Kicking
<1>3. m = d /\ m \in Clients
  BY <1>1, <1>2, NamedOnce DEF ClientsNamed, Live
<1>4. UNCHANGED nickVars /\ ReadBy(c)
  BY DEF Kicking, Kick
<1> QED
  BY <1>1, <1>2, <1>3, <1>4, LeavingInv

\* Nothing is told, and nobody moves.
LEMMA OtherInv ==
  ASSUME ViewInv, UNCHANGED <<nickVars, view, Rooms!roomVars>>, NEW c, ReadBy(c)
  PROVE  ViewInv'
<1>1. Live' = Live /\ nick' = nick /\ conn' = conn /\ view' = view
  BY DEF Live, nickVars
<1>2. \A n \in ChanNames : chan'[n].members = chan[n].members
  BY DEF Rooms!roomVars
<1>3. /\ quit' \in [Clients -> {"no", "reading", "yes"}]
      /\ \A d \in Clients : quit'[d] = "no" <=> quit[d] = "no"
  BY ReadByKeeps DEF ViewInv
<1>4. \A d \in Live : d \in Clients
  BY DEF Live
<1> QED
  BY <1>1, <1>2, <1>3, <1>4 DEF ViewInv, AudienceTypeOK, Shown

\* QUIT: only entries of the one who quits change.
LEMMA QuitInv ==
  ASSUME IInv, ViewInv, NEW c \in Clients, Quit(c)
  PROVE  ViewInv'
<1> DEFINE told == SharedChannelRecipients(c) \cup {c}
<1>1. Live' = Live /\ nick' = nick /\ conn' = conn /\ chan' = chan /\ c \in Live
  BY DEF Quit, Acting, vars, nickVars, chanVars, Live
<1>2. /\ view' \in [Clients -> SUBSET Shown]
      /\ \A a \in Clients : view'[a] \subseteq view[a]
      /\ \A a \in Clients, k \in ChanNames, b \in Clients \ {c}, s \in AllNicks :
           <<k, b, s>> \in view'[a] <=> <<k, b, s>> \in view[a]
  <2>1. view' = WithoutQuitter(c, told)
    BY DEF Quit
  <2> HIDE DEF told
  <2> QED
    BY <2>1, AfterQuit DEF ViewInv
<1>3. /\ quit' \in [Clients -> {"no", "reading", "yes"}] /\ quit'[c] # "no"
      /\ \A d \in Clients \ {c} : quit'[d] = "no" <=> quit[d] = "no"
  BY DEF Quit, ViewInv, AudienceTypeOK
<1>4. AudienceTypeOK'
  BY <1>2, <1>3 DEF AudienceTypeOK, Shown
<1>5. ASSUME NEW a \in Clients, a \notin Live' PROVE view'[a] = {} /\ quit'[a] = "no"
  BY <1>1, <1>2, <1>3, <1>5 DEF ViewInv
<1>6. ASSUME NEW a \in Clients, NEW k \in ChanNames, NEW b \in Clients, NEW s \in AllNicks,
             <<k, b, s>> \in view'[a]
      PROVE  conn'[b] # "none"
  BY <1>1, <1>2, <1>6 DEF ViewInv
<1>7. ASSUME NEW a \in Live', NEW k \in ChanNames, NEW b \in Live', NEW s \in AllNicks,
             quit'[b] = "no"
      PROVE  <<k, b, s>> \in view'[a]
               <=> a \in chan'[k].members /\ b \in chan'[k].members /\ s = nick'[b]
  <2>1. a \in Clients /\ b \in Clients \ {c} /\ a \in Live /\ b \in Live /\ quit[b] = "no"
    BY <1>1, <1>3, <1>7 DEF Live
  <2> QED
    BY <1>1, <1>2, <2>1 DEF ViewInv
<1> QED
  BY <1>4, <1>5, <1>6, <1>7 DEF ViewInv

\* A disconnection, whether the others are told or not: the client is nobody's
\* business any more.
LEMMA RemovalInv ==
  ASSUME LowerNames, IInv, ListInv, ViewInv, NEW c \in Clients,
         Disconnect(c) \/ SendFails(c)
  PROVE  ViewInv'
<1>1. RemoveClient(c) /\ Removal(c)
  BY DEF Disconnect, SendFails
<1>2. Rooms!Go(c)
  BY <1>1, RemoveClientMoves
<1>3. \A k \in ChanNames : chan'[k].members = chan[k].members \ {c}
  BY <1>2 DEF Rooms!Go
<1>4. /\ c \in Live /\ Live' = Live \ {c}
      /\ \A d \in Clients \ {c} : nick'[d] = nick[d] /\ conn'[d] = conn[d]
      /\ conn'[c] = "gone"
  BY <1>1 DEF RemoveClient, Forget, Live, IInv, NickInv, NickTypeOK
<1>5. PICK told :
        view' = [WithoutQuitter(c, told) EXCEPT ![c] = {}] \/ view' = [view EXCEPT ![c] = {}]
  BY DEF Disconnect, SendFails
<1>6. /\ view' \in [Clients -> SUBSET Shown] /\ view'[c] = {}
      /\ \A a \in Clients : view'[a] \subseteq view[a]
      /\ \A a \in Clients \ {c}, k \in ChanNames, b \in Clients \ {c}, s \in AllNicks :
           <<k, b, s>> \in view'[a] <=> <<k, b, s>> \in view[a]
  <2> DEFINE after == WithoutQuitter(c, told)
  <2>1. /\ after \in [Clients -> SUBSET Shown]
        /\ \A a \in Clients : after[a] \subseteq view[a]
        /\ \A a \in Clients, k \in ChanNames, b \in Clients \ {c}, s \in AllNicks :
             <<k, b, s>> \in after[a] <=> <<k, b, s>> \in view[a]
    BY AfterQuit DEF ViewInv
  <2>2. view' = [after EXCEPT ![c] = {}] \/ view' = [view EXCEPT ![c] = {}]
    BY <1>5
  <2> HIDE DEF after
  <2> QED
    BY <2>1, <2>2 DEF ViewInv, AudienceTypeOK
<1>7. /\ quit' \in [Clients -> {"no", "reading", "yes"}] /\ quit'[c] = "no"
      /\ \A d \in Clients \ {c} : quit'[d] = "no" <=> quit[d] = "no"
  BY <1>1 DEF Removal, ViewInv, AudienceTypeOK
<1>8. AudienceTypeOK'
  BY <1>6, <1>7 DEF AudienceTypeOK, Shown
<1>9. ASSUME NEW a \in Clients, a \notin Live' PROVE view'[a] = {} /\ quit'[a] = "no"
  <2>1. CASE a = c
    BY <1>6, <1>7, <2>1
  <2>2. CASE a # c
    BY <1>4, <1>6, <1>7, <1>9, <2>2 DEF ViewInv
  <2> QED
    BY <2>1, <2>2
<1>10. ASSUME NEW a \in Clients, NEW k \in ChanNames, NEW b \in Clients, NEW s \in AllNicks,
              <<k, b, s>> \in view'[a]
       PROVE  conn'[b] # "none"
  BY <1>4, <1>6, <1>10 DEF ViewInv
<1>11. ASSUME NEW a \in Live', NEW k \in ChanNames, NEW b \in Live', NEW s \in AllNicks,
              quit'[b] = "no"
       PROVE  <<k, b, s>> \in view'[a]
                <=> a \in chan'[k].members /\ b \in chan'[k].members /\ s = nick'[b]
  <2>1. /\ a \in Clients \ {c} /\ b \in Clients \ {c} /\ a \in Live /\ b \in Live
        /\ quit[b] = "no"
    BY <1>4, <1>7, <1>11 DEF Live
  <2>2. <<k, b, s>> \in view[a]
          <=> a \in chan[k].members /\ b \in chan[k].members /\ s = nick[b]
    BY <2>1 DEF ViewInv
  <2> QED
    BY <1>3, <1>4, <1>6, <2>1, <2>2
<1> QED
  BY <1>8, <1>9, <1>10, <1>11 DEF ViewInv

\* Who shares a channel with c is live, and the channel has both.
LEMMA SharedMeans ==
  ASSUME IInv, ListInv, NEW c \in Clients, NEW a
  PROVE  a \in SharedChannelRecipients(c)
           <=> a \in Live /\ \E n \in ChanNames : {a, c} \subseteq chan[n].members
<1>1. dangling[c] = {} /\ joined[c] \subseteq ChanNames
  BY DEF ListInv, IInv, ChanInv
<1>2. \A n \in ChanNames : n \in joined[c] <=> c \in chan[n].members
  BY DEF ListInv
<1> QED
  BY <1>1, <1>2 DEF SharedChannelRecipients, ChannelRecipients

\* accept: nobody is shown the newcomer yet, and it is shown nobody.
LEMMA ConnectingInv ==
  ASSUME IInv, ListInv, ViewInv, NEW c \in Clients, Connect(c), UNCHANGED chanVars,
         ShowRename(c), ReadBy(c)
  PROVE  ViewInv'
<1>1. /\ c \notin Live /\ Live' = Live \cup {c} /\ nick' = nick /\ conn[c] = "none"
      /\ conn' = [conn EXCEPT ![c] = "live"]
  BY DEF Connect, Live, IInv, NickInv, NickTypeOK
<1>2. chan' = chan /\ \A n \in ChanNames : c \notin chan[n].members
  BY <1>1, MemberIsLive DEF chanVars, IInv
<1>3. \A a : a \notin SharedChannelRecipients(c)
  BY <1>2, SharedMeans
<1>4. view[c] = {}
  BY <1>1 DEF ViewInv
<1>5. view' = view
  <2>1. \A a \in Clients : view'[a] = view[a]
    BY <1>3, <1>4 DEF ShowRename
  <2>2. view \in [Clients -> SUBSET Shown] /\ view' = [a \in Clients |-> view'[a]]
    BY DEF ViewInv, AudienceTypeOK, ShowRename
  <2> QED
    BY <2>1, <2>2
<1>6. /\ quit' \in [Clients -> {"no", "reading", "yes"}]
      /\ \A d \in Clients : quit'[d] = "no" <=> quit[d] = "no"
  BY ReadByKeeps DEF ViewInv
<1>7. AudienceTypeOK'
  BY <1>5, <1>6 DEF ViewInv, AudienceTypeOK, Shown
<1>8. ASSUME NEW a \in Clients, a \notin Live' PROVE view'[a] = {} /\ quit'[a] = "no"
  BY <1>1, <1>5, <1>6, <1>8 DEF ViewInv
<1>9. ASSUME NEW a \in Clients, NEW k \in ChanNames, NEW b \in Clients, NEW s \in AllNicks,
             <<k, b, s>> \in view'[a]
      PROVE  conn'[b] # "none"
  BY <1>1, <1>5, <1>9 DEF ViewInv, IInv, NickInv, NickTypeOK
<1>10. ASSUME NEW a \in Live', NEW k \in ChanNames, NEW b \in Live', NEW s \in AllNicks,
              quit'[b] = "no"
       PROVE  <<k, b, s>> \in view'[a]
                <=> a \in chan'[k].members /\ b \in chan'[k].members /\ s = nick'[b]
  <2>1. a \in Clients /\ b \in Clients /\ quit[b] = "no"
    BY <1>1, <1>6, <1>10 DEF Live
  <2>2. CASE b = c
    BY <1>1, <1>2, <1>5, <2>1, <2>2 DEF ViewInv
  <2>3. CASE a = c
    BY <1>2, <1>4, <1>5, <2>3
  <2>4. CASE a # c /\ b # c
    BY <1>1, <1>2, <1>5, <2>1, <2>4 DEF ViewInv
  <2> QED
    BY <2>2, <2>3, <2>4
<1> QED
  BY <1>7, <1>8, <1>9, <1>10 DEF ViewInv

\* NICK: everybody who is shown the old name, and nobody else, is told the new one.
LEMMA RenamingInv ==
  ASSUME IInv, ListInv, ViewInv, NEW c \in Live, NEW new \in Nicks \cup AnonNicks,
         UpdateNickname(c, new), UNCHANGED chanVars, ShowRename(c), ReadBy(c)
  PROVE  ViewInv'
<1> DEFINE told == SharedChannelRecipients(c) \cup {c}
<1>1. c \in Clients /\ new \in AllNicks
  BY DEF Live, AllNicks
<1>2. /\ Live' = Live /\ conn' = conn /\ chan' = chan
      /\ nick'[c] = new /\ \A d \in Clients \ {c} : nick'[d] = nick[d]
  BY <1>1 DEF UpdateNickname, chanVars, Live, IInv, NickInv, NickTypeOK
<1>3. /\ Typed
      /\ \A a \in Clients, k \in ChanNames, b \in Clients, s \in AllNicks :
           <<k, b, s>> \in view'[a]
             <=> IF a \in told /\ b = c
                 THEN s = nick'[c] /\ \E old \in AllNicks : <<k, b, old>> \in view[a]
                 ELSE <<k, b, s>> \in view[a]
  BY <1>1, <1>2, AfterRename DEF ViewInv
<1>4. /\ quit' \in [Clients -> {"no", "reading", "yes"}]
      /\ \A d \in Clients : quit'[d] = "no" <=> quit[d] = "no"
  BY ReadByKeeps DEF ViewInv
<1>5. AudienceTypeOK'
  BY <1>3, <1>4 DEF AudienceTypeOK, Typed, Shown
<1>6. ASSUME NEW a \in Clients, a \notin Live' PROVE view'[a] = {} /\ quit'[a] = "no"
  <2>1. a \notin Live /\ a \notin told
    BY <1>1, <1>2, <1>6, SharedMeans
  <2>2. view'[a] = view[a]
    BY <2>1 DEF ShowRename
  <2> QED
    BY <1>4, <2>1, <2>2 DEF ViewInv
<1>7. ASSUME NEW a \in Clients, NEW k \in ChanNames, NEW b \in Clients, NEW s \in AllNicks,
             <<k, b, s>> \in view'[a]
      PROVE  conn'[b] # "none"
  <2>1. \E old \in AllNicks : <<k, b, old>> \in view[a]
    BY <1>3, <1>7
  <2> QED
    BY <1>2, <2>1 DEF ViewInv
<1>8. ASSUME NEW a \in Live', NEW k \in ChanNames, NEW b \in Live', NEW s \in AllNicks,
             quit'[b] = "no"
      PROVE  <<k, b, s>> \in view'[a]
               <=> a \in chan'[k].members /\ b \in chan'[k].members /\ s = nick'[b]
  <2>1. a \in Clients /\ b \in Clients /\ a \in Live /\ b \in Live /\ quit[b] = "no"
    BY <1>2, <1>4, <1>8 DEF Live
  <2>2. \A t \in AllNicks : <<k, b, t>> \in view[a]
          <=> a \in chan[k].members /\ b \in chan[k].members /\ t = nick[b]
    BY <2>1 DEF ViewInv
  <2>3. nick[b] \in AllNicks
    BY <2>1 DEF IInv, NickInv, NickTypeOK
  <2>4. CASE b # c
    BY <1>2, <1>3, <2>1, <2>2, <2>4
  <2>5. CASE b = c /\ a \in told
    <3>1. <<k, b, s>> \in view'[a]
            <=> s = nick'[c] /\ \E old \in AllNicks : <<k, b, old>> \in view[a]
      BY <1>3, <2>1, <2>5
    <3>2. (\E old \in AllNicks : <<k, b, old>> \in view[a])
            <=> a \in chan[k].members /\ b \in chan[k].members
      BY <2>2, <2>3
    <3> QED
      BY <1>2, <2>5, <3>1, <3>2
  <2>6. CASE b = c /\ a \notin told
    <3>1. ~(a \in chan[k].members /\ b \in chan[k].members)
      BY <1>1, <2>1, <2>6, SharedMeans
    <3>2. <<k, b, s>> \in view'[a] <=> <<k, b, s>> \in view[a]
      BY <1>3, <2>1, <2>6
    <3> QED
      BY <1>2, <2>2, <3>1, <3>2
  <2> QED
    BY <2>4, <2>5, <2>6
<1> QED
  BY <1>5, <1>6, <1>7, <1>8 DEF ViewInv

LEMMA NamingInv ==
  ASSUME IInv, ListInv, ViewInv, NEW c \in Clients, Naming(c)
  PROVE  ViewInv'
<1>1. UNCHANGED chanVars /\ ShowRename(c) /\ ReadBy(c)
  BY DEF Naming, Session
<1>2. CASE Connect(c)
  BY <1>1, <1>2, ConnectingInv
<1>3. CASE \E new \in Nicks \cup AnonNicks : c \in Live /\ UpdateNickname(c, new)
  BY <1>1, <1>3, RenamingInv
<1> QED
  BY <1>2, <1>3 DEF Naming, Session, TakeNick, TakeAnonNick

-----------------------------------------------------------------------------
(* Every step.                                                                *)

LEMMA OtherMovesNobody ==
  ASSUME IInv, ListInv, NEW c \in Clients, OtherCommand(c)
  PROVE  UNCHANGED <<nickVars, Rooms!roomVars>>
<1> DEFINE Quiet == UNCHANGED <<nickVars, Rooms!roomVars>>
<1>1. ASSUME NEW n \in ChanNames, NEW key, NEW t,
             \/ JoinRefused(c, n, key) \/ JoinCrash(c, n, key) \/ CallerCrash(c, n)
             \/ Invite(c, t, n) \/ Topic(c, n, t) \/ ModeCrash(c, n, t)
      PROVE  Quiet
  BY <1>1, OthersMoveNobody
  DEF JoinRefused, JoinCrash, CallerCrash, Invite, Topic, ModeCrash, Crash
<1>2. ASSUME NEW n \in ChanNames, NEW letter \in {"i", "t", "k", "l"}, NEW on \in BOOLEAN,
             NEW key \in Keys \cup {NoKey}, NEW limit \in Limits \cup {0},
             ModeChannel(c, n, letter, on, key, limit)
      PROVE  Quiet
  <2>1. UNCHANGED Rooms!roomVars
    BY <1>2, ModeChannelStores, ModeMovesNobody DEF IInv
  <2>2. UNCHANGED nickVars
    BY <1>2 DEF ModeChannel, StoreMode
  <2> QED
    BY <2>1, <2>2
<1>3. ASSUME NEW n \in ChanNames, NEW on \in BOOLEAN, NEW t, ModeOperator(c, n, on, t)
      PROVE  Quiet
  BY <1>3, ModeOperatorStores, ModeMovesNobody DEF IInv, ModeOperator, StoreMode
<1> HIDE DEF Quiet
<1>4. ASSUME NEW n \in ChanNames, NEW key, JoinRefused(c, n, key) \/ JoinCrash(c, n, key)
      PROVE  Quiet
  BY <1>1, <1>4
<1>5. ASSUME NEW n \in ChanNames, NEW t,
             CallerCrash(c, n) \/ Invite(c, t, n) \/ Topic(c, n, t) \/ ModeCrash(c, n, t)
      PROVE  Quiet
  BY <1>1, <1>5
<1>6. Quiet
  BY <1>2, <1>3, <1>4, <1>5 DEF OtherCommand
<1> QED
  BY <1>6 DEF Quiet

\* Telling the clients adds nothing to what the channels do.
LEMMA StepOfChannels == [AudienceNext]_audienceVars => [Next]_vars
<1> SUFFICES ASSUME [AudienceNext]_audienceVars PROVE [Next]_vars
  OBVIOUS
<1>1. CASE UNCHANGED audienceVars
  BY <1>1 DEF audienceVars
<1>2. ASSUME NEW c \in Clients, Disconnect(c) \/ SendFails(c) PROVE Next
  BY <1>2 DEF Disconnect, SendFails, Next
<1>3. ASSUME NEW c \in Clients, Naming(c) \/ Other(c) PROVE Next
  BY <1>3 DEF Naming, Other, Next
<1>4. ASSUME NEW c \in Clients, NEW n \in ChanNames, Entering(c, n) \/ Parting(c, n)
      PROVE  Next
  BY <1>4 DEF Entering, Parting, Next
<1>5. ASSUME NEW c \in Clients, NEW n \in ChanNames, NEW t \in Targets, Kicking(c, n, t)
      PROVE  Next
  BY <1>5 DEF Kicking, Next
<1>6. ASSUME NEW c \in Clients, Quit(c) PROVE UNCHANGED vars
  BY <1>6 DEF Quit
<1> QED
  BY <1>1, <1>2, <1>3, <1>4, <1>5, <1>6 DEF AudienceNext, Command

LEMMA ViewStep ==
  ASSUME LowerNames, IInv, ListInv, ViewInv, [AudienceNext]_audienceVars
  PROVE  ViewInv'
<1>1. CASE UNCHANGED audienceVars
  BY <1>1 DEF audienceVars, vars, nickVars, chanVars, ViewInv, AudienceTypeOK, Shown, Live
<1>2. ASSUME NEW c \in Clients, Disconnect(c) \/ SendFails(c) PROVE ViewInv'
  BY <1>2, RemovalInv
<1>3. ASSUME NEW c \in Clients, Naming(c) PROVE ViewInv'
  BY <1>3, NamingInv
<1>4. ASSUME NEW c \in Clients, Other(c) PROVE ViewInv'
  BY <1>4, OtherMovesNobody, OtherInv DEF Other
<1>5. ASSUME NEW c \in Clients, NEW n \in ChanNames, Entering(c, n) \/ Parting(c, n)
      PROVE  ViewInv'
  BY <1>5, EnteringInv, PartingInv
<1>6. ASSUME NEW c \in Clients, NEW n \in ChanNames, NEW t \in Targets, Kicking(c, n, t)
      PROVE  ViewInv'
  BY <1>6, KickingInv
<1>7. ASSUME NEW c \in Clients, Quit(c) PROVE ViewInv'
  BY <1>7, QuitInv
<1> QED
  BY <1>1, <1>2, <1>3, <1>4, <1>5, <1>6, <1>7 DEF AudienceNext, Command

LEMMA ViewInit == AudienceInit => ViewInv
BY DEF AudienceInit, Init, NickInit, ViewInv, AudienceTypeOK, Live

\* What the clients are told changes nothing of what the channels do: what is proved
\* of Channels holds here.
THEOREM AudienceKeepsChannels == AudienceSpec => Spec
<1>1. AudienceInit => Init
  BY DEF AudienceInit
<1> QED
  BY <1>1, StepOfChannels, PTL DEF AudienceSpec, Spec

LEMMA ViewInvHolds == ASSUME LowerNames PROVE AudienceSpec => [](IInv /\ ListInv /\ ViewInv)
<1>1. IInv /\ ListInv /\ ViewInv /\ [AudienceNext]_audienceVars => ViewInv'
  BY ViewStep
<1> QED
  BY <1>1, ViewInit, ListInvHolds, AudienceKeepsChannels, PTL DEF AudienceSpec

\* While names are in lower case, two connected clients are shown each other in
\* exactly the channels they share and under their present names, whoever of them
\* joins, leaves, is kicked, renames itself or is disconnected, and in any order.
THEOREM ViewsAlwaysAgree == ASSUME LowerNames PROVE AudienceSpec => []ViewsAgree
<1>1. ASSUME IInv, ViewInv, NEW a \in Live, NEW b \in Live, quit[b] = "no",
             NEW n \in ChanNames
      PROVE  {e \in view[a] : e[1] = n /\ e[2] = b} =
               IF {a, b} \subseteq chan[n].members THEN {Entry(n, b)} ELSE {}
  <2>1. a \in Clients /\ nick[b] \in AllNicks
    BY <1>1 DEF Live, IInv, NickInv, NickTypeOK
  <2>2. \A s \in AllNicks : <<n, b, s>> \in view[a]
          <=> a \in chan[n].members /\ b \in chan[n].members /\ s = nick[b]
    BY <1>1, <2>1 DEF ViewInv
  <2>3. \A e \in view[a] : e[1] = n /\ e[2] = b => e[3] \in AllNicks /\ e = <<n, b, e[3]>>
    BY <1>1, <2>1, NamesAreShown DEF ViewInv, AudienceTypeOK
  <2>4. Entry(n, b) = <<n, b, nick[b]>>
    BY DEF Entry
  <2> QED
    BY <2>1, <2>2, <2>3, <2>4
<1>2. IInv /\ ListInv /\ ViewInv => ViewsAgree
  BY <1>1 DEF ViewsAgree
<1> QED
  BY <1>2, ViewInvHolds, PTL

LEMMA FarewellStep ==
  ASSUME IInv, ListInv, ViewInv, [AudienceNext]_audienceVars, NEW c \in Live,
         quit[c] = "no", quit'[c] # "no", NEW a \in Live \ {c}, NEW e \in view'[a]
  PROVE  e[2] # c
<1>1. c \in Clients /\ a \in Clients /\ a # c
  BY DEF Live
<1>2. Quit(c)
  <2>1. \A d \in Clients : ReadBy(d) => quit'[c] = "no"
    BY <1>1, ReadByKeeps DEF ViewInv
  <2>2. \A d \in Clients : Removal(d) => quit'[c] = "no"
    BY <1>1 DEF Removal
  <2>3. \A d \in Clients : Quit(d) /\ d # c => quit'[c] = "no"
    BY <1>1 DEF Quit
  <2>4. quit' # quit
    OBVIOUS
  <2> QED
    BY <2>1, <2>2, <2>3, <2>4 DEF AudienceNext, audienceVars, Command, Naming, Other,
                              Entering, Parting, Kicking, Disconnect, SendFails
<1>3. view' = WithoutQuitter(c, SharedChannelRecipients(c) \cup {c})
  BY <1>2 DEF Quit
<1>4. SUFFICES ASSUME e[2] = c PROVE FALSE
  OBVIOUS
<1>5. a \notin SharedChannelRecipients(c) /\ e \in view[a]
  BY <1>1, <1>3, <1>4 DEF WithoutQuitter
<1>6. PICK n \in ChanNames, s \in AllNicks : e = <<n, c, s>>
  BY <1>1, <1>4, <1>5, NamesAreShown DEF ViewInv, AudienceTypeOK
<1>7. a \in chan[n].members /\ c \in chan[n].members
  BY <1>1, <1>5, <1>6 DEF ViewInv
<1>8. n \in joined[c] \ dangling[c]
  BY <1>1, <1>7 DEF ListInv
<1>9. a \in SharedChannelRecipients(c)
  BY <1>7, <1>8 DEF SharedChannelRecipients, ChannelRecipients
<1> QED
  BY <1>5, <1>9

\* While names are in lower case, everybody who shows a client is told when it quits,
\* although nobody keeps a list of them.
THEOREM FarewellsAlwaysHeard == ASSUME LowerNames PROVE AudienceSpec => FarewellsAreHeard
<1>1. IInv /\ ListInv /\ ViewInv /\ [AudienceNext]_audienceVars =>
        [\A c \in Live : quit[c] = "no" /\ quit'[c] # "no" =>
           \A a \in Live \ {c} : \A e \in view'[a] : e[2] # c]_audienceVars
  BY FarewellStep
<1> QED
  BY <1>1, ViewInvHolds, PTL DEF AudienceSpec, FarewellsAreHeard
=============================================================================
