------------------------ MODULE TraceRequests_proofs ------------------------
(***************************************************************************)
(* What holds of TraceRequests for every number and kind of contacts and   *)
(* every bound: its types, that no ping and no round of pings is left with *)
(* nothing to go on by, that an undisturbed round asks each contact once,  *)
(* and that a discovery keeps to nodes that live.                          *)
(***************************************************************************)
EXTENDS TraceRequests, FiniteSetTheorems, WellFoundedInduction, TLAPS

-----------------------------------------------------------------------------
(* Data.                                                                   *)

Below == {p \in Nat \X Nat : p[1] < p[2]}

LEMMA BelowWellFounded == IsWellFoundedOn(Below, Nat)
  BY NatLessThanWellFounded DEF OpToRel, Below

(* A set of numbers that is not empty has a lowest.                        *)
LEMMA LowestInSet ==
  ASSUME NEW S \in SUBSET Nat, S # {}
  PROVE  Lowest(S) \in S /\ \A y \in S : Lowest(S) <= y
<1>1. PICK x \in S : \A y \in S : ~ (<<y, x>> \in Below)
  BY BelowWellFounded, WFMin, Zenon
<1>2. \A y \in S : x <= y
  <2> SUFFICES ASSUME NEW y \in S, ~ (x <= y) PROVE FALSE
    OBVIOUS
  <2>1. x \in Nat /\ y \in Nat
    OBVIOUS
  <2>2. <<y, x>> \in Below
    BY <2>1 DEF Below
  <2> QED
    BY <1>1, <2>2, Zenon
<1> QED
  BY <1>2, Zenon DEF Lowest

(* The next contact of a kind past an index is one of the list's.          *)
LEMMA NextOfKind ==
  ASSUME NEW S \in SUBSET Contacts, NEW lo \in Nat, listed \in 0 .. NContacts, InRange(S, lo) # {}
  PROVE  Lowest(InRange(S, lo)) \in S /\ Lowest(InRange(S, lo)) \in 1 .. listed
<1>1. \A i \in InRange(S, lo) : i \in S /\ i \in Nat /\ i \in 1 .. listed
  BY NContactsAssumption DEF InRange, Contacts
<1>2. InRange(S, lo) \in SUBSET Nat
  BY <1>1
<1>3. Lowest(InRange(S, lo)) \in InRange(S, lo)
  BY <1>2, LowestInSet
<1> QED
  BY <1>1, <1>3

(* How many of a kind are listed is a number.                              *)
LEMMA CountOfKind ==
  ASSUME NEW n \in Nat, NEW S \in SUBSET (1 .. n)
  PROVE  Cardinality(S) \in Nat /\ (S # {} => Cardinality(S) > 0)
<1>1. IsFiniteSet(1 .. n)
  BY FS_Interval
<1>2. IsFiniteSet(S)
  BY <1>1, FS_Subset
<1> QED
  BY <1>2, FS_CardinalityType, FS_EmptySet

Mails == [what : Posts, at : Nat]
Laters == [what : {"next", "trace_next"}, at : Nat]
Nodes == [who : Contacts, alive : BOOLEAN]
Maps == [made : BOOLEAN, nodes : 0 .. NContacts, discovering : BOOLEAN, waited : 0 .. 3,
         queue : Seq(Nodes)]

LEMMA AppendFacts ==
  ASSUME NEW S, NEW q \in Seq(S), NEW e \in S
  PROVE  /\ Append(q, e) \in Seq(S)
         /\ Len(Append(q, e)) = Len(q) + 1
         /\ \A i \in 1 .. Len(q) : Append(q, e)[i] = q[i]
         /\ Append(q, e)[Len(q) + 1] = e
  OBVIOUS

LEMMA TailFacts ==
  ASSUME NEW S, NEW q \in Seq(S), q # <<>>
  PROVE  /\ Head(q) = q[1] /\ Head(q) \in S
         /\ Len(q) \in Nat \ {0}
         /\ Tail(q) \in Seq(S)
         /\ Len(Tail(q)) = Len(q) - 1
         /\ \A i \in 1 .. Len(q) - 1 : Tail(q)[i] = q[i + 1]
  OBVIOUS

LEMMA NextNode ==
  ASSUME NEW q \in Seq(Nodes), q # <<>>
  PROVE  Head(q).who \in Contacts /\ Tail(q) \in Seq(Nodes)
<1>1. Head(q) \in Nodes /\ Tail(q) \in Seq(Nodes)
  BY TailFacts
<1> QED
  BY <1>1 DEF Nodes

(* Anything posted on is kept by a post behind it, and by the handling of  *)
(* another kind of post.                                                   *)
Holds(q, what) == \E i \in 1 .. Len(q) : q[i].what = what

LEMMA HoldsAppend ==
  ASSUME NEW S, NEW q \in Seq(S), NEW e \in S, NEW what
  PROVE  Holds(Append(q, e), what) <=> Holds(q, what) \/ e.what = what
<1>1. Len(q) \in Nat
  OBVIOUS
<1> QED
  BY <1>1, AppendFacts DEF Holds

LEMMA HoldsTail ==
  ASSUME NEW S, NEW q \in Seq(S), q # <<>>, NEW what, Holds(q, what), Head(q).what # what
  PROVE  Holds(Tail(q), what)
<1>1. PICK i \in 1 .. Len(q) : q[i].what = what
  BY DEF Holds
<1>2. i # 1
  BY <1>1, TailFacts
<1>3. i - 1 \in 1 .. Len(Tail(q)) /\ Tail(q)[i - 1] = q[i]
  BY <1>1, <1>2, TailFacts
<1> QED
  BY <1>1, <1>3 DEF Holds

(* A refresh changes nothing but who is alive, and leaves alive only those *)
(* that are listed.                                                        *)
LEMMA RefreshedFacts ==
  ASSUME map \in Maps, NEW n \in 0 .. NContacts
  PROVE  /\ Refreshed(n) \in Maps
         /\ Refreshed(n).discovering = map.discovering
         /\ Len(Refreshed(n).queue) = Len(map.queue)
         /\ \A i \in 1 .. Len(map.queue) :
              /\ Refreshed(n).queue[i].who = map.queue[i].who
              /\ Refreshed(n).queue[i].alive = (map.queue[i].alive /\ map.queue[i].who <= n)
<1> DEFINE q == [i \in DOMAIN map.queue |->
                   [who |-> map.queue[i].who, alive |-> map.queue[i].alive /\ map.queue[i].who <= n]]
<1>1. map.queue \in Seq(Nodes) /\ DOMAIN map.queue = 1 .. Len(map.queue) /\ Len(map.queue) \in Nat
  BY DEF Maps
<1>2. \A i \in 1 .. Len(map.queue) : map.queue[i] \in Nodes
  BY <1>1
<1>3. \A i \in 1 .. Len(map.queue) :
         q[i] \in Nodes /\ q[i].who = map.queue[i].who
         /\ q[i].alive = (map.queue[i].alive /\ map.queue[i].who <= n)
  BY <1>1, <1>2 DEF Nodes
<1>4. q \in Seq(Nodes) /\ Len(q) = Len(map.queue)
  <2>1. q \in [1 .. Len(map.queue) -> Nodes]
    BY <1>1, <1>3
  <2> HIDE DEF q
  <2> QED
    BY <1>1, <2>1
<1>5. Refreshed(n) = [map EXCEPT !.nodes = n, !.queue = q]
  BY DEF Refreshed
<1> HIDE DEF q
<1> QED
  BY <1>3, <1>4, <1>5 DEF Maps

-----------------------------------------------------------------------------
(* Types.  A sync is over once all contacts are listed, so that no frame   *)
(* makes the list longer than the radio's.                                 *)

SyncHasMore == syncing => listed < NContacts

LinkOK ==
  /\ port \in BOOLEAN /\ connected \in BOOLEAN /\ syncing \in BOOLEAN
  /\ listed \in 0 .. NContacts /\ SyncHasMore
BoundsOK == clicks \in 0 .. NClicks /\ breaks \in 0 .. NBreaks
PostsOK == mail \in Seq(Mails) /\ later \in Seq(Laters)
PingsOK ==
  /\ ping \in [pending : BOOLEAN, timer : BOOLEAN]
  /\ round \in [active : BOOLEAN, index : Nat, total : Nat, responded : Nat]
MapOK == auto \in [timer : BOOLEAN, index : 0 .. NContacts] /\ map \in Maps
AirOK == air \in [Contacts -> 0 .. MaxAir]
HistoryOK ==
  /\ asked \in [Contacts -> Nat]
  /\ disturbed \in BOOLEAN /\ refused \in BOOLEAN /\ relisted \in BOOLEAN
Typed ==
  /\ LinkOK /\ BoundsOK
  /\ PostsOK /\ PingsOK /\ MapOK /\ AirOK /\ HistoryOK

LEMMA TypedMeans == Typed <=> TypeOK /\ SyncHasMore
  BY DEF Typed, TypeOK, LinkOK, BoundsOK, PostsOK, PingsOK, MapOK, AirOK, HistoryOK,
         Mails, Laters, Maps, Nodes

(* What the steps have in common.                                          *)
LEMMA AsksTyped ==
  ASSUME AirOK, NEW c \in Contacts, Asks(c)
  PROVE  AirOK'
  BY BoundsAssumption DEF AirOK, Asks

LEMMA LosesTyped ==
  ASSUME AirOK, NEW c \in Contacts, air[c] > 0, air' = [air EXCEPT ![c] = @ - 1]
  PROVE  AirOK'
  BY BoundsAssumption DEF AirOK

LEMMA TakenTyped ==
  ASSUME mail \in Seq(Mails), NEW what, Handles(what)
  PROVE  mail' \in Seq(Mails) /\ At \in Nat
<1>1. mail # <<>> /\ mail' = Tail(mail) /\ At = Head(mail).at
  BY DEF Handles, At
<1>2. Head(mail) \in Mails /\ Tail(mail) \in Seq(Mails)
  BY <1>1, TailFacts
<1> QED
  BY <1>1, <1>2 DEF Mails

LEMMA PostedTyped ==
  ASSUME mail \in Seq(Mails), NEW what \in Posts, NEW at \in Nat, mail' = Append(mail, Post(what, at))
  PROVE  mail' \in Seq(Mails)
<1>1. Post(what, at) \in Mails
  BY DEF Post, Mails
<1> QED
  BY <1>1, AppendFacts

LEMMA LaterTyped ==
  ASSUME later \in Seq(Laters), NEW what \in {"next", "trace_next"}, NEW at \in Nat
  PROVE  Append(later, Post(what, at)) \in Seq(Laters)
<1>1. Post(what, at) \in Laters
  BY DEF Post, Laters
<1> QED
  BY <1>1, AppendFacts

LEMMA ClicksTyped ==
  ASSUME BoundsOK, Clicks
  PROVE  BoundsOK'
  BY BoundsAssumption DEF BoundsOK, Clicks

LEMMA AdvancesTyped ==
  ASSUME PingsOK, PostsOK, NEW n \in Nat, Advances(n)
  PROVE  /\ round' \in [active : BOOLEAN, index : Nat, total : Nat, responded : Nat]
         /\ later' \in Seq(Laters)
<1>1. round.index + 1 \in Nat
  BY DEF PingsOK
<1>2. Append(later, Post("next", round.index + 1)) \in Seq(Laters)
  BY <1>1, LaterTyped DEF PostsOK
<1>3. CASE round.active
  <2>1. /\ round' = [round EXCEPT !.index = @ + 1, !.responded = @ + n]
        /\ later' = Append(later, Post("next", round.index + 1))
    BY <1>3 DEF Advances
  <2>2. round.index + 1 \in Nat /\ round.responded + n \in Nat
    BY DEF PingsOK
  <2>3. round' \in [active : BOOLEAN, index : Nat, total : Nat, responded : Nat]
    BY <2>1, <2>2, Zenon DEF PingsOK
  <2> QED
    BY <1>2, <2>1, <2>3
<1>4. CASE ~round.active
  <2>1. round' = round /\ later' = later
    BY <1>4 DEF Advances
  <2> QED
    BY <2>1 DEF PingsOK, PostsOK
<1> QED
  BY <1>3, <1>4

(* The queue a discovery begins with: all but the first of its nodes, each *)
(* alive.                                                                  *)
LEMMA QueueMade ==
  ASSUME NEW recent \in SUBSET Contacts, Cardinality(recent) \in Nat, Cardinality(recent) > 0,
         NEW order \in [1 .. Cardinality(recent) -> recent]
  PROVE  LET q == Tail([i \in DOMAIN order |-> [who |-> order[i], alive |-> TRUE]])
         IN /\ q \in Seq(Nodes)
            /\ \A i \in 1 .. Len(q) : q[i].alive /\ q[i].who \in recent
<1> DEFINE n == Cardinality(recent)
           R == [who : recent, alive : {TRUE}]
           all == [i \in DOMAIN order |-> [who |-> order[i], alive |-> TRUE]]
<1>1. n \in Nat /\ n > 0 /\ all \in [1 .. n -> R] /\ all \in [1 .. n -> Nodes]
  BY DEF Nodes
<1> HIDE DEF all, n, R
<1>2. all \in Seq(R) /\ all \in Seq(Nodes) /\ Len(all) = n
  BY <1>1
<1>3. all # <<>>
  BY <1>1, <1>2
<1>4. Tail(all) \in Seq(R) /\ Tail(all) \in Seq(Nodes)
  BY <1>2, <1>3, TailFacts
<1>5. \A i \in 1 .. Len(Tail(all)) : Tail(all)[i] \in R
  BY <1>4
<1>6. \A e \in R : e.alive /\ e.who \in recent
  BY DEF R
<1> QED
  BY <1>4, <1>5, <1>6 DEF all

(* Every step keeps the types and, with a sync, room for its next contact. *)
LEMMA TypeStep ==
  ASSUME Typed, Next
  PROVE  Typed'
<1> USE DEF Typed
<1>1. CASE OnConnected
  BY <1>1
     DEF OnConnected, LinkOK, SyncHasMore, session, BoundsOK, bounds, PostsOK, PingsOK,
          MapOK, AirOK, HistoryOK, history
<1>2. CASE OnDisconnected
  <2>1. /\ port' = port /\ connected' = FALSE /\ listed' = 0 /\ syncing' = FALSE
        /\ ping' = NoPing /\ RoundIsOver
        /\ map' = Refreshed(0) \/ map' = map
        /\ relisted' = map.discovering
        /\ UNCHANGED <<mail, later, auto, air, bounds>>
    BY <1>2 DEF OnDisconnected, SetNodes
  <2>2. 0 \in 0 .. NContacts
    BY NContactsAssumption
  <2>3. LinkOK'
    BY <2>1, <2>2, Zenon DEF LinkOK, SyncHasMore
  <2>4. PingsOK' /\ HistoryOK'
    BY <2>1 DEF PingsOK, HistoryOK, RoundIsOver, NoRound, NoneAsked, NoPing, MapOK, Maps
  <2>5. MapOK'
    BY <2>1, RefreshedFacts, NContactsAssumption DEF MapOK
  <2> QED
    BY <2>1, <2>3, <2>4, <2>5 DEF BoundsOK, PostsOK, AirOK, bounds
<1>3. CASE PingTimeout
  <2>1. PostsOK'
    BY <1>3, TakenTyped, AdvancesTyped DEF PingTimeout, PostsOK
  <2>2. PingsOK'
    BY <1>3, AdvancesTyped DEF PingTimeout, PingsOK, NoPing
  <2> QED
    BY <1>3, <2>1, <2>2 DEF PingTimeout, LinkOK, SyncHasMore, session, BoundsOK, bounds,
         MapOK, AirOK, HistoryOK, history
<1>4. CASE PingAllNext
  <2> DEFINE rest == InRange(Pingable, At)
             c == Lowest(rest)
  <2>1. mail' \in Seq(Mails) /\ At \in Nat
    BY <1>4, TakenTyped DEF PingAllNext, PostsOK
  <2>2. rest # {} => c \in Contacts /\ c \in Nat /\ c - 1 \in Nat
    BY <2>1, NextOfKind, KindsAssumption, NContactsAssumption DEF LinkOK, Contacts
  <2>3. CASE ~round.active \/ ~connected \/ rest = {}
    <3>1. RoundIsOver /\ UNCHANGED <<ping, later, air>>
      BY <1>4, <2>3 DEF PingAllNext
    <3> QED
      BY <1>4, <2>1, <3>1 DEF PingAllNext, RoundIsOver, NoRound, NoneAsked,
           LinkOK, SyncHasMore, BoundsOK, PostsOK, PingsOK, MapOK, AirOK, HistoryOK, session, bounds
  <2>4. CASE round.active /\ connected /\ rest # {}
    <3>1. /\ Asks(c)
          /\ ping' = [pending |-> port, timer |-> ping.timer \/ port]
          /\ round' = [round EXCEPT !.index = IF port THEN c - 1 ELSE c]
          /\ later' = IF port THEN later ELSE Append(later, Post("next", c))
          /\ asked' = [asked EXCEPT ![c] = @ + 1]
          /\ UNCHANGED <<disturbed, refused>>
      BY <1>4, <2>4 DEF PingAllNext
    <3>2. PostsOK'
      BY <2>1, <2>2, <2>4, <3>1, LaterTyped DEF PostsOK
    <3>3. PingsOK'
      BY <2>2, <2>4, <3>1 DEF PingsOK, LinkOK
    <3>4. AirOK'
      BY <2>2, <2>4, <3>1, AsksTyped
    <3> QED
      BY <1>4, <2>2, <2>4, <3>1, <3>2, <3>3, <3>4
         DEF PingAllNext, LinkOK, SyncHasMore, BoundsOK, MapOK, HistoryOK, session, bounds
  <2> QED
    BY <2>3, <2>4
<1>5. CASE TraceAllNext
  <2> DEFINE rest == InRange(Routed, At)
  <2>1. mail' \in Seq(Mails) /\ At \in Nat
    BY <1>5, TakenTyped DEF TraceAllNext, PostsOK
  <2>2. rest # {} => Lowest(rest) \in Contacts /\ Lowest(rest) \in Nat
    BY <2>1, NextOfKind, KindsAssumption, NContactsAssumption DEF LinkOK, Contacts
  <2>3. AirOK'
    BY <1>5, <2>2, AsksTyped DEF TraceAllNext, AirOK
  <2>4. later' \in Seq(Laters)
    BY <1>5, <2>2, LaterTyped DEF TraceAllNext, PostsOK
  <2> QED
    BY <1>5, <2>1, <2>3, <2>4 DEF TraceAllNext,
         LinkOK, SyncHasMore, BoundsOK, PostsOK, PingsOK, MapOK, HistoryOK, session, bounds, history
<1>6. CASE TracePath
  <2>1. PostsOK'
    BY <1>6, TakenTyped DEF TracePath, PostsOK
  <2>2. Listed(At) => At \in Contacts
    BY NContactsAssumption DEF Listed, Contacts, LinkOK
  <2>3. AirOK'
    BY <1>6, <2>2, AsksTyped DEF TracePath, AirOK
  <2> QED
    BY <1>6, <2>1, <2>3 DEF TracePath, LinkOK, SyncHasMore, BoundsOK, PingsOK, MapOK,
         HistoryOK, session, bounds, history
<1>7. CASE AutoTraceTick
  <2> DEFINE wanted == (Infra \ Routed) \cap 1 .. listed
             after == {c \in wanted : c > auto.index}
             next == IF auto.index < listed /\ after # {} THEN Lowest(after) ELSE Lowest(wanted)
  <2>1. mail' \in Seq(Mails)
    BY <1>7, TakenTyped DEF AutoTraceTick, PostsOK
  <2>2. wanted \in SUBSET Nat /\ after \in SUBSET wanted
    OBVIOUS
  <2>3. wanted # {} => next \in wanted
    BY <2>2, LowestInSet
  <2>4. wanted \in SUBSET Contacts /\ wanted \in SUBSET (0 .. NContacts)
    BY KindsAssumption, NContactsAssumption DEF LinkOK, Contacts
  <2> HIDE DEF wanted, next
  <2>5. \/ auto' = NoTimer /\ UNCHANGED air
        \/ /\ auto' = Looked(IF auto.index \in 1 .. listed THEN auto.index ELSE listed)
           /\ UNCHANGED air
        \/ wanted # {} /\ Asks(next) /\ auto' = Looked(next)
    BY <1>7 DEF AutoTraceTick, wanted, next
  <2>6. AirOK'
    BY <2>3, <2>4, <2>5, AsksTyped DEF AirOK
  <2>7. \A i \in 0 .. NContacts : Looked(i) \in [timer : BOOLEAN, index : 0 .. NContacts]
    BY NContactsAssumption DEF Looked, MapOK
  <2>8. NoTimer \in [timer : BOOLEAN, index : 0 .. NContacts]
    BY NContactsAssumption DEF NoTimer
  <2>9. (IF auto.index \in 1 .. listed THEN auto.index ELSE listed) \in 0 .. NContacts
    BY DEF MapOK, LinkOK
  <2>10. wanted # {} => next \in 0 .. NContacts
    BY <2>3, <2>4
  <2>11. auto' \in [timer : BOOLEAN, index : 0 .. NContacts]
    BY <2>5, <2>7, <2>8, <2>9, <2>10, Zenon
  <2> QED
    BY <1>7, <2>1, <2>6, <2>11 DEF AutoTraceTick,
         LinkOK, SyncHasMore, BoundsOK, PostsOK, PingsOK, MapOK, HistoryOK, session, bounds, history
<1>8. CASE PingTimerFires
  <2>1. PostsOK'
    BY <1>8, PostedTyped DEF PingTimerFires, PostsOK, Posts
  <2>2. PingsOK'
    BY <1>8 DEF PingTimerFires, PingsOK
  <2> QED
    BY <1>8, <2>1, <2>2 DEF PingTimerFires, LinkOK, SyncHasMore, session, BoundsOK, bounds,
         MapOK, AirOK, HistoryOK, history
<1>9. CASE LaterFires
  <2>1. later # <<>> /\ mail' = Append(mail, Head(later)) /\ later' = Tail(later)
    BY <1>9 DEF LaterFires
  <2>2. Head(later) \in Laters /\ Tail(later) \in Seq(Laters)
    BY <2>1, TailFacts DEF PostsOK
  <2>3. Head(later) \in Mails
    BY <2>2 DEF Laters, Mails, Posts
  <2>4. PostsOK'
    BY <2>1, <2>2, <2>3, AppendFacts DEF PostsOK
  <2>5. UNCHANGED <<session, ping, round, auto, map, air, bounds, history>>
    BY <1>9 DEF LaterFires
  <2>6. LinkOK' /\ BoundsOK'
    BY <2>5 DEF LinkOK, SyncHasMore, BoundsOK, session, bounds
  <2>7. PingsOK' /\ MapOK' /\ AirOK' /\ HistoryOK'
    BY <2>5 DEF PingsOK, MapOK, AirOK, HistoryOK, history
  <2> QED
    BY <2>4, <2>6, <2>7
<1>10. CASE DiscoveryAsks
  <2>1. map.queue \in Seq(Nodes) /\ map.queue # <<>>
    BY <1>10 DEF DiscoveryAsks, MapOK, Maps
  <2>2. Head(map.queue).who \in Contacts /\ Tail(map.queue) \in Seq(Nodes)
    BY <2>1, NextNode
  <2>3. PICK c \in Contacts \cup {Nobody} : mail' = Append(mail, Post("trace", c))
    BY <1>10, <2>2 DEF DiscoveryAsks
  <2>4. c \in Nat
    BY NContactsAssumption DEF Contacts, Nobody
  <2>5. PostsOK'
    BY <1>10, <2>3, <2>4, PostedTyped DEF DiscoveryAsks, PostsOK, Posts
  <2>6. MapOK'
    BY <1>10, <2>2 DEF DiscoveryAsks, MapOK, Maps
  <2> QED
    BY <1>10, <2>5, <2>6 DEF DiscoveryAsks,
         LinkOK, SyncHasMore, BoundsOK, PingsOK, AirOK, HistoryOK, session, bounds, history
<1>11. CASE DiscoveryWaits
  <2>1. /\ map.waited < 3 /\ map' = [map EXCEPT !.waited = @ + 1]
        \/ map' = [map EXCEPT !.waited = 0, !.discovering = FALSE]
    BY <1>11 DEF DiscoveryWaits
  <2>2. map' \in Maps
    <3>1. map.waited < 3 => map.waited + 1 \in 0 .. 3
      BY DEF MapOK, Maps
    <3>2. 0 \in 0 .. 3
      OBVIOUS
    <3> QED
      BY <2>1, <3>1, <3>2, Zenon DEF MapOK, Maps
  <2>3. MapOK'
    BY <1>11, <2>2 DEF DiscoveryWaits, MapOK
  <2>4. HistoryOK'
    BY <1>11, <2>2 DEF DiscoveryWaits, HistoryOK, Maps
  <2> QED
    BY <1>11, <2>3, <2>4 DEF DiscoveryWaits, LinkOK, SyncHasMore, BoundsOK, PostsOK,
         PingsOK, AirOK, session, bounds
<1>12. ASSUME NEW c \in Contacts, ContactPing(c) PROVE Typed'
  <2>1. BoundsOK'
    BY <1>12, ClicksTyped DEF ContactPing
  <2>2. /\ round' = round
        /\ \/ ping' = [ping EXCEPT !.pending = FALSE]
           \/ ping' = [pending |-> port, timer |-> ping.timer \/ port]
    BY <1>12 DEF ContactPing
  <2>3. PingsOK'
    <3>1. CASE ping' = [ping EXCEPT !.pending = FALSE]
      BY <2>2, <3>1 DEF PingsOK
    <3>2. CASE ping' = [pending |-> port, timer |-> ping.timer \/ port]
      BY <2>2, <3>2 DEF PingsOK, LinkOK
    <3> QED
      BY <2>2, <3>1, <3>2
  <2>4. AirOK'
    BY <1>12, AsksTyped DEF ContactPing, AirOK
  <2>5. HistoryOK'
    BY <1>12 DEF ContactPing, HistoryOK, PingsOK
  <2> QED
    BY <1>12, <2>1, <2>3, <2>4, <2>5 DEF ContactPing, LinkOK, SyncHasMore, PostsOK, MapOK,
         session
<1>13. CASE PingAll
  <2>1. BoundsOK'
    BY <1>13, ClicksTyped DEF PingAll
  <2>2. PostsOK'
    BY <1>13, PostedTyped DEF PingAll, PostsOK, Posts
  <2>3. Cardinality(Pingable \cap 1 .. listed) \in Nat
    <3>1. listed \in Nat /\ Pingable \cap 1 .. listed \in SUBSET (1 .. listed)
      BY NContactsAssumption DEF LinkOK
    <3> QED
      BY <3>1, CountOfKind
  <2>4. /\ ping' = ping
        /\ round' = [active |-> TRUE, index |-> 0, total |-> Cardinality(Pingable \cap 1 .. listed), responded |-> 0]
    BY <1>13 DEF PingAll
  <2>5. PingsOK'
    BY <2>3, <2>4 DEF PingsOK
  <2>6. HistoryOK'
    BY <1>13 DEF PingAll, HistoryOK, NoneAsked
  <2> QED
    BY <1>13, <2>1, <2>2, <2>5, <2>6 DEF PingAll, LinkOK, SyncHasMore, MapOK, AirOK, session
<1>14. CASE TraceAll
  <2>1. BoundsOK'
    BY <1>14, ClicksTyped DEF TraceAll, BoundsOK, bounds
  <2>2. PostsOK'
    BY <1>14, PostedTyped DEF TraceAll, PostsOK, Posts
  <2> QED
    BY <1>14, <2>1, <2>2 DEF TraceAll, LinkOK, SyncHasMore, session, PingsOK, MapOK, AirOK,
         HistoryOK, history
<1>15. CASE ShowMap
  <2>1. Refreshed(listed) \in Maps
    BY RefreshedFacts DEF LinkOK, MapOK
  <2>2. map' \in Maps
    BY <1>15, <2>1 DEF ShowMap, Maps
  <2>3. MapOK'
    BY <1>15, <2>2, NContactsAssumption DEF ShowMap, MapOK
  <2>4. BoundsOK'
    BY <1>15, ClicksTyped DEF ShowMap
  <2> QED
    BY <1>15, <2>3, <2>4 DEF ShowMap,
         LinkOK, SyncHasMore, PostsOK, PingsOK, AirOK, HistoryOK, session, history
<1>16. CASE HideMap
  <2>1. BoundsOK'
    BY <1>16, ClicksTyped DEF HideMap, BoundsOK, bounds
  <2>2. MapOK'
    BY <1>16, NContactsAssumption DEF HideMap, MapOK, NoTimer
  <2> QED
    BY <1>16, <2>1, <2>2 DEF HideMap, LinkOK, SyncHasMore, session, PostsOK, PingsOK, AirOK,
         HistoryOK, history
<1>17. ASSUME NEW recent \in SUBSET Contacts, Discover(recent) PROVE Typed'
  <2>1. recent \in SUBSET Nat /\ recent # {} /\ recent \in SUBSET (1 .. NContacts)
    BY <1>17, NContactsAssumption DEF Discover, Contacts
  <2>2. Lowest(recent) \in Nat
    BY <2>1, LowestInSet
  <2>3. PostsOK'
    BY <1>17, <2>2, PostedTyped DEF Discover, PostsOK, Posts
  <2>4. Cardinality(recent) \in Nat /\ Cardinality(recent) > 0
    BY <2>1, CountOfKind, NContactsAssumption
  <2>5. PICK order \in [1 .. Cardinality(recent) -> recent] :
          map' = [map EXCEPT
            !.discovering = TRUE,
            !.waited = 0,
            !.queue = Tail([i \in DOMAIN order |-> [who |-> order[i], alive |-> TRUE]])]
    BY <1>17 DEF Discover
  <2>6. Tail([i \in DOMAIN order |-> [who |-> order[i], alive |-> TRUE]]) \in Seq(Nodes)
    BY <2>4, QueueMade
  <2>7. MapOK'
    <3>1. auto' = auto
      BY <1>17 DEF Discover
    <3>2. 0 \in 0 .. 3
      OBVIOUS
    <3> QED
      BY <2>5, <2>6, <3>1, <3>2, Zenon DEF MapOK, Maps
  <2>8. BoundsOK'
    BY <1>17, ClicksTyped DEF Discover
  <2>9. HistoryOK'
    BY <1>17 DEF Discover, HistoryOK, LinkOK
  <2> QED
    BY <1>17, <2>3, <2>7, <2>8, <2>9 DEF Discover, LinkOK, SyncHasMore, PingsOK, AirOK, session
<1>18. CASE AutoTimerFires
  BY <1>18, PostedTyped
     DEF AutoTimerFires, Posts, LinkOK, SyncHasMore, session, BoundsOK, bounds, PostsOK,
          PingsOK, MapOK, AirOK, HistoryOK, history
<1>19. CASE RefreshMap
  BY <1>19, RefreshedFacts
     DEF RefreshMap, SetNodes, LinkOK, SyncHasMore, session, BoundsOK, bounds, PostsOK,
          PingsOK, MapOK, AirOK, HistoryOK, history
<1>20. ASSUME NEW c \in Contacts, TraceContact(c) PROVE Typed'
  BY <1>20, AsksTyped
     DEF TraceContact, LinkOK, SyncHasMore, session, BoundsOK, bounds, PostsOK, PingsOK,
          MapOK, AirOK, HistoryOK, history
<1>21. CASE PortUp
  BY <1>21
     DEF PortUp, LinkOK, SyncHasMore, session, BoundsOK, bounds, PostsOK, PingsOK, MapOK,
          AirOK, HistoryOK, history
<1>22. CASE PortDown
  <2>1. LinkOK'
    BY <1>22, NContactsAssumption DEF PortDown, LinkOK, SyncHasMore, session
  <2>2. BoundsOK'
    BY <1>22, BoundsAssumption DEF PortDown, BoundsOK, bounds
  <2> QED
    BY <1>22, <2>1, <2>2 DEF PortDown, PostsOK, PingsOK, MapOK, AirOK, HistoryOK, history
<1>23. CASE ContactsStart
  <2>1. LinkOK'
    BY <1>23, NContactsAssumption DEF ContactsStart, LinkOK, SyncHasMore, session
  <2>2. BoundsOK'
    BY <1>23, BoundsAssumption DEF ContactsStart, BoundsOK, bounds
  <2>3. HistoryOK'
    BY <1>23 DEF ContactsStart, HistoryOK, history, PingsOK, MapOK, Maps
  <2> QED
    BY <1>23, <2>1, <2>2, <2>3 DEF ContactsStart, PostsOK, PingsOK, MapOK, AirOK
<1>24. CASE ContactFrame
  <2>1. connected' = connected /\ port' = port /\ listed' = listed + 1 /\ syncing /\ (syncing' = (listed' < NContacts))
    BY <1>24 DEF ContactFrame
  <2>2. listed + 1 \in 0 .. NContacts
    BY <2>1, NContactsAssumption DEF LinkOK, SyncHasMore
  <2>3. LinkOK'
    <3>1. syncing' \in BOOLEAN /\ (syncing' => listed' < NContacts)
      <4>1. (listed' < NContacts) \in BOOLEAN
        BY <2>1, <2>2, NContactsAssumption
      <4> QED
        BY <2>1, <4>1, Zenon
    <3>2. port' \in BOOLEAN /\ connected' \in BOOLEAN /\ listed' \in 0 .. NContacts
      BY <2>1, <2>2 DEF LinkOK
    <3> QED
      BY <3>1, <3>2, Zenon DEF LinkOK, SyncHasMore
  <2>4. auto' = auto /\ (map' = map \/ map' = Refreshed(listed + 1))
    BY <1>24, <2>1 DEF ContactFrame, SetNodes
  <2>5. MapOK'
    BY <2>2, <2>4, RefreshedFacts DEF MapOK
  <2> QED
    BY <1>24, <2>3, <2>5 DEF ContactFrame, BoundsOK, PostsOK, PingsOK, AirOK, HistoryOK,
         bounds, history
<1>25. ASSUME NEW c \in Contacts, TraceData(c) PROVE Typed'
  <2>1. /\ mail' = mail /\ auto' = auto
        /\ map' = map \/ map' = [map EXCEPT !.waited = 0]
        /\ \/ ping' = NoPing /\ Advances(1)
           \/ UNCHANGED <<ping, round, later>>
    BY <1>25 DEF TraceData
  <2>2. PostsOK' /\ PingsOK'
    <3>1. CASE ping' = NoPing /\ Advances(1)
      BY <2>1, <3>1, AdvancesTyped DEF PostsOK, PingsOK, NoPing
    <3>2. CASE UNCHANGED <<ping, round, later>>
      BY <2>1, <3>2 DEF PostsOK, PingsOK
    <3> QED
      BY <2>1, <3>1, <3>2
  <2>3. MapOK'
    BY <2>1 DEF MapOK, Maps
  <2>4. AirOK'
    BY <1>25, LosesTyped DEF TraceData
  <2> QED
    BY <1>25, <2>2, <2>3, <2>4 DEF TraceData, LinkOK, SyncHasMore, BoundsOK, HistoryOK,
         session, bounds, history
<1>26. ASSUME NEW c \in Contacts, Loses(c) PROVE Typed'
  BY <1>26, LosesTyped
     DEF Loses, LinkOK, SyncHasMore, session, BoundsOK, bounds, PostsOK, PingsOK, MapOK,
          AirOK, HistoryOK, history
<1> QED
  BY <1>1, <1>2, <1>3, <1>4, <1>5, <1>6, <1>7, <1>8, <1>9, <1>10, <1>11, <1>12, <1>13,
       <1>14, <1>15, <1>16, <1>17, <1>18, <1>19, <1>20, <1>21, <1>22, <1>23, <1>24, <1>25, <1>26
     DEF Next, Window, Notices, Mail, Runners, User, Background, Radio

-----------------------------------------------------------------------------
(* Pings.                                                                  *)

Driven ==
  /\ ping.pending => ping.timer \/ Holds(mail, "timeout")
  /\ round.active /\ ~refused => ping.pending \/ Holds(mail, "next") \/ Holds(later, "next")

LEMMA DrivenMeans == Driven <=> PingsDriven
  BY DEF Driven, PingsDriven, PingWatched, RoundDriven, Posted, Holds

(* A handler takes its own post from the mail and no other.                *)
LEMMA TakesItsOwn ==
  ASSUME PostsOK, NEW kind, Handles(kind), NEW what, what # kind, Holds(mail, what)
  PROVE  Holds(mail', what)
  BY HoldsTail DEF Handles, PostsOK

LEMMA PostKeeps ==
  ASSUME PostsOK, NEW kind \in Posts, NEW at \in Nat, mail' = Append(mail, Post(kind, at)), NEW what
  PROVE  Holds(mail', what) <=> Holds(mail, what) \/ kind = what
<1>1. Post(kind, at) \in Mails /\ Post(kind, at).what = kind
  BY DEF Post, Mails
<1> QED
  BY <1>1, HoldsAppend DEF PostsOK

LEMMA LaterKeeps ==
  ASSUME PostsOK, NEW kind \in {"next", "trace_next"}, NEW at \in Nat,
         later' = Append(later, Post(kind, at)), NEW what
  PROVE  Holds(later', what) <=> Holds(later, what) \/ kind = what
<1>1. Post(kind, at) \in Laters /\ Post(kind, at).what = kind
  BY DEF Post, Laters
<1> QED
  BY <1>1, HoldsAppend DEF PostsOK

(* A step that only posts more, or nothing, keeps who goes on with what.   *)
LEMMA DrivenKept ==
  ASSUME Driven, UNCHANGED <<ping, round, refused>>,
         \A what \in {"timeout", "next"} : Holds(mail, what) => Holds(mail', what),
         Holds(later, "next") => Holds(later', "next")
  PROVE  Driven'
  BY DEF Driven

(* A ping that ended has its round post the next.                          *)
LEMMA AdvancesDrives ==
  ASSUME PingsOK, PostsOK, NEW n \in Nat, Advances(n)
  PROVE  round'.active => Holds(later', "next")
<1>1. CASE round.active
  <2>1. round.index + 1 \in Nat /\ later' = Append(later, Post("next", round.index + 1))
    BY <1>1 DEF Advances, PingsOK
  <2> QED
    BY <2>1, LaterKeeps
<1>2. CASE ~round.active
  BY <1>2 DEF Advances
<1> QED
  BY <1>1, <1>2

(* Every step leaves each ping and round with something that drives it.   *)
LEMMA DrivenStep ==
  ASSUME Typed, Driven, Next
  PROVE  Driven'
<1> USE DEF Typed
<1>1. ASSUME UNCHANGED <<mail, later, ping, round, refused>> PROVE Driven'
  BY <1>1 DEF Driven
<1>2. CASE \/ OnConnected \/ DiscoveryWaits \/ HideMap \/ ShowMap \/ RefreshMap
           \/ PortUp \/ PortDown \/ ContactsStart \/ ContactFrame
           \/ \E c \in Contacts : TraceContact(c) \/ Loses(c)
  BY <1>1, <1>2 DEF OnConnected, DiscoveryWaits, HideMap, ShowMap, RefreshMap, PortUp, PortDown,
       ContactsStart, ContactFrame, TraceContact, Loses, history
<1>3. CASE OnDisconnected
  BY <1>3 DEF OnDisconnected, RoundIsOver, NoRound, NoPing, Driven
<1>4. CASE PingTimeout
  <2>1. ping' = NoPing /\ UNCHANGED refused
    BY <1>4 DEF PingTimeout, history
  <2>2. CASE ping.pending
    <3>1. Advances(0)
      BY <1>4, <2>2 DEF PingTimeout
    <3> QED
      BY <2>1, <3>1, AdvancesDrives DEF Driven, NoPing
  <2>3. CASE ~ping.pending
    <3>1. UNCHANGED <<round, later>>
      BY <1>4, <2>3 DEF PingTimeout
    <3>2. Holds(mail, "next") => Holds(mail', "next")
      BY <1>4, TakesItsOwn DEF PingTimeout
    <3> QED
      BY <2>1, <2>3, <3>1, <3>2 DEF Driven, NoPing
  <2> QED
    BY <2>2, <2>3
<1>5. CASE PingAllNext
  <2> DEFINE rest == InRange(Pingable, At)
             c == Lowest(rest)
  <2>1. At \in Nat
    BY <1>5, TakenTyped DEF PingAllNext, PostsOK
  <2>2. Holds(mail, "timeout") => Holds(mail', "timeout")
    BY <1>5, TakesItsOwn DEF PingAllNext
  <2>3. CASE RoundIsOver /\ UNCHANGED <<ping, later, air>>
    BY <2>2, <2>3 DEF RoundIsOver, NoRound, Driven
  <2>4. CASE /\ rest # {}
             /\ ping' = [pending |-> port, timer |-> ping.timer \/ port]
             /\ later' = IF port THEN later ELSE Append(later, Post("next", c))
    <3>1. c \in Nat
      BY <2>1, <2>4, NextOfKind, KindsAssumption, NContactsAssumption DEF LinkOK, Contacts
    <3>2. ping'.pending = port /\ ping'.timer = (ping.timer \/ port)
      BY <2>4
    <3>3. port \/ Holds(later', "next")
      BY <2>4, <3>1, LaterKeeps
    <3> QED
      BY <2>2, <3>2, <3>3 DEF Driven
  <2> QED
    BY <1>5, <2>3, <2>4 DEF PingAllNext
<1>6. CASE TraceAllNext
  <2> DEFINE rest == InRange(Routed, At)
  <2>1. At \in Nat
    BY <1>6, TakenTyped DEF TraceAllNext, PostsOK
  <2>2. rest # {} => Lowest(rest) \in Nat
    BY <2>1, NextOfKind, KindsAssumption, NContactsAssumption DEF LinkOK, Contacts
  <2>3. Holds(later, "next") => Holds(later', "next")
    BY <1>6, <2>2, LaterKeeps DEF TraceAllNext
  <2>4. \A what \in {"timeout", "next"} : Holds(mail, what) => Holds(mail', what)
    BY <1>6, TakesItsOwn DEF TraceAllNext
  <2> QED
    BY <1>6, <2>3, <2>4, DrivenKept DEF TraceAllNext, history
<1>7. CASE TracePath
  <2>1. \A what \in {"timeout", "next"} : Holds(mail, what) => Holds(mail', what)
    BY <1>7, TakesItsOwn DEF TracePath
  <2> QED
    BY <1>7, <2>1, DrivenKept DEF TracePath, history
<1>8. CASE AutoTraceTick
  <2>1. \A what \in {"timeout", "next"} : Holds(mail, what) => Holds(mail', what)
    BY <1>8, TakesItsOwn DEF AutoTraceTick
  <2> QED
    BY <1>8, <2>1, DrivenKept DEF AutoTraceTick, history
<1>9. CASE PingTimerFires
  <2>1. \A what \in {"timeout", "next"} : Holds(mail', what) <=> Holds(mail, what) \/ what = "timeout"
    BY <1>9, PostKeeps DEF PingTimerFires, Posts
  <2>2. ping'.pending = ping.pending /\ UNCHANGED <<later, round, refused>>
    BY <1>9 DEF PingTimerFires, PingsOK, history
  <2> QED
    BY <2>1, <2>2 DEF Driven
<1>10. CASE LaterFires
  <2>1. later # <<>> /\ mail' = Append(mail, Head(later)) /\ later' = Tail(later)
    BY <1>10 DEF LaterFires
  <2>2. Head(later) \in Mails
    <3>1. Head(later) \in Laters
      BY <2>1, TailFacts DEF PostsOK
    <3> QED
      BY <3>1 DEF Laters, Mails, Posts
  <2>3. \A what : Holds(mail', what) <=> Holds(mail, what) \/ Head(later).what = what
    BY <2>1, <2>2, HoldsAppend DEF PostsOK
  <2>4. Holds(later, "next") => Holds(later', "next") \/ Head(later).what = "next"
    BY <2>1, HoldsTail DEF PostsOK
  <2>5. UNCHANGED <<ping, round, refused>>
    BY <1>10 DEF LaterFires, history
  <2> QED
    BY <2>3, <2>4, <2>5 DEF Driven
<1>11. CASE DiscoveryAsks
  <2>1. map.queue \in Seq(Nodes) /\ map.queue # <<>>
    BY <1>11 DEF DiscoveryAsks, MapOK, Maps
  <2>2. Head(map.queue).who \in Contacts
    BY <2>1, NextNode
  <2>3. PICK c \in Contacts \cup {Nobody} : mail' = Append(mail, Post("trace", c))
    BY <1>11, <2>2 DEF DiscoveryAsks
  <2>4. c \in Nat
    BY NContactsAssumption DEF Contacts, Nobody
  <2>5. \A what : Holds(mail, what) => Holds(mail', what)
    BY <2>3, <2>4, PostKeeps DEF Posts
  <2> QED
    BY <1>11, <2>5, DrivenKept DEF DiscoveryAsks, history
<1>12. ASSUME NEW c \in Contacts, ContactPing(c) PROVE Driven'
  <2>1. UNCHANGED <<mail, later, round>>
    BY <1>12 DEF ContactPing
  <2>2. CASE /\ ping' = [ping EXCEPT !.pending = FALSE]
             /\ refused' = (refused \/ round.active)
    <3>1. ~ping'.pending
      BY <2>2 DEF PingsOK
    <3> QED
      BY <2>1, <2>2, <3>1 DEF Driven
  <2>3. CASE /\ ping' = [pending |-> port, timer |-> ping.timer \/ port]
             /\ refused' = (refused \/ (round.active /\ ~port))
    <3>1. ping'.pending = port /\ ping'.timer = (ping.timer \/ port)
      BY <2>3
    <3> QED
      BY <2>1, <2>3, <3>1 DEF Driven
  <2> QED
    BY <1>12, <2>2, <2>3 DEF ContactPing
<1>13. CASE PingAll
  <2>1. \A what : Holds(mail', what) <=> Holds(mail, what) \/ what = "next"
    BY <1>13, PostKeeps DEF PingAll, Posts
  <2>2. UNCHANGED ping
    BY <1>13 DEF PingAll
  <2> QED
    BY <2>1, <2>2 DEF Driven
<1>14. CASE TraceAll
  <2>1. \A what : Holds(mail, what) => Holds(mail', what)
    BY <1>14, PostKeeps DEF TraceAll, Posts
  <2> QED
    BY <1>14, <2>1, DrivenKept DEF TraceAll, history
<1>15. ASSUME NEW recent \in SUBSET Contacts, Discover(recent) PROVE Driven'
  <2>1. recent \in SUBSET Nat /\ recent # {}
    BY <1>15, NContactsAssumption DEF Discover, Contacts
  <2>2. Lowest(recent) \in Nat
    BY <2>1, LowestInSet
  <2>3. \A what : Holds(mail, what) => Holds(mail', what)
    BY <1>15, <2>2, PostKeeps DEF Discover, Posts
  <2> QED
    BY <1>15, <2>3, DrivenKept DEF Discover
<1>16. CASE AutoTimerFires
  <2>1. \A what : Holds(mail, what) => Holds(mail', what)
    BY <1>16, PostKeeps DEF AutoTimerFires, Posts
  <2> QED
    BY <1>16, <2>1, DrivenKept DEF AutoTimerFires, history
<1>17. ASSUME NEW c \in Contacts, TraceData(c) PROVE Driven'
  <2>1. UNCHANGED <<mail, refused>>
    BY <1>17 DEF TraceData, history
  <2>2. CASE ping' = NoPing /\ Advances(1)
    BY <2>1, <2>2, AdvancesDrives DEF Driven, NoPing
  <2>3. CASE UNCHANGED <<ping, round, later>>
    BY <1>1, <2>1, <2>3
  <2> QED
    BY <1>17, <2>2, <2>3 DEF TraceData
<1> QED
  BY <1>2, <1>3, <1>4, <1>5, <1>6, <1>7, <1>8, <1>9, <1>10, <1>11, <1>12, <1>13, <1>14, <1>15,
     <1>16, <1>17
     DEF Next, Window, Notices, Mail, Runners, User, Background, Radio

-----------------------------------------------------------------------------
(* The discovery.  As long as the list was not emptied since it began, the *)
(* nodes it has left are alive and their contacts are listed, so that no   *)
(* refresh deletes one: the list only grows.                               *)

Kept(n) ==
  map.discovering /\ ~relisted =>
    \A i \in 1 .. Len(map.queue) : map.queue[i].alive /\ map.queue[i].who <= n
QueueKept == Kept(listed)

LEMMA RefreshKeeps ==
  ASSUME Typed, QueueKept, NEW n \in 0 .. NContacts, listed <= n,
         map' = Refreshed(n) \/ map' = [Refreshed(n) EXCEPT !.made = TRUE],
         listed' = n, relisted' = relisted
  PROVE  QueueKept'
<1>1. map \in Maps /\ Refreshed(n) \in Maps /\ listed \in 0 .. NContacts
  BY RefreshedFacts DEF Typed, MapOK, LinkOK
<1>2. map'.discovering = map.discovering /\ map'.queue = Refreshed(n).queue
  BY <1>1, RefreshedFacts DEF Maps
<1> SUFFICES ASSUME map.discovering, ~relisted, NEW i \in 1 .. Len(map.queue)
             PROVE  map'.queue[i].alive /\ map'.queue[i].who <= n
  BY <1>1, <1>2, RefreshedFacts DEF QueueKept, Kept
<1>3. map.queue[i].alive /\ map.queue[i].who <= listed
  BY DEF QueueKept, Kept
<1>4. map.queue[i] \in Nodes
  BY <1>1 DEF Maps
<1>5. map.queue[i].who <= n
  BY <1>1, <1>3, <1>4, NContactsAssumption DEF Nodes, Contacts
<1> QED
  BY <1>1, <1>2, <1>3, <1>5, RefreshedFacts

(* Every step keeps a discovery's queue to living nodes.                   *)
LEMMA QueueStep ==
  ASSUME Typed, QueueKept, Next
  PROVE  QueueKept'
<1> USE DEF Typed
<1>1. ASSUME map'.discovering = map.discovering, map'.queue = map.queue, UNCHANGED <<listed, relisted>>
      PROVE  QueueKept'
  BY <1>1 DEF QueueKept, Kept
<1>2. CASE \/ OnConnected \/ PingTimeout \/ PingAllNext \/ TraceAllNext \/ TracePath \/ AutoTraceTick
           \/ PingTimerFires \/ LaterFires \/ PingAll \/ TraceAll \/ HideMap \/ AutoTimerFires
           \/ PortUp \/ PortDown
           \/ \E c \in Contacts : ContactPing(c) \/ TraceContact(c) \/ Loses(c)
  <2>1. UNCHANGED <<map, listed, relisted>>
    BY <1>2 DEF OnConnected, PingTimeout, PingAllNext, TraceAllNext, TracePath, AutoTraceTick,
         PingTimerFires, LaterFires, PingAll, TraceAll, HideMap, AutoTimerFires, PortUp, PortDown,
         ContactPing, TraceContact, Loses, session, history
  <2> QED
    BY <1>1, <2>1
<1>3. CASE OnDisconnected
  <2>1. map' = Refreshed(0) \/ map' = map
    BY <1>3 DEF OnDisconnected, SetNodes
  <2>2. map'.discovering = map.discovering
    BY <2>1, RefreshedFacts, NContactsAssumption DEF MapOK
  <2>3. relisted' = map.discovering
    BY <1>3 DEF OnDisconnected
  <2> QED
    BY <2>2, <2>3 DEF QueueKept, Kept
<1>4. CASE ContactsStart
  BY <1>4 DEF ContactsStart, QueueKept, Kept
<1>5. CASE ContactFrame
  <2>1. listed' = listed + 1 /\ relisted' = relisted /\ (map' = map \/ map' = Refreshed(listed + 1))
    BY <1>5 DEF ContactFrame, SetNodes, history
  <2>2. listed + 1 \in 0 .. NContacts /\ listed <= listed + 1
    BY <1>5, NContactsAssumption DEF ContactFrame, LinkOK, SyncHasMore
  <2>3. CASE map' = Refreshed(listed + 1)
    BY <2>1, <2>2, <2>3, RefreshKeeps
  <2>4. CASE map' = map
    <3> SUFFICES ASSUME map.discovering, ~relisted, NEW i \in 1 .. Len(map.queue)
                 PROVE  map.queue[i].alive /\ map.queue[i].who <= listed + 1
      BY <2>1, <2>4 DEF QueueKept, Kept
    <3>1. map.queue[i].alive /\ map.queue[i].who <= listed
      BY DEF QueueKept, Kept
    <3>2. map.queue[i] \in Nodes
      BY DEF MapOK, Maps
    <3> QED
      BY <3>1, <3>2, NContactsAssumption DEF Nodes, Contacts, LinkOK
  <2> QED
    BY <2>1, <2>3, <2>4
<1>6. CASE ShowMap \/ RefreshMap
  <2>1. /\ map' = Refreshed(listed) \/ map' = [Refreshed(listed) EXCEPT !.made = TRUE]
        /\ listed' = listed /\ relisted' = relisted
    BY <1>6 DEF ShowMap, RefreshMap, SetNodes, session, history
  <2>2. listed \in 0 .. NContacts /\ listed <= listed
    BY NContactsAssumption DEF LinkOK
  <2> QED
    BY <2>1, <2>2, RefreshKeeps
<1>7. ASSUME NEW recent \in SUBSET Contacts, Discover(recent) PROVE QueueKept'
  <2>1. /\ recent # {} /\ recent \in SUBSET (1 .. map.nodes) /\ map.nodes \in 0 .. NContacts
        /\ listed' = listed /\ relisted' = (syncing \/ listed < map.nodes)
    BY <1>7 DEF Discover, session, MapOK, Maps
  <2>2. Cardinality(recent) \in Nat /\ Cardinality(recent) > 0
    <3>1. map.nodes \in Nat
      BY <2>1, NContactsAssumption
    <3> QED
      BY <2>1, <3>1, CountOfKind
  <2>3. PICK order \in [1 .. Cardinality(recent) -> recent] :
          map' = [map EXCEPT
            !.discovering = TRUE,
            !.waited = 0,
            !.queue = Tail([i \in DOMAIN order |-> [who |-> order[i], alive |-> TRUE]])]
    BY <1>7 DEF Discover
  <2>4. map'.queue = Tail([i \in DOMAIN order |-> [who |-> order[i], alive |-> TRUE]])
    BY <2>3 DEF MapOK, Maps
  <2>5. \A i \in 1 .. Len(map'.queue) : map'.queue[i].alive /\ map'.queue[i].who \in recent
    BY <2>2, <2>4, QueueMade
  <2>6. ~relisted' => \A c \in recent : c <= listed
    <3> SUFFICES ASSUME ~ (listed < map.nodes), NEW c \in recent PROVE c <= listed
      BY <2>1
    <3>1. c \in Nat /\ c <= map.nodes /\ map.nodes \in Nat /\ listed \in Nat
      BY <2>1, NContactsAssumption DEF LinkOK
    <3> QED
      BY <3>1
  <2> QED
    BY <2>1, <2>5, <2>6 DEF QueueKept, Kept
<1>8. CASE DiscoveryAsks
  <2>1. /\ map.queue \in Seq(Nodes) /\ map.queue # <<>>
        /\ map' = [map EXCEPT !.queue = Tail(@)] /\ UNCHANGED <<listed, relisted>>
    BY <1>8 DEF DiscoveryAsks, MapOK, Maps, session, history
  <2>2. map'.queue = Tail(map.queue) /\ map'.discovering = map.discovering
    BY <2>1 DEF MapOK, Maps
  <2>3. /\ Len(map.queue) \in Nat /\ Len(map'.queue) = Len(map.queue) - 1
        /\ \A i \in 1 .. Len(map'.queue) : map'.queue[i] = map.queue[i + 1]
    BY <2>1, <2>2, TailFacts
  <2>4. \A i \in 1 .. Len(map'.queue) : i + 1 \in 1 .. Len(map.queue)
    BY <2>3
  <2> QED
    BY <2>1, <2>2, <2>3, <2>4 DEF QueueKept, Kept
<1>9. CASE DiscoveryWaits
  <2>1. /\ map' = [map EXCEPT !.waited = @ + 1] \/ map' = [map EXCEPT !.waited = 0, !.discovering = FALSE]
        /\ map.discovering /\ relisted' = (relisted /\ map'.discovering) /\ listed' = listed
    BY <1>9 DEF DiscoveryWaits, session
  <2>2. /\ map'.queue = map.queue
        /\ map'.discovering \in BOOLEAN /\ (map'.discovering => relisted' = relisted)
    BY <2>1 DEF MapOK, Maps, HistoryOK
  <2> QED
    BY <2>1, <2>2 DEF QueueKept, Kept
<1>10. ASSUME NEW c \in Contacts, TraceData(c) PROVE QueueKept'
  <2>1. (map' = map \/ map' = [map EXCEPT !.waited = 0]) /\ UNCHANGED <<listed, relisted>>
    BY <1>10 DEF TraceData, session, history
  <2>2. map'.discovering = map.discovering /\ map'.queue = map.queue
    BY <2>1 DEF MapOK, Maps
  <2> QED
    BY <1>1, <2>1, <2>2
<1> QED
  BY <1>2, <1>3, <1>4, <1>5, <1>6, <1>7, <1>8, <1>9, <1>10
     DEF Next, Window, Notices, Mail, Runners, User, Background, Radio

-----------------------------------------------------------------------------
(* Rounds.  A round that nothing else moved has one thing that goes on     *)
(* with it: a ping under way, or one post behind which the contacts are    *)
(* still to be asked.  All up to there were asked, each once, and no more  *)
(* of them answered.                                                       *)

NoNext(q) == \A i \in 1 .. Len(q) : q[i].what # "next"
OneNext(q, a) == \E i \in 1 .. Len(q) : /\ q[i].what = "next" /\ q[i].at = a
                                        /\ \A j \in 1 .. Len(q) : q[j].what = "next" => j = i
Waits(m, l, a) == \/ OneNext(m, a) /\ NoNext(l)
                  \/ NoNext(m) /\ OneNext(l, a)

Behind(n) == {c \in Pingable : c <= n}
AskedUpTo(f, n) == \A c \in Pingable : f[c] = IF c <= n THEN 1 ELSE 0

(* A list that is not being filled is the radio's, or empty.               *)
ListKept == syncing \/ listed \in {0, NContacts}

RoundKept ==
  round.active /\ ~disturbed =>
    /\ ~syncing /\ listed = NContacts /\ round.total = Cardinality(Pingable)
    /\ \/ /\ ping.pending /\ NoNext(mail) /\ NoNext(later)
          /\ AskedUpTo(asked, round.index + 1)
          /\ round.responded + 1 <= Cardinality(Behind(round.index + 1))
       \/ /\ ~ping.pending
          /\ \E a \in Nat : /\ Waits(mail, later, a) /\ AskedUpTo(asked, a)
                            /\ round.responded <= Cardinality(Behind(a))

LEMMA NextAppend ==
  ASSUME NEW S, NEW q \in Seq(S), NEW e \in S
  PROVE  /\ NoNext(q) /\ e.what # "next" => NoNext(Append(q, e))
         /\ e.what # "next" => \A a : OneNext(q, a) => OneNext(Append(q, e), a)
         /\ NoNext(q) /\ e.what = "next" => OneNext(Append(q, e), e.at)
<1> DEFINE r == Append(q, e)
<1>1. /\ Len(q) \in Nat /\ Len(r) = Len(q) + 1 /\ r[Len(q) + 1] = e
      /\ \A i \in 1 .. Len(q) : r[i] = q[i]
  BY AppendFacts
<1> HIDE DEF r
<1>2. \A i \in 1 .. Len(r) : i \in 1 .. Len(q) \/ i = Len(q) + 1
  BY <1>1
<1>3. NoNext(q) /\ e.what # "next" => NoNext(r)
  BY <1>1, <1>2 DEF NoNext
<1>4. ASSUME e.what # "next", NEW a, OneNext(q, a) PROVE OneNext(r, a)
  <2>1. PICK i \in 1 .. Len(q) : /\ q[i].what = "next" /\ q[i].at = a
                                 /\ \A j \in 1 .. Len(q) : q[j].what = "next" => j = i
    BY <1>4 DEF OneNext
  <2>2. i \in 1 .. Len(r) /\ r[i] = q[i]
    BY <1>1
  <2>3. \A j \in 1 .. Len(r) : r[j].what = "next" => j = i
    BY <1>1, <1>2, <1>4, <2>1
  <2> QED
    BY <2>1, <2>2, <2>3 DEF OneNext
<1>5. ASSUME NoNext(q), e.what = "next" PROVE OneNext(r, e.at)
  <2>1. Len(q) + 1 \in 1 .. Len(r)
    BY <1>1
  <2>2. \A j \in 1 .. Len(r) : r[j].what = "next" => j = Len(q) + 1
    BY <1>1, <1>2, <1>5 DEF NoNext
  <2> QED
    BY <1>1, <1>5, <2>1, <2>2 DEF OneNext
<1> QED
  BY <1>3, <1>4, <1>5 DEF r

LEMMA NextTail ==
  ASSUME NEW S, NEW q \in Seq(S), q # <<>>
  PROVE  /\ NoNext(q) => NoNext(Tail(q)) /\ Head(q).what # "next"
         /\ Head(q).what # "next" => \A a : OneNext(q, a) => OneNext(Tail(q), a)
         /\ Head(q).what = "next" => \A a : OneNext(q, a) => Head(q).at = a /\ NoNext(Tail(q))
<1> DEFINE r == Tail(q)
<1>1. /\ Head(q) = q[1] /\ Len(q) \in Nat \ {0} /\ Len(r) = Len(q) - 1
      /\ \A i \in 1 .. Len(q) - 1 : r[i] = q[i + 1]
  BY TailFacts
<1> HIDE DEF r
<1>2. \A i \in 1 .. Len(r) : i + 1 \in 1 .. Len(q) /\ i + 1 # 1 /\ r[i] = q[i + 1]
  BY <1>1
<1>3. 1 \in 1 .. Len(q)
  BY <1>1
<1>4. NoNext(q) => NoNext(r) /\ Head(q).what # "next"
  BY <1>1, <1>2, <1>3 DEF NoNext
<1>5. ASSUME NEW a, OneNext(q, a), Head(q).what # "next" PROVE OneNext(r, a)
  <2>1. PICK i \in 1 .. Len(q) : /\ q[i].what = "next" /\ q[i].at = a
                                 /\ \A j \in 1 .. Len(q) : q[j].what = "next" => j = i
    BY <1>5 DEF OneNext
  <2>2. i # 1
    BY <1>1, <1>5, <2>1
  <2>3. PICK k \in 1 .. Len(r) : k + 1 = i
    <3>1. i - 1 \in 1 .. Len(r) /\ (i - 1) + 1 = i
      BY <1>1, <2>2
    <3> QED
      BY <3>1
  <2>4. r[k] = q[i]
    BY <1>2, <2>3
  <2>5. \A j \in 1 .. Len(r) : r[j].what = "next" => j = k
    BY <1>2, <2>1, <2>3
  <2> QED
    BY <2>1, <2>4, <2>5 DEF OneNext
<1>6. ASSUME NEW a, OneNext(q, a), Head(q).what = "next" PROVE Head(q).at = a /\ NoNext(r)
  <2>1. PICK i \in 1 .. Len(q) : /\ q[i].what = "next" /\ q[i].at = a
                                 /\ \A j \in 1 .. Len(q) : q[j].what = "next" => j = i
    BY <1>6 DEF OneNext
  <2>2. i = 1
    BY <1>1, <1>3, <1>6, <2>1
  <2> QED
    BY <1>1, <1>2, <2>1, <2>2 DEF NoNext
<1> QED
  BY <1>4, <1>5, <1>6 DEF r

(* The contacts behind a number, and those behind the next to ask.         *)
LEMMA BehindFacts ==
  /\ IsFiniteSet(Pingable) /\ Pingable \subseteq Nat \ {0}
  /\ \A n \in Nat : IsFiniteSet(Behind(n)) /\ Cardinality(Behind(n)) \in Nat
  /\ \A n \in Nat : Cardinality(Behind(n)) <= Cardinality(Pingable)
  /\ Behind(0) = {} /\ Cardinality(Behind(0)) = 0
<1>1. Pingable \subseteq Contacts /\ Contacts \subseteq Nat \ {0} /\ IsFiniteSet(Contacts)
  BY KindsAssumption, NContactsAssumption, FS_Interval DEF Contacts
<1>2. IsFiniteSet(Pingable) /\ Pingable \subseteq Nat \ {0}
  BY <1>1, FS_Subset
<1>3. ASSUME NEW n \in Nat
      PROVE  IsFiniteSet(Behind(n)) /\ Cardinality(Behind(n)) \in Nat
             /\ Cardinality(Behind(n)) <= Cardinality(Pingable)
  <2>1. Behind(n) \subseteq Pingable
    BY DEF Behind
  <2> QED
    BY <1>2, <2>1, FS_Subset, FS_CardinalityType
<1>4. Behind(0) = {}
  <2>1. \A c \in Nat \ {0} : ~ (c <= 0)
    OBVIOUS
  <2>2. \A c \in Pingable : ~ (c <= 0)
    BY <1>2, <2>1
  <2> QED
    BY <2>2 DEF Behind
<1> QED
  BY <1>2, <1>3, <1>4, FS_EmptySet

LEMMA BehindNext ==
  ASSUME listed = NContacts, NEW a \in Nat, InRange(Pingable, a) # {},
         NEW c, c = Lowest(InRange(Pingable, a))
  PROVE  /\ c \in Pingable /\ c \in Nat \ {0} /\ a < c
         /\ \A d \in Pingable : d <= c <=> d <= a \/ d = c
         /\ Cardinality(Behind(c)) = Cardinality(Behind(a)) + 1
<1> DEFINE S == InRange(Pingable, a)
<1>1. S \in SUBSET Nat /\ \A i : i \in S <=> i \in Pingable /\ a < i /\ i <= listed
  BY BehindFacts DEF InRange
<1>2. c \in S /\ \A y \in S : c <= y
  BY <1>1, LowestInSet
<1>3. \A d \in Pingable : d \in Nat /\ d <= listed
  BY KindsAssumption, NContactsAssumption DEF Contacts
<1>4. c \in Pingable /\ c \in Nat \ {0} /\ a < c
  BY <1>1, <1>2, BehindFacts
<1>5. \A d \in Pingable : d <= c <=> d <= a \/ d = c
  BY <1>1, <1>2, <1>3, <1>4
<1>6. Behind(c) = Behind(a) \cup {c} /\ c \notin Behind(a)
  <2>1. ~ (c <= a)
    BY <1>4
  <2> QED
    BY <1>4, <1>5, <2>1, Zenon DEF Behind
<1>7. IsFiniteSet(Behind(a))
  BY BehindFacts
<1> QED
  BY <1>4, <1>5, <1>6, <1>7, FS_AddElement

LEMMA PostFacts ==
  ASSUME NEW what \in Posts, NEW a \in Nat
  PROVE  /\ Post(what, a).what = what /\ Post(what, a).at = a
         /\ Post(what, a) \in Mails
         /\ what \in {"next", "trace_next"} => Post(what, a) \in Laters
         /\ Post("next", a).what = "next" /\ Post("next", a).at = a
         /\ Post("next", a) \in Mails /\ Post("next", a) \in Laters
BY DEF Post, Mails, Laters, Posts

(* A step that moves no post of a round and no ping keeps it.              *)
LEMMA RoundQuiet ==
  ASSUME RoundKept, UNCHANGED <<syncing, listed, round, asked, disturbed>>, ping'.pending = ping.pending,
         NoNext(mail) => NoNext(mail'), \A a : OneNext(mail, a) => OneNext(mail', a),
         NoNext(later) => NoNext(later'), \A a : OneNext(later, a) => OneNext(later', a)
  PROVE  RoundKept'
<1> SUFFICES ASSUME round'.active, ~disturbed' PROVE RoundKept'
  BY DEF RoundKept
<1>1. round.active /\ ~disturbed
  OBVIOUS
<1>2. \A a : Waits(mail, later, a) => Waits(mail', later', a)
  BY DEF Waits
<1> QED
  BY <1>1, <1>2 DEF RoundKept

(* A ping that ends has its round wait for the next.                       *)
LEMMA RoundAdvances ==
  ASSUME Typed, RoundKept, ping.pending, ping'.pending = FALSE, NEW n \in {0, 1}, Advances(n),
         UNCHANGED <<syncing, listed, asked, disturbed>>, NoNext(mail) => NoNext(mail')
  PROVE  RoundKept'
<1> SUFFICES ASSUME round'.active, ~disturbed' PROVE RoundKept'
  BY DEF RoundKept
<1>1. round \in [active : BOOLEAN, index : Nat, total : Nat, responded : Nat] /\ later \in Seq(Laters)
  BY DEF Typed, PingsOK, PostsOK
<1>2. round.active /\ ~disturbed
  BY DEF Advances
<1>3. /\ ~syncing /\ listed = NContacts /\ round.total = Cardinality(Pingable)
      /\ NoNext(mail) /\ NoNext(later)
      /\ AskedUpTo(asked, round.index + 1)
      /\ round.responded + 1 <= Cardinality(Behind(round.index + 1))
  BY <1>2 DEF RoundKept
<1>4. PICK a \in Nat : a = round.index + 1
  BY <1>1
<1>5. /\ round'.total = round.total /\ round'.responded = round.responded + n
      /\ later' = Append(later, Post("next", a))
  BY <1>1, <1>2, <1>4 DEF Advances
<1>6. OneNext(later', a)
  <2>1. PICK e \in Laters : e = Post("next", a) /\ e.what = "next" /\ e.at = a
    BY PostFacts DEF Posts
  <2> QED
    BY <1>1, <1>3, <1>5, <2>1, NextAppend
<1>7. round.responded + n <= Cardinality(Behind(a))
  <2>1. Cardinality(Behind(a)) \in Nat /\ round.responded \in Nat
    BY <1>1, BehindFacts
  <2>2. round.responded + 1 <= Cardinality(Behind(a))
    BY <1>3, <1>4
  <2> QED
    BY <2>1, <2>2
<1>8. Waits(mail', later', a) /\ AskedUpTo(asked', a)
  BY <1>3, <1>4, <1>6 DEF Waits
<1> QED
  BY <1>3, <1>5, <1>7, <1>8 DEF RoundKept

(* The handler of the round's post is handed the contact up to which all   *)
(* were asked; what it finds past that, it asks.                           *)
LEMMA NextFacts ==
  ASSUME Typed, RoundKept, PingAllNext, round.active, ~disturbed
  PROVE  /\ At \in Nat /\ ~ping.pending /\ listed = NContacts /\ round.total = Cardinality(Pingable)
         /\ AskedUpTo(asked, At) /\ round.responded <= Cardinality(Behind(At))
         /\ NoNext(mail') /\ NoNext(later)
<1>1. mail \in Seq(Mails) /\ mail # <<>> /\ Head(mail).what = "next" /\ mail' = Tail(mail)
  BY DEF Typed, PostsOK, PingAllNext, Handles
<1>2. ~NoNext(mail)
  BY <1>1, NextTail
<1>3. PICK a \in Nat : /\ OneNext(mail, a) /\ NoNext(later)
                       /\ AskedUpTo(asked, a) /\ round.responded <= Cardinality(Behind(a))
  BY <1>2 DEF RoundKept, Waits
<1>4. At = a /\ NoNext(mail')
  BY <1>1, <1>3, NextTail DEF At
<1> QED
  BY <1>2, <1>3, <1>4 DEF RoundKept

LEMMA RoundAsks ==
  ASSUME Typed, RoundKept, PingAllNext
  PROVE  RoundKept'
<1> SUFFICES ASSUME round'.active, ~disturbed' PROVE RoundKept'
  BY DEF RoundKept
<1> DEFINE rest == InRange(Pingable, At)
<1>1. ~RoundIsOver
  BY DEF RoundIsOver, NoRound
<1>2. PICK c : /\ c = Lowest(rest) /\ rest # {} /\ round.active
               /\ ping' = [pending |-> port, timer |-> ping.timer \/ port]
               /\ round' = [round EXCEPT !.index = IF port THEN c - 1 ELSE c]
               /\ later' = IF port THEN later ELSE Append(later, Post("next", c))
               /\ asked' = [asked EXCEPT ![c] = @ + 1]
               /\ UNCHANGED <<disturbed, refused>>
  BY <1>1, Zenon DEF PingAllNext
<1>3. UNCHANGED <<syncing, listed>>
  BY DEF PingAllNext, session
<1>4. /\ At \in Nat /\ listed = NContacts /\ round.total = Cardinality(Pingable)
      /\ AskedUpTo(asked, At) /\ round.responded <= Cardinality(Behind(At))
      /\ NoNext(mail') /\ NoNext(later) /\ ~syncing
  BY <1>2, NextFacts DEF RoundKept
<1> HIDE DEF rest
<1>5. /\ c \in Pingable /\ c \in Nat \ {0} /\ At < c
      /\ \A d \in Pingable : d <= c <=> d <= At \/ d = c
      /\ Cardinality(Behind(c)) = Cardinality(Behind(At)) + 1
  BY <1>2, <1>4, BehindNext DEF rest
<1>6. asked \in [Contacts -> Nat] /\ Pingable \subseteq Contacts /\ port \in BOOLEAN /\ later \in Seq(Laters)
      /\ round \in [active : BOOLEAN, index : Nat, total : Nat, responded : Nat]
  BY KindsAssumption DEF Typed, HistoryOK, LinkOK, PostsOK, PingsOK
<1>7. AskedUpTo(asked', c)
  <2> SUFFICES ASSUME NEW d \in Pingable PROVE asked'[d] = IF d <= c THEN 1 ELSE 0
    BY DEF AskedUpTo
  <2>1. asked[d] = IF d <= At THEN 1 ELSE 0
    BY <1>4 DEF AskedUpTo
  <2>2. CASE d = c
    <3>1. ~ (d <= At) /\ d <= c
      BY <1>4, <1>5, <2>2
    <3> QED
      BY <1>2, <1>6, <2>1, <2>2, <3>1
  <2>3. CASE d # c
    <3>1. asked'[d] = asked[d]
      BY <1>2, <1>6, <2>3
    <3> QED
      BY <1>5, <2>1, <2>3, <3>1
  <2> QED
    BY <2>2, <2>3
<1>8. round.responded + 1 <= Cardinality(Behind(c)) /\ round.responded <= Cardinality(Behind(c))
  <2>1. Cardinality(Behind(At)) \in Nat /\ round.responded \in Nat
    BY <1>4, <1>6, BehindFacts
  <2> QED
    BY <1>4, <1>5, <2>1
<1>9. round'.total = round.total /\ round'.responded = round.responded
  BY <1>2, <1>6
<1>10. CASE port
  <2>1. round'.index + 1 = c
    <3>1. round'.index = c - 1
      BY <1>2, <1>6, <1>10
    <3> QED
      BY <1>5, <3>1
  <2>2. ping'.pending /\ later' = later
    BY <1>2, <1>10
  <2> QED
    BY <1>3, <1>4, <1>7, <1>8, <1>9, <2>1, <2>2 DEF RoundKept
<1>11. CASE ~port
  <2>1. ~ping'.pending /\ later' = Append(later, Post("next", c))
    BY <1>2, <1>11
  <2>2. OneNext(later', c)
    <3>1. PICK e \in Laters : e = Post("next", c) /\ e.what = "next" /\ e.at = c
      BY <1>5, PostFacts DEF Posts
    <3> QED
      BY <1>4, <1>6, <2>1, <3>1, NextAppend
  <2>3. Waits(mail', later', c)
    BY <1>4, <2>2 DEF Waits
  <2> QED
    BY <1>3, <1>4, <1>5, <1>7, <1>8, <1>9, <2>1, <2>3 DEF RoundKept
<1> QED
  BY <1>6, <1>10, <1>11

LEMMA RoundBegins ==
  ASSUME Typed, ListKept, PingAll
  PROVE  RoundKept'
<1> SUFFICES ASSUME ~disturbed' PROVE RoundKept'
  BY DEF RoundKept
<1>1. /\ ~ping.pending /\ ~syncing /\ ~Posted("next")
      /\ ~ \E i \in 1 .. Len(later) : later[i].what = "next"
  BY DEF PingAll
<1>2. NoNext(mail) /\ NoNext(later)
  BY <1>1 DEF Posted, NoNext
<1>3. Pingable \cap 1 .. listed # {} /\ listed \in 0 .. NContacts
  BY DEF PingAll, Typed, LinkOK
<1>4. listed = NContacts
  <2>1. listed # 0
    BY <1>3
  <2> QED
    BY <1>1, <2>1 DEF ListKept
<1>5. Pingable \cap 1 .. listed = Pingable
  BY <1>4, KindsAssumption DEF Contacts
<1>6. round'.total = Cardinality(Pingable) /\ round'.responded = 0
  BY <1>5 DEF PingAll
<1>7. UNCHANGED <<syncing, listed, later, ping>> /\ mail' = Append(mail, Post("next", 0)) /\ asked' = NoneAsked
  BY DEF PingAll, session
<1>8. OneNext(mail', 0)
  <2>1. mail \in Seq(Mails)
    BY DEF Typed, PostsOK
  <2>2. PICK e \in Mails : e = Post("next", 0) /\ e.what = "next" /\ e.at = 0
    BY PostFacts DEF Posts
  <2> QED
    BY <1>2, <1>7, <2>1, <2>2, NextAppend
<1>9. Waits(mail', later', 0)
  BY <1>2, <1>7, <1>8 DEF Waits
<1>10. AskedUpTo(asked', 0)
  <2>1. \A c \in Pingable : c \in Contacts /\ ~ (c <= 0)
    <3>1. \A c \in Nat \ {0} : ~ (c <= 0)
      OBVIOUS
    <3> QED
      BY <3>1, BehindFacts, KindsAssumption
  <2> QED
    BY <1>7, <2>1 DEF AskedUpTo, NoneAsked
<1>11. 0 <= Cardinality(Behind(0)) /\ 0 \in Nat
  BY BehindFacts
<1> QED
  BY <1>1, <1>4, <1>6, <1>7, <1>9, <1>10, <1>11 DEF RoundKept

LEMMA RoundTakes ==
  ASSUME Typed, NEW what, what # "next", Handles(what)
  PROVE  (NoNext(mail) => NoNext(mail')) /\ \A a : OneNext(mail, a) => OneNext(mail', a)
<1>1. mail \in Seq(Mails) /\ mail # <<>> /\ mail' = Tail(mail) /\ Head(mail).what # "next"
  BY DEF Typed, PostsOK, Handles
<1> QED
  BY <1>1, NextTail

LEMMA RoundPosts ==
  ASSUME Typed, NEW what \in Posts \ {"next"}, NEW n \in Nat
  PROVE  /\ mail' = Append(mail, Post(what, n)) =>
              (NoNext(mail) => NoNext(mail')) /\ \A a : OneNext(mail, a) => OneNext(mail', a)
         /\ what = "trace_next" /\ later' = Append(later, Post(what, n)) =>
              (NoNext(later) => NoNext(later')) /\ \A a : OneNext(later, a) => OneNext(later', a)
<1>1. mail \in Seq(Mails) /\ later \in Seq(Laters)
  BY DEF Typed, PostsOK
<1>2. PICK e : e = Post(what, n) /\ e \in Mails /\ e.what # "next" /\ (what = "trace_next" => e \in Laters)
  BY PostFacts
<1> QED
  BY <1>1, <1>2, NextAppend

LEMMA RoundFires ==
  ASSUME Typed, RoundKept, LaterFires
  PROVE  RoundKept'
<1> SUFFICES ASSUME round'.active, ~disturbed' PROVE RoundKept'
  BY DEF RoundKept
<1>1. /\ later # <<>> /\ mail' = Append(mail, Head(later)) /\ later' = Tail(later)
      /\ UNCHANGED <<syncing, listed, round, asked, disturbed, ping>>
  BY DEF LaterFires, session, history
<1>2. mail \in Seq(Mails) /\ later \in Seq(Laters)
  BY DEF Typed, PostsOK
<1>3. PICK e \in Laters : e = Head(later)
  BY <1>1, <1>2, TailFacts
<1>4. e \in Mails
  BY <1>3 DEF Laters, Mails, Posts
<1>5. CASE e.what # "next"
  BY <1>1, <1>2, <1>3, <1>4, <1>5, NextAppend, NextTail, RoundQuiet
<1>6. CASE e.what = "next"
  <2>1. ~NoNext(later)
    BY <1>1, <1>2, <1>3, <1>6, NextTail
  <2>2. round.active /\ ~disturbed
    BY <1>1
  <2>3. PICK a \in Nat : /\ NoNext(mail) /\ OneNext(later, a) /\ AskedUpTo(asked, a)
                         /\ round.responded <= Cardinality(Behind(a))
    BY <2>1, <2>2 DEF RoundKept, Waits
  <2>4. e.at = a /\ NoNext(later')
    BY <1>1, <1>2, <1>3, <1>6, <2>3, NextTail
  <2>5. OneNext(mail', a)
    BY <1>1, <1>2, <1>3, <1>4, <1>6, <2>3, <2>4, NextAppend
  <2>6. Waits(mail', later', a)
    BY <2>4, <2>5 DEF Waits
  <2>7. /\ ~syncing /\ listed = NContacts /\ round.total = Cardinality(Pingable) /\ ~ping.pending
    BY <2>1, <2>2 DEF RoundKept
  <2> QED
    BY <1>1, <2>3, <2>6, <2>7 DEF RoundKept
<1> QED
  BY <1>5, <1>6

(* Every step keeps what an undisturbed round has behind it.               *)
LEMMA RoundStep ==
  ASSUME Typed, ListKept, RoundKept, Next
  PROVE  RoundKept'
<1>1. CASE \/ OnConnected \/ DiscoveryWaits \/ HideMap \/ ShowMap \/ RefreshMap \/ PortUp \/ PortDown
           \/ \E c \in Contacts : TraceContact(c) \/ Loses(c)
  <2>1. UNCHANGED <<syncing, listed, round, asked, disturbed, ping, mail, later>>
    BY <1>1 DEF OnConnected, DiscoveryWaits, HideMap, ShowMap, RefreshMap, PortUp, PortDown,
         TraceContact, Loses, session, history
  <2> QED
    BY <2>1, RoundQuiet
<1>2. CASE OnDisconnected
  <2>1. ~round'.active
    BY <1>2 DEF OnDisconnected, RoundIsOver, NoRound
  <2> QED
    BY <2>1 DEF RoundKept
<1>3. CASE ContactsStart \/ \E c \in Contacts : ContactPing(c)
  <2>1. disturbed' = round.active /\ round' = round
    BY <1>3 DEF ContactsStart, ContactPing
  <2> QED
    BY <2>1 DEF RoundKept
<1>4. CASE ContactFrame
  <2>1. syncing /\ UNCHANGED <<round, disturbed>>
    BY <1>4 DEF ContactFrame, history
  <2> QED
    BY <2>1 DEF RoundKept
<1>5. CASE TracePath \/ AutoTraceTick
  <2>1. UNCHANGED <<syncing, listed, round, asked, disturbed, ping, later>>
    BY <1>5 DEF TracePath, AutoTraceTick, session, history
  <2>2. Handles("trace") \/ Handles("tick")
    BY <1>5 DEF TracePath, AutoTraceTick
  <2>3. (NoNext(mail) => NoNext(mail')) /\ \A a : OneNext(mail, a) => OneNext(mail', a)
    BY <2>2, RoundTakes
  <2> QED
    BY <2>1, <2>3, RoundQuiet
<1>6. CASE TraceAllNext
  <2> DEFINE c == Lowest(InRange(Routed, At))
  <2>1. UNCHANGED <<syncing, listed, round, asked, disturbed, ping>> /\ Handles("trace_next")
    BY <1>6 DEF TraceAllNext, session, history
  <2>2. (NoNext(mail) => NoNext(mail')) /\ \A a : OneNext(mail, a) => OneNext(mail', a)
    BY <2>1, RoundTakes
  <2>3. At \in Nat
    BY <2>1, TakenTyped DEF Typed, PostsOK
  <2>4. InRange(Routed, At) # {} => c \in Nat
    BY <2>3, NextOfKind, KindsAssumption DEF Typed, LinkOK
  <2>5. later' = later \/ (c \in Nat /\ later' = Append(later, Post("trace_next", c)))
    BY <1>6, <2>4 DEF TraceAllNext
  <2> HIDE DEF c
  <2>6. (NoNext(later) => NoNext(later')) /\ \A a : OneNext(later, a) => OneNext(later', a)
    BY <2>5, RoundPosts DEF Posts
  <2> QED
    BY <2>1, <2>2, <2>6, RoundQuiet
<1>7. CASE \/ TraceAll \/ AutoTimerFires \/ DiscoveryAsks \/ PingTimerFires
           \/ \E recent \in SUBSET Contacts : Discover(recent)
  <2>1. UNCHANGED <<syncing, listed, round, asked, disturbed, later>>
    BY <1>7 DEF TraceAll, AutoTimerFires, DiscoveryAsks, PingTimerFires, Discover, session, history
  <2>2. ping'.pending = ping.pending
    BY <1>7 DEF TraceAll, AutoTimerFires, DiscoveryAsks, PingTimerFires, Discover, Typed, PingsOK
  <2>3. \E what \in Posts \ {"next"}, n \in Nat : mail' = Append(mail, Post(what, n))
    <3>1. CASE TraceAll \/ AutoTimerFires \/ PingTimerFires
      BY <3>1 DEF TraceAll, AutoTimerFires, PingTimerFires, Posts
    <3>2. ASSUME NEW recent \in SUBSET Contacts, Discover(recent)
          PROVE  \E n \in Nat : mail' = Append(mail, Post("trace", n))
      <4>1. recent # {} /\ recent \in SUBSET Nat
        BY <3>2, NContactsAssumption DEF Discover, Contacts
      <4>2. Lowest(recent) \in Nat
        BY <4>1, LowestInSet
      <4> QED
        BY <3>2, <4>2 DEF Discover
    <3>3. CASE DiscoveryAsks
      <4>1. map \in Maps /\ map.queue # <<>>
        BY <3>3 DEF DiscoveryAsks, Typed, MapOK
      <4>2. map.queue \in Seq(Nodes)
        BY <4>1 DEF Maps
      <4>3. Head(map.queue) \in Nodes
        BY <4>1, <4>2, TailFacts
      <4>4. \A c \in Contacts \cup {Nobody} : c \in Nat
        BY NContactsAssumption DEF Contacts, Nobody
      <4>5. PICK c \in IF Head(map.queue).alive THEN {Head(map.queue).who} ELSE Contacts \cup {Nobody} :
              mail' = Append(mail, Post("trace", c))
        BY <3>3 DEF DiscoveryAsks
      <4>6. c \in Nat
        BY <4>3, <4>4, <4>5 DEF Nodes
      <4> QED
        BY <4>5, <4>6 DEF Posts
    <3> QED
      BY <1>7, <3>1, <3>2, <3>3 DEF Posts
  <2>4. (NoNext(mail) => NoNext(mail')) /\ \A a : OneNext(mail, a) => OneNext(mail', a)
    BY <2>3, RoundPosts
  <2> QED
    BY <2>1, <2>2, <2>4, RoundQuiet
<1>8. CASE PingTimeout
  <2>1. ping' = NoPing /\ Handles("timeout") /\ UNCHANGED <<syncing, listed, asked, disturbed>>
    BY <1>8 DEF PingTimeout, session, history
  <2>2. (NoNext(mail) => NoNext(mail')) /\ \A a : OneNext(mail, a) => OneNext(mail', a)
    BY <2>1, RoundTakes
  <2>3. ping'.pending = FALSE
    BY <2>1 DEF NoPing
  <2>4. CASE ping.pending
    BY <1>8, <2>1, <2>2, <2>3, <2>4, RoundAdvances DEF PingTimeout
  <2>5. CASE ~ping.pending
    <3>1. UNCHANGED <<round, later>> /\ ping'.pending = ping.pending
      BY <1>8, <2>3, <2>5 DEF PingTimeout, Typed, PingsOK
    <3> QED
      BY <2>1, <2>2, <3>1, RoundQuiet
  <2> QED
    BY <2>4, <2>5
<1>9. ASSUME NEW c \in Contacts, TraceData(c) PROVE RoundKept'
  <2>1. UNCHANGED <<syncing, listed, asked, disturbed, mail>>
    BY <1>9 DEF TraceData, session, history
  <2>2. CASE ping.pending
    <3>1. Advances(1) /\ ping'.pending = FALSE
      BY <1>9, <2>2 DEF TraceData, NoPing
    <3> QED
      BY <2>1, <2>2, <3>1, RoundAdvances
  <2>3. CASE ~ping.pending
    <3>1. UNCHANGED <<round, later, ping>>
      BY <1>9, <2>3 DEF TraceData
    <3> QED
      BY <2>1, <3>1, RoundQuiet
  <2> QED
    BY <2>2, <2>3
<1> QED
  BY <1>1, <1>2, <1>3, <1>4, <1>5, <1>6, <1>7, <1>8, <1>9, RoundFires, RoundBegins, RoundAsks
     DEF Next, Window, Notices, Mail, Runners, User, Background, Radio

LEMMA ListStep ==
  ASSUME Typed, ListKept, Next
  PROVE  ListKept'
<1>1. CASE OnDisconnected \/ ContactsStart
  BY <1>1 DEF OnDisconnected, ContactsStart, ListKept
<1>2. CASE ContactFrame
  <2>1. syncing /\ listed' = listed + 1 /\ (syncing' = (listed' < NContacts))
    BY <1>2 DEF ContactFrame
  <2>2. listed \in 0 .. NContacts /\ listed < NContacts
    BY <2>1 DEF Typed, LinkOK, SyncHasMore
  <2>3. listed' < NContacts \/ listed' = NContacts
    BY <2>1, <2>2, NContactsAssumption
  <2> QED
    BY <2>1, <2>3 DEF ListKept
<1>3. CASE UNCHANGED <<listed, syncing>>
  BY <1>3 DEF ListKept
<1>4. \/ OnDisconnected \/ ContactsStart \/ ContactFrame \/ UNCHANGED <<listed, syncing>>
  BY Zenon DEF Next, Window, Notices, Mail, Runners, User, Background, Radio, session,
     OnConnected, PingTimeout, PingAllNext, TraceAllNext, TracePath, AutoTraceTick,
     PingTimerFires, LaterFires, DiscoveryAsks, DiscoveryWaits, ContactPing, PingAll, TraceAll,
     ShowMap, HideMap, Discover, AutoTimerFires, RefreshMap, TraceContact, PortUp, PortDown,
     TraceData, Loses
<1> QED
  BY <1>1, <1>2, <1>3, <1>4

(* Only its own handler ends a round while the link lasts, when no contact  *)
(* is left past those that were asked.                                     *)
LEMMA RoundEndsRight ==
  ASSUME Typed, RoundKept, Next, round.active, ~round'.active, connected', ~disturbed
  PROVE  (\A c \in Pingable : asked[c] = 1) /\ round.responded <= round.total
<1>1. PingAllNext \/ OnDisconnected
  <2>1. \A n : Advances(n) => round'.active
    <3>1. round \in [active : BOOLEAN, index : Nat, total : Nat, responded : Nat]
      BY DEF Typed, PingsOK
    <3> QED
      BY <3>1 DEF Advances
  <2>2. ~(round' = round)
    OBVIOUS
  <2>3. ~PingAll
    BY DEF PingAll
  <2>4. ~PingTimeout /\ \A c : ~TraceData(c)
    BY <2>1, <2>2 DEF PingTimeout, TraceData
  <2> QED
    BY <2>2, <2>3, <2>4, Zenon DEF Next, Window, Notices, Mail, Runners, User, Background, Radio,
       OnConnected, TraceAllNext, TracePath, AutoTraceTick,
       PingTimerFires, LaterFires, DiscoveryAsks, DiscoveryWaits, ContactPing, TraceAll,
       ShowMap, HideMap, Discover, AutoTimerFires, RefreshMap, TraceContact, PortUp, PortDown,
       ContactsStart, ContactFrame, Loses
<1>2. PingAllNext /\ connected
  BY <1>1 DEF OnDisconnected, PingAllNext, session
<1>3. /\ At \in Nat /\ listed = NContacts /\ round.total = Cardinality(Pingable)
      /\ AskedUpTo(asked, At) /\ round.responded <= Cardinality(Behind(At))
  BY <1>2, NextFacts
<1>4. InRange(Pingable, At) = {}
  <2>1. ASSUME round' = [round EXCEPT !.index = IF port THEN Lowest(InRange(Pingable, At)) - 1
                                                        ELSE Lowest(InRange(Pingable, At))]
        PROVE  FALSE
    BY <2>1 DEF Typed, PingsOK
  <2> QED
    BY <1>2, <2>1 DEF PingAllNext
<1>5. \A c \in Pingable : c <= At
  <2>1. \A c \in Pingable : c \in Nat /\ c <= listed
    BY <1>3, KindsAssumption, NContactsAssumption DEF Contacts
  <2> QED
    BY <1>3, <1>4, <2>1 DEF InRange
<1>6. Cardinality(Behind(At)) <= Cardinality(Pingable)
  BY <1>3, BehindFacts
<1>7. Cardinality(Behind(At)) \in Nat /\ Cardinality(Pingable) \in Nat /\ round.responded \in Nat
  BY <1>3, BehindFacts, FS_CardinalityType DEF Typed, PingsOK
<1> QED
  BY <1>3, <1>5, <1>6, <1>7 DEF AskedUpTo

-----------------------------------------------------------------------------
(* The theorems.                                                           *)

IInv == Typed /\ Driven /\ QueueKept /\ ListKept /\ RoundKept

LEMMA InitHolds == Init => IInv
<1> SUFFICES ASSUME Init PROVE IInv
  OBVIOUS
<1> USE NContactsAssumption, BoundsAssumption DEF Init
<1>1. LinkOK /\ BoundsOK /\ PingsOK /\ AirOK /\ HistoryOK
  <2> HIDE DEF Init
  <2>0. 0 \in 0 .. NContacts /\ 0 \in 0 .. MaxAir /\ 0 \in Nat
    BY NContactsAssumption, BoundsAssumption
  <2>1. LinkOK
    BY <2>0, Zenon DEF Init, LinkOK, SyncHasMore
  <2>2. BoundsOK
    BY DEF Init, BoundsOK
  <2>3. PingsOK
    BY DEF Init, PingsOK, NoPing, NoRound
  <2>4. AirOK /\ HistoryOK
    BY <2>0, Zenon DEF Init, AirOK, HistoryOK, NoneAsked, Contacts
  <2> QED
    BY <2>1, <2>2, <2>3, <2>4
<1>2. PostsOK
  BY DEF PostsOK
<1>3. PICK made \in BOOLEAN :
        map = [made |-> made, nodes |-> 0, discovering |-> FALSE, waited |-> 0, queue |-> <<>>]
  OBVIOUS
<1>4. MapOK
  <2>1. <<>> \in Seq(Nodes) /\ 0 \in 0 .. NContacts /\ 0 \in 0 .. 3
    OBVIOUS
  <2> QED
    BY <1>3, <2>1, Zenon DEF MapOK, Maps
<1>5. Driven
  BY DEF Driven, NoPing, NoRound
<1>6. QueueKept
  BY <1>3 DEF QueueKept, Kept
<1>7. ListKept /\ RoundKept
  BY DEF ListKept, RoundKept, NoRound
<1> QED
  BY <1>1, <1>2, <1>4, <1>5, <1>6, <1>7 DEF IInv, Typed

LEMMA StutterHolds ==
  ASSUME IInv, UNCHANGED vars
  PROVE  IInv'
  BY DEF IInv, Typed, Driven, QueueKept, Kept, ListKept, RoundKept, Holds, LinkOK, SyncHasMore, BoundsOK, PostsOK, PingsOK,
       MapOK, AirOK, HistoryOK, vars, session, bounds, history

(* The parts hold together from the start and through every step of the  *)
(* window, its runners, the user, the mesh and the link.                   *)
THEOREM Invariance == Spec => []IInv
<1>1. IInv /\ [Next]_vars => IInv'
  BY TypeStep, DrivenStep, QueueStep, ListStep, RoundStep, StutterHolds DEF IInv
<1> QED
  BY InitHolds, <1>1, PTL DEF Spec

(* Every variable keeps to its type, however many contacts there are and   *)
(* however long answers, ticks and timeouts are on their way.              *)
THEOREM TypeCorrect == Spec => []TypeOK
<1>1. IInv => TypeOK
  BY TypedMeans DEF IInv
<1> QED
  BY Invariance, <1>1, PTL

(* No pending ping and no round of pings is left with nothing that goes on *)
(* with it, whichever timer was deleted and whoever's answer was taken for *)
(* the ping's (MainWindow.cpp, MSG_PING_TIMEOUT, _HandlePushTraceData).    *)
THEOREM PingsAreDriven == Spec => []PingsDriven
<1>1. IInv => PingsDriven
  BY DrivenMeans DEF IInv
<1> QED
  BY Invariance, <1>1, PTL

(* A discovery of the map window never has a deleted node in its queue,    *)
(* unless the list was emptied since it began (NetworkMapWindow.cpp,       *)
(* SetNodes, _DiscoveryTick).                                              *)
THEOREM QueueStaysAlive == Spec => []QueueAlive
<1>1. IInv => QueueAlive
  BY DEF IInv, QueueKept, Kept, QueueAlive
<1> QED
  BY Invariance, <1>1, PTL

(* A round that no click, second sync or earlier round moved has asked     *)
(* every contact once when it sums up, and counts no more answers than it  *)
(* announced, in spite of stale timeouts and of answers to others          *)
(* (MainWindow.cpp, MSG_PING_ALL_NEXT, _HandlePushTraceData).              *)
THEOREM RoundsAskEach == Spec => RoundAsksEach
<1>1. IInv /\ [Next]_vars
        => [ round.active /\ ~round'.active /\ connected' /\ ~disturbed =>
               /\ \A c \in Pingable : asked[c] = 1
               /\ round.responded <= round.total ]_vars
  BY RoundEndsRight DEF IInv
<1> QED
  BY Invariance, <1>1, PTL DEF Spec, RoundAsksEach

=============================================================================
