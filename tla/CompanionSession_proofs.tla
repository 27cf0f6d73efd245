----------------------- MODULE CompanionSession_proofs -----------------------
(***************************************************************************)
(* What holds of CompanionSession for every set of companions, every       *)
(* number of messages and every bound: its types, and that no message is   *)
(* shown twice; and, when the link goes down between frames only, that     *)
(* companions do not mix and that no sync loses a history.                 *)
(***************************************************************************)
EXTENDS CompanionSession, FiniteSetTheorems, SequenceTheorems, WellFoundedInduction, TLAPS

-----------------------------------------------------------------------------
(* The inductive invariant, however the link goes down.                    *)

(* What a frame says of its radio is so.                                   *)
ItemOK(x, h) ==
  /\ x.what = "self_info" => x.who \in Companions
  /\ x.what = "contact" => x.who \in Contacts
  /\ x.what = "msg" => x.who \in Msgs /\ h[x.who].radio # Nobody
QueueInv == \A i \in DOMAIN queue : ItemOK(queue[i], home)

(* A message has a writer whom its radio knows, and waits at its radio.    *)
HomeInv ==
  /\ \A m \in Msgs : home[m].radio # Nobody => home[m].by \in Knows[home[m].radio]
  /\ \A c \in Companions : \A i \in DOMAIN inbox[c] : home[inbox[c][i]].radio = c

Types == TypeOK /\ QueueInv /\ HomeInv

(* A message is in one place: kept by its radio, on its way or saved.      *)
Saved(d, m) == \E row \in d : row[3] = m
OnItsWay(q, i) == i \in DOMAIN q /\ q[i].what = "msg"
OnceInv ==
  /\ \A i, j \in DOMAIN queue :
       OnItsWay(queue, i) /\ OnItsWay(queue, j) /\ queue[i].who = queue[j].who => i = j
  /\ \A c \in Companions : \A i, j \in DOMAIN inbox[c] : inbox[c][i] = inbox[c][j] => i = j
  /\ \A c \in Companions : \A i \in DOMAIN inbox[c] :
       /\ ~Saved(db, inbox[c][i])
       /\ \A j \in DOMAIN queue : OnItsWay(queue, j) => queue[j].who # inbox[c][i]
  /\ \A i \in DOMAIN queue : OnItsWay(queue, i) => ~Saved(db, queue[i].who)
  /\ \A m \in Msgs : home[m].radio = Nobody => ~Saved(db, m)

(* What is shown is saved, and no history holds a message twice.           *)
Once(h) == \A j, k \in DOMAIN h : h[j] = h[k] => j = k
HistsOK(s, d) == \A i \in DOMAIN s : Once(s[i].hist) /\ \A j \in DOMAIN s[i].hist : Saved(d, s[i].hist[j])
ShownInv == HistsOK(list, db) /\ HistsOK(old, db)

IInv == Types /\ OnceInv /\ ShownInv

-----------------------------------------------------------------------------
(* The inductive invariant, when the link goes down between frames only.   *)

BetweenFrames == "late" \notin Hazards

(* Frames are of the radio at the other end; what is known of a companion  *)
(* is of this one, or the end of its connection is still to be handled.    *)
Fits(x, l, h) ==
  IF l = Nobody THEN x.what \notin Frames
  ELSE /\ x.what # "disconnected"
       /\ x.what = "self_info" => x.who = l
       /\ x.what = "contact" => x.who \in Knows[l]
       /\ x.what = "msg" => h[x.who].radio = l
FramesFit == \A i \in DOMAIN queue : Fits(queue[i], link, home)

Whose(s) == {s[i].who : i \in DOMAIN s}
Forgotten == key = Nobody /\ list = <<>> /\ old = <<>>
Ending == \E i \in DOMAIN queue : queue[i].what = "disconnected"
LinkInv ==
  /\ FramesFit
  /\ link = Nobody => (Forgotten \/ Ending) /\ ~listing
  /\ link # Nobody => /\ key \in {Nobody, link}
                      /\ Whose(list) \subseteq Knows[link] /\ Whose(old) \subseteq Knows[link]
                      /\ dump \subseteq Knows[link]
  /\ ~listing => dump = {}

(* Frames are handled in the order the radio sent them: those that passed  *)
(* the queue once before those that did not.                               *)
Before(q, i, j) == q[i].hop > q[j].hop \/ (q[i].hop = q[j].hop /\ i < j)

Listing == {"start", "contact", "end"}
Lists(q) == {i \in DOMAIN q : q[i].what \in Listing}
Starts(q) == {i \in DOMAIN q : q[i].what = "start"}
Lines(q) == {i \in DOMAIN q : q[i].what = "contact"}
Ends(q) == {i \in DOMAIN q : q[i].what = "end"}

(* Between two starts there is an end; between two lines for a contact, or *)
(* an end and a line, there is a start.                                    *)
OrderOK(q) ==
  /\ \A i, j \in Starts(q) : Before(q, i, j) =>
       \E k \in Ends(q) : Before(q, i, k) /\ Before(q, k, j)
  /\ \A i, j \in Lines(q) : Before(q, i, j) /\ q[i].who = q[j].who =>
       \E k \in Starts(q) : Before(q, i, k) /\ Before(q, k, j)
  /\ \A i \in Ends(q), j \in Lines(q) : Before(q, i, j) =>
       \E k \in Starts(q) : Before(q, i, k) /\ Before(q, k, j)

(* No start comes while something is parked; no line for a contact that is *)
(* listed.                                                                 *)
ListOK(q, listed, parked) ==
  /\ parked => \A i \in Starts(q) : \E k \in Ends(q) : Before(q, k, i)
  /\ \A i \in Lines(q) : q[i].who \in listed => \E k \in Starts(q) : Before(q, k, i)

(* What the radio will send fits, too.                                     *)
IdleOK(q, parked) ==
  /\ parked => Ends(q) # {}
  /\ \A i \in Starts(q) : \E k \in Ends(q) : Before(q, i, k)
DumpOK(q, d, listed) ==
  /\ \A c \in d : c \in listed => Starts(q) # {}
  /\ \A c \in d : \A i \in Lines(q) : q[i].who = c => \E k \in Starts(q) : Before(q, i, k)
BusyOK(q) == \A i \in Ends(q) : \E k \in Starts(q) : Before(q, i, k)

SyncInv ==
  /\ OrderOK(queue)
  /\ ListOK(queue, Whose(list), old # <<>>)
  /\ link # Nobody /\ ~raw /\ ~listing => IdleOK(queue, old # <<>>)
  /\ ~raw => DumpOK(queue, dump, Whose(list))
  /\ ~raw /\ listing => BusyOK(queue)

(* A contact is listed or parked, and once.                                *)
Apart(s) == \A i, j \in DOMAIN s : s[i].who = s[j].who => i = j
ListsInv == Apart(list) /\ Apart(old) /\ \A i \in DOMAIN list, j \in DOMAIN old : list[i].who # old[j].who

(* A radio that is up in time says who it is before it hands over a        *)
(* message: the window has yet to hear of the connection, and of it before *)
(* any frame; or the radio is asked for its name before any message; or    *)
(* the name stands in the queue before them.                               *)
UpInTime == "slow_boot" \notin Hazards

Letters(q) == {i \in DOMAIN q : q[i].what = "msg"}
Asked(s) == {k \in DOMAIN s : s[k] = "sync_next"}

NotYetUp(q, s) ==
  /\ Asked(s) = {} /\ Letters(q) = {}
  /\ \E i \in DOMAIN q : /\ q[i].what = "connected"
                         /\ \A j \in DOMAIN q : q[j].what \in Frames => Before(q, i, j)
Asking(q, s) ==
  /\ Letters(q) = {}
  /\ \E k \in DOMAIN s : s[k] = "app_start" /\ \A j \in Asked(s) : k < j
Answering(q) ==
  \E i \in DOMAIN q : q[i].what = "self_info" /\ \A j \in Letters(q) : Before(q, i, j)

NameInv ==
  /\ ~raw /\ \A i \in DOMAIN queue : queue[i].what # "handshake"
  /\ link = Nobody => sent = <<>>
  /\ link # Nobody => ready /\ (key = link \/ NotYetUp(queue, sent) \/ Asking(queue, sent) \/ Answering(queue))

CleanInv ==
  LinkInv /\ SyncInv /\ ListsInv /\ (UpInTime => NameInv) /\ FiledRight /\ HistoriesApart

-----------------------------------------------------------------------------
(* The queue.                                                              *)

Items == [hop : {1, 2}, what : Frames \cup Notices, who : Nat]

(* r is q with its first item gone or moved, P says where from.            *)
Via(q, r, P, gone) ==
  /\ P \in [DOMAIN r -> DOMAIN q]
  /\ \A i \in DOMAIN r : r[i].what = q[P[i]].what /\ r[i].who = q[P[i]].who
  /\ \A i, j \in DOMAIN r : Before(r, i, j) <=> Before(q, P[i], P[j])
  /\ \A i, j \in DOMAIN r : P[i] = P[j] => i = j
  /\ \A i \in DOMAIN r : P[i] \notin gone
  /\ \A k \in DOMAIN q \ gone : \E i \in DOMAIN r : P[i] = k
  /\ \A g \in gone : \A k \in DOMAIN q : ~Before(q, k, g)

(* What a step does to the queue; W is what it may post.                   *)
Turns(q, r) == q # <<>> /\ Head(q).hop = 1 /\ r = Append(Tail(q), [Head(q) EXCEPT !.hop = 2])
Pops(q, r) == q # <<>> /\ Head(q).hop = 2 /\ r = Tail(q)
Gets(q, r, x) == x \in Items /\ r = Append(q, x)

LEMMA ItemAt ==
  ASSUME NEW q \in Seq(Items), NEW i \in 1 .. Len(q)
  PROVE  q[i] \in Items /\ q[i].hop \in {1, 2}
<1>1. q[i] \in Items
  OBVIOUS
<1> QED
  BY <1>1 DEF Items

LEMMA PopsVia ==
  ASSUME NEW q \in Seq(Items), NEW r, Pops(q, r)
  PROVE  r \in Seq(Items) /\ \E P : Via(q, r, P, {1})
<1> DEFINE P == [i \in DOMAIN r |-> i + 1]
<1>1. /\ r \in Seq(Items) /\ Len(r) = Len(q) - 1 /\ Len(q) \in Nat \ {0}
      /\ \A i \in 1 .. Len(r) : r[i] = q[i + 1]
      /\ q[1].hop = 2
  BY DEF Pops
<1>2. \A i \in 1 .. Len(q) : q[i].hop \in {1, 2}
  BY ItemAt
<1>3. DOMAIN r = 1 .. Len(r) /\ DOMAIN q = 1 .. Len(q)
  BY <1>1
<1>4. \A i \in DOMAIN r : P[i] = i + 1 /\ P[i] \in DOMAIN q /\ r[i] = q[P[i]]
  BY <1>1, <1>3
<1>5. P \in [DOMAIN r -> DOMAIN q]
  BY <1>4
<1>6. \A i, j \in DOMAIN r : Before(r, i, j) <=> Before(q, P[i], P[j])
  BY <1>1, <1>3, <1>4 DEF Before
<1>7. \A k \in DOMAIN q \ {1} : k - 1 \in DOMAIN r /\ P[k - 1] = k
  BY <1>1, <1>3
<1>8. \A k \in DOMAIN q : ~Before(q, k, 1)
  BY <1>1, <1>2, <1>3 DEF Before
<1>9. \A i, j \in DOMAIN r : P[i] = P[j] => i = j
  BY <1>3, <1>4
<1>10. \A i \in DOMAIN r : P[i] # 1
  BY <1>1, <1>3, <1>4
<1> HIDE DEF P
<1>11. Via(q, r, P, {1})
  BY <1>4, <1>5, <1>6, <1>7, <1>8, <1>9, <1>10 DEF Via
<1> QED
  BY <1>1, <1>11

LEMMA TurnsVia ==
  ASSUME NEW q \in Seq(Items), NEW r, Turns(q, r)
  PROVE  r \in Seq(Items) /\ \E P : Via(q, r, P, {})
<1> DEFINE n == Len(q)
           x == [Head(q) EXCEPT !.hop = 2]
           P == [i \in DOMAIN r |-> IF i = n THEN 1 ELSE i + 1]
<1>1. Head(q) \in Items /\ Head(q) = q[1] /\ q[1].hop = 1 /\ n \in Nat \ {0}
  BY DEF Turns
<1>2. x \in Items /\ x.hop = 2 /\ x.what = q[1].what /\ x.who = q[1].who
  BY <1>1 DEF Items
<1>3. /\ Tail(q) \in Seq(Items) /\ Len(Tail(q)) = n - 1
      /\ \A i \in 1 .. n - 1 : Tail(q)[i] = q[i + 1]
  BY <1>1
<1>4. r = Append(Tail(q), x)
  BY DEF Turns
<1> HIDE DEF x
<1>5. /\ r \in Seq(Items) /\ Len(r) = n
      /\ \A i \in 1 .. n - 1 : r[i] = q[i + 1]
      /\ r[n] = x
  BY <1>1, <1>2, <1>3, <1>4
<1>6. DOMAIN r = 1 .. n /\ DOMAIN q = 1 .. n
  BY <1>5
<1>7. \A i \in 1 .. n : q[i].hop \in {1, 2}
  BY ItemAt
<1>8. \A i \in 1 .. n : P[i] = IF i = n THEN 1 ELSE i + 1
  BY <1>6
<1>9. P \in [DOMAIN r -> DOMAIN q]
  BY <1>1, <1>6
<1> HIDE DEF P
<1>10. \A i \in DOMAIN r : r[i].what = q[P[i]].what /\ r[i].who = q[P[i]].who
  <2> SUFFICES ASSUME NEW i \in 1 .. n PROVE r[i].what = q[P[i]].what /\ r[i].who = q[P[i]].who
    BY <1>6
  <2>1. CASE i = n
    <3>1. P[i] = 1 /\ r[i] = x
      BY <2>1, <1>5, <1>8
    <3> QED
      BY <3>1, <1>2
  <2>2. CASE i # n
    <3>1. P[i] = i + 1 /\ r[i] = q[i + 1]
      BY <2>2, <1>1, <1>5, <1>8
    <3> QED
      BY <3>1
  <2> QED
    BY <2>1, <2>2
<1>11. \A i, j \in DOMAIN r : Before(r, i, j) <=> Before(q, P[i], P[j])
  <2> SUFFICES ASSUME NEW i \in 1 .. n, NEW j \in 1 .. n
               PROVE  Before(r, i, j) <=> Before(q, P[i], P[j])
    BY <1>6
  <2>1. CASE i = n /\ j = n
    BY <2>1, <1>1, <1>2, <1>5, <1>8 DEF Before
  <2>2. CASE i = n /\ j # n
    <3>1. P[i] = 1 /\ P[j] = j + 1 /\ r[i].hop = 2 /\ q[1].hop = 1 /\ r[j] = q[j + 1]
      BY <2>2, <1>1, <1>2, <1>5, <1>8
    <3>2. q[j + 1].hop \in {1, 2}
      BY <2>2, <1>7
    <3> QED
      BY <3>1, <3>2, <2>2, <1>1 DEF Before
  <2>3. CASE i # n /\ j = n
    <3>1. P[j] = 1 /\ P[i] = i + 1 /\ r[j].hop = 2 /\ q[1].hop = 1 /\ r[i] = q[i + 1]
      BY <2>3, <1>1, <1>2, <1>5, <1>8
    <3>2. q[i + 1].hop \in {1, 2}
      BY <2>3, <1>7
    <3> QED
      BY <3>1, <3>2, <2>3, <1>1 DEF Before
  <2>4. CASE i # n /\ j # n
    BY <2>4, <1>1, <1>5, <1>8 DEF Before
  <2> QED
    BY <2>1, <2>2, <2>3, <2>4
<1>12. \A k \in DOMAIN q : \E i \in DOMAIN r : P[i] = k
  <2> SUFFICES ASSUME NEW k \in 1 .. n PROVE \E i \in 1 .. n : P[i] = k
    BY <1>6
  <2>1. CASE k = 1
    <3>1. n \in 1 .. n
      BY <1>1
    <3>2. P[n] = IF n = n THEN 1 ELSE n + 1
      BY <3>1, <1>8
    <3> QED
      BY <3>1, <3>2, <2>1
  <2>2. CASE k # 1
    <3>1. k - 1 \in 1 .. n /\ k - 1 # n /\ (k - 1) + 1 = k
      BY <2>2, <1>1
    <3>2. P[k - 1] = (k - 1) + 1
      BY <3>1, <1>8
    <3> QED
      BY <3>1, <3>2
  <2> QED
    BY <2>1, <2>2
<1>13. \A i, j \in DOMAIN r : P[i] = P[j] => i = j
  <2> SUFFICES ASSUME NEW i \in 1 .. n, NEW j \in 1 .. n, P[i] = P[j] PROVE i = j
    BY <1>6
  <2>1. P[i] = (IF i = n THEN 1 ELSE i + 1) /\ P[j] = (IF j = n THEN 1 ELSE j + 1)
    BY <1>8
  <2>2. i \in Int /\ j \in Int /\ n \in Int /\ i >= 1 /\ j >= 1 /\ i + 1 # 1 /\ j + 1 # 1
    BY <1>1
  <2>3. (IF i = n THEN 1 ELSE i + 1) = (IF j = n THEN 1 ELSE j + 1)
    BY <2>1
  <2> QED
    BY <2>2, <2>3
<1>14. Via(q, r, P, {})
  BY <1>9, <1>10, <1>11, <1>12, <1>13 DEF Via
<1> QED
  BY <1>5, <1>14

LEMMA GetsFacts ==
  ASSUME NEW q \in Seq(Items), NEW r, NEW x, Gets(q, r, x)
  PROVE  /\ r \in Seq(Items) /\ Len(q) \in Nat
         /\ DOMAIN r = DOMAIN q \cup {Len(q) + 1} /\ Len(q) + 1 \notin DOMAIN q
         /\ r[Len(q) + 1] = x
         /\ \A i \in DOMAIN q : r[i] = q[i]
         /\ \A i, j \in DOMAIN q : Before(r, i, j) <=> Before(q, i, j)
         /\ x.hop = 1 => \A i \in DOMAIN q : Before(r, i, Len(q) + 1) /\ ~Before(r, Len(q) + 1, i)
<1>1. /\ r \in Seq(Items) /\ Len(r) = Len(q) + 1 /\ Len(q) \in Nat
      /\ r[Len(q) + 1] = x
      /\ \A i \in 1 .. Len(q) : r[i] = q[i]
  BY DEF Gets
<1>2. DOMAIN r = 1 .. Len(q) + 1 /\ DOMAIN q = 1 .. Len(q)
  BY <1>1
<1>3. DOMAIN r = DOMAIN q \cup {Len(q) + 1} /\ Len(q) + 1 \notin DOMAIN q
  BY <1>1, <1>2
<1>4. \A i, j \in DOMAIN q : Before(r, i, j) <=> Before(q, i, j)
  BY <1>1, <1>2 DEF Before
<1>5. \A i \in DOMAIN q : q[i].hop \in {1, 2}
  BY <1>2, ItemAt
<1>6. x.hop = 1 => \A i \in DOMAIN q : Before(r, i, Len(q) + 1) /\ ~Before(r, Len(q) + 1, i)
  BY <1>1, <1>2, <1>5 DEF Before
<1> QED
  BY <1>1, <1>2, <1>3, <1>4, <1>6
-----------------------------------------------------------------------------
(* What the orders of a queue's frames survive.                            *)

(* A step that takes no start, line or end, and posts none.                *)
Spares(q, r) ==
  \/ q = r
  \/ Turns(q, r)
  \/ Pops(q, r) /\ q[1].what \notin Listing
  \/ \E x : Gets(q, r, x) /\ x.what \notin Listing

(* The listing frames of r are those of q, in the same order.              *)
SameOrder(q, r, P) ==
  /\ P \in [Lists(r) -> Lists(q)]
  /\ \A i \in Lists(r) : r[i].what = q[P[i]].what /\ r[i].who = q[P[i]].who
  /\ \A i, j \in Lists(r) : Before(r, i, j) <=> Before(q, P[i], P[j])
  /\ \A k \in Lists(q) : \E i \in Lists(r) : P[i] = k

LEMMA SparesOrder ==
  ASSUME NEW q \in Seq(Items), NEW r, Spares(q, r)
  PROVE  \E P : SameOrder(q, r, P)
<1>1. CASE q = r
  <2> DEFINE P == [i \in Lists(r) |-> i]
  <2>1. SameOrder(q, r, P)
    BY <1>1 DEF SameOrder
  <2> QED
    BY <2>1
<1>2. ASSUME NEW P, NEW gone, Via(q, r, P, gone), \A k \in Lists(q) : k \notin gone
      PROVE  \E Q : SameOrder(q, r, Q)
  <2> DEFINE Q == [i \in Lists(r) |-> P[i]]
  <2>1. \A i \in Lists(r) : i \in DOMAIN r /\ Q[i] = P[i] /\ P[i] \in Lists(q)
    BY <1>2 DEF Via, Lists
  <2>2. \A k \in Lists(q) : \E i \in Lists(r) : Q[i] = k
    <3> SUFFICES ASSUME NEW k \in Lists(q) PROVE \E i \in Lists(r) : Q[i] = k
      OBVIOUS
    <3>1. PICK i \in DOMAIN r : P[i] = k
      BY <1>2 DEF Via, Lists
    <3>2. i \in Lists(r)
      BY <3>1, <1>2 DEF Via, Lists
    <3> QED
      BY <3>1, <3>2, <2>1
  <2>3. Q \in [Lists(r) -> Lists(q)]
    BY <2>1
  <2> HIDE DEF Q
  <2>4. SameOrder(q, r, Q)
    BY <2>1, <2>2, <2>3, <1>2 DEF SameOrder, Via
  <2> QED
    BY <2>4
<1>3. CASE Turns(q, r)
  BY <1>2, <1>3, TurnsVia
<1>4. CASE Pops(q, r) /\ q[1].what \notin Listing
  <2>1. PICK P : Via(q, r, P, {1})
    BY <1>4, PopsVia
  <2>2. \A k \in Lists(q) : k \notin {1}
    BY <1>4 DEF Lists
  <2> QED
    BY <1>2, <2>1, <2>2
<1>5. ASSUME NEW x, Gets(q, r, x), x.what \notin Listing
      PROVE  \E P : SameOrder(q, r, P)
  <2>0. /\ DOMAIN r = DOMAIN q \cup {Len(q) + 1} /\ r[Len(q) + 1] = x
        /\ \A i \in DOMAIN q : r[i] = q[i]
        /\ \A i, j \in DOMAIN q : Before(r, i, j) <=> Before(q, i, j)
    BY <1>5, GetsFacts
  <2>1. Lists(r) = Lists(q)
    BY <1>5, <2>0 DEF Lists
  <2>2. \A i \in Lists(q) : i \in DOMAIN q
    BY DEF Lists
  <2> DEFINE P == [i \in Lists(r) |-> i]
  <2>3. P \in [Lists(r) -> Lists(q)] /\ \A i \in Lists(r) : P[i] = i
    BY <2>1
  <2> HIDE DEF P
  <2>4. SameOrder(q, r, P)
    BY <2>0, <2>1, <2>2, <2>3 DEF SameOrder
  <2> QED
    BY <2>4
<1> QED
  BY <1>1, <1>3, <1>4, <1>5 DEF Spares

LEMMA SameStays ==
  ASSUME NEW q, NEW r, NEW P, SameOrder(q, r, P)
  PROVE  /\ OrderOK(q) => OrderOK(r)
         /\ \A l, p : ListOK(q, l, p) => ListOK(r, l, p)
         /\ \A p : IdleOK(q, p) => IdleOK(r, p)
         /\ \A d, l : DumpOK(q, d, l) => DumpOK(r, d, l)
         /\ BusyOK(q) => BusyOK(r)
<1>1. /\ \A i \in Starts(r) : i \in Lists(r) /\ P[i] \in Starts(q)
      /\ \A i \in Ends(r) : i \in Lists(r) /\ P[i] \in Ends(q)
      /\ \A i \in Lines(r) : i \in Lists(r) /\ P[i] \in Lines(q) /\ r[i].who = q[P[i]].who
  BY DEF SameOrder, Starts, Ends, Lines, Lists, Listing
<1>2. /\ \A k \in Starts(q) : \E i \in Starts(r) : P[i] = k
      /\ \A k \in Ends(q) : \E i \in Ends(r) : P[i] = k
  BY DEF SameOrder, Starts, Ends, Lists, Listing
<1>3. \A i, j \in Lists(r) : Before(r, i, j) <=> Before(q, P[i], P[j])
  BY DEF SameOrder
<1>4. OrderOK(q) => OrderOK(r)
  BY <1>1, <1>2, <1>3 DEF OrderOK
<1>5. \A l, p : ListOK(q, l, p) => ListOK(r, l, p)
  BY <1>1, <1>2, <1>3 DEF ListOK
<1>6. \A p : IdleOK(q, p) => IdleOK(r, p)
  BY <1>1, <1>2, <1>3 DEF IdleOK
<1>7. \A d, l : DumpOK(q, d, l) => DumpOK(r, d, l)
  BY <1>1, <1>2, <1>3 DEF DumpOK
<1>8. BusyOK(q) => BusyOK(r)
  BY <1>1, <1>2, <1>3 DEF BusyOK
<1> QED
  BY <1>4, <1>5, <1>6, <1>7, <1>8
-----------------------------------------------------------------------------
(* Rows and histories.                                                     *)

(* A set of numbers that is not empty has a lowest.                        *)
Below == {p \in Nat \X Nat : p[1] < p[2]}

LEMMA LowestExists ==
  ASSUME NEW S \in SUBSET Nat, S # {}
  PROVE  \E x \in S : \A y \in S : x <= y
<1>1. IsWellFoundedOn(Below, Nat)
  BY NatLessThanWellFounded DEF OpToRel, Below
<1>2. PICK x \in S : \A y \in S : ~ (<<y, x>> \in Below)
  BY <1>1, WFMin, Zenon
<1>3. \A y \in S : x <= y
  <2> SUFFICES ASSUME NEW y \in S, ~ (x <= y) PROVE FALSE
    OBVIOUS
  <2>1. <<y, x>> \in Below
    BY <1>2 DEF Below
  <2> QED
    BY <1>2, <2>1, Zenon
<1> QED
  BY <1>2, <1>3

(* A finite set of numbers can be counted in ascending order.              *)
Ascending(S) ==
  \E f \in [1 .. Cardinality(S) -> S] :
    \A i, j \in 1 .. Cardinality(S) : i < j => f[i] < f[j]

LEMMA AscendingAdd ==
  ASSUME NEW m \in Nat \ {0}, NEW S \in SUBSET (1 .. m), m \in S, Ascending(S \ {m})
  PROVE  Ascending(S)
<1> DEFINE T == S \ {m}
           n == Cardinality(T)
<1>1. IsFiniteSet(S)
  <2>1. IsFiniteSet(1 .. m)
    BY FS_Interval
  <2> QED
    BY <2>1, FS_Subset
<1>2. Cardinality(T) = Cardinality(S) - 1 /\ IsFiniteSet(T)
  BY <1>1, FS_RemoveElement
<1> HIDE DEF T
<1>3. n \in Nat /\ Cardinality(S) \in Nat
  BY <1>1, <1>2, FS_CardinalityType
<1>4. Cardinality(S) = n + 1
  <2>1. n = Cardinality(S) - 1
    BY <1>2
  <2> HIDE DEF n
  <2> QED
    BY <2>1, <1>3
<1>5. PICK f \in [1 .. n -> T] : \A i, j \in 1 .. n : i < j => f[i] < f[j]
  BY DEF Ascending, T
<1> HIDE DEF n
<1> DEFINE g == [i \in 1 .. n + 1 |-> IF i = n + 1 THEN m ELSE f[i]]
<1>6. \A i \in 1 .. n : f[i] \in S /\ f[i] \in 1 .. m /\ f[i] # m
  BY <1>5 DEF T
<1>7. \A i \in 1 .. n + 1 : g[i] = IF i = n + 1 THEN m ELSE f[i]
  OBVIOUS
<1>8. \A i \in 1 .. n : g[i] = f[i]
  BY <1>3, <1>7
<1>9. g[n + 1] = m
  BY <1>3, <1>7
<1>10. \A i \in 1 .. n + 1 : i \in 1 .. n \/ i = n + 1
  BY <1>3
<1>11. g \in [1 .. n + 1 -> S]
  BY <1>3, <1>6
<1> HIDE DEF g
<1>12. ASSUME NEW i \in 1 .. n + 1, NEW j \in 1 .. n + 1, i < j
       PROVE  g[i] < g[j]
  <2>1. i \in 1 .. n
    BY <1>3, <1>12
  <2>2. CASE j \in 1 .. n
    BY <2>1, <2>2, <1>5, <1>8, <1>12
  <2>3. CASE j = n + 1
    <3>1. g[i] = f[i] /\ g[j] = m /\ f[i] \in 1 .. m /\ f[i] # m
      BY <2>1, <2>3, <1>6, <1>8, <1>9
    <3> QED
      BY <3>1
  <2> QED
    BY <2>2, <2>3, <1>10
<1> QED
  BY <1>4, <1>11, <1>12 DEF Ascending

LEMMA AscendingExists ==
  ASSUME NEW n \in Nat, NEW S \in SUBSET (1 .. n)
  PROVE  Ascending(S)
<1> DEFINE Bad == {m \in Nat : \E R \in SUBSET (1 .. m) : ~Ascending(R)}
<1> SUFFICES ASSUME Bad # {} PROVE FALSE
  OBVIOUS
<1>1. PICK m \in Bad : \A y \in Bad : m <= y
  <2>1. Bad \in SUBSET Nat
    OBVIOUS
  <2> HIDE DEF Bad
  <2> QED
    BY <2>1, LowestExists
<1>2. m \in Nat
  OBVIOUS
<1>3. PICK R \in SUBSET (1 .. m) : ~Ascending(R)
  OBVIOUS
<1>4. CASE m = 0
  <2>1. R = {}
    BY <1>4
  <2>2. Cardinality(R) = 0
    BY <2>1, FS_EmptySet
  <2>3. [i \in 1 .. 0 |-> 0] \in [1 .. 0 -> R] /\ \A i \in 1 .. 0 : FALSE
    OBVIOUS
  <2>4. 1 .. Cardinality(R) = 1 .. 0
    BY <2>2
  <2>5. Ascending(R)
    BY <2>3, <2>4, Zenon DEF Ascending
  <2> QED
    BY <2>5, <1>3
<1>5. CASE m # 0
  <2>1. m - 1 \in Nat /\ ~(m <= m - 1)
    BY <1>2, <1>5
  <2>2. m - 1 \notin Bad
    BY <2>1, <1>1
  <2>3. \A Q \in SUBSET (1 .. (m - 1)) : Ascending(Q)
    BY <2>1, <2>2
  <2> HIDE DEF Bad
  <2>4. R \ {m} \in SUBSET (1 .. (m - 1))
    BY <1>2
  <2>5. m \in R
    <3>1. m \notin R => R \in SUBSET (1 .. (m - 1))
      BY <1>2
    <3> QED
      BY <3>1, <2>3, <1>3
  <2> QED
    BY <1>2, <1>5, <1>3, <2>3, <2>4, <2>5, AscendingAdd
<1> QED
  BY <1>4, <1>5

LEMMA RowsFacts ==
  ASSUME NEW k, NEW c
  PROVE  /\ Rows(k, c) \in Seq(Msgs)
         /\ Once(Rows(k, c))
         /\ \A j \in DOMAIN Rows(k, c) : <<k, c, Rows(k, c)[j]>> \in db
<1> DEFINE S == Filed(k, c)
           n == Cardinality(S)
           rows == Rows(k, c)
<1>1. S \in SUBSET (1 .. NMsgs)
  BY DEF Filed, Msgs
<1>2. IsFiniteSet(S)
  <2>1. IsFiniteSet(1 .. NMsgs)
    BY BoundsAssumption, FS_Interval
  <2> QED
    BY <1>1, <2>1, FS_Subset
<1>3. n \in Nat
  BY <1>2, FS_CardinalityType
<1>4. Ascending(S)
  BY <1>1, BoundsAssumption, AscendingExists
<1> HIDE DEF S
<1>5. \E f \in [1 .. n -> S] : \A i, j \in DOMAIN f : i < j => f[i] < f[j]
  BY <1>4 DEF Ascending
<1>6. rows = CHOOSE f \in [1 .. n -> S] : \A i, j \in DOMAIN f : i < j => f[i] < f[j]
  BY DEF Rows, S
<1> HIDE DEF rows, n
<1>7. rows \in [1 .. n -> S] /\ \A i, j \in DOMAIN rows : i < j => rows[i] < rows[j]
  BY <1>5, <1>6
<1>8. DOMAIN rows = 1 .. n /\ \A i \in 1 .. n : rows[i] \in S
  BY <1>7
<1>9. \A m \in S : m \in Msgs /\ m \in Nat /\ <<k, c, m>> \in db
  BY <1>1, BoundsAssumption DEF S, Filed
<1>10. rows \in Seq(Msgs)
  <2>1. rows \in [1 .. n -> Msgs]
    BY <1>7, <1>8, <1>9
  <2> QED
    BY <2>1, <1>3, SeqDef
<1>11. Once(rows)
  <2> SUFFICES ASSUME NEW i \in 1 .. n, NEW j \in 1 .. n, rows[i] = rows[j], i # j PROVE FALSE
    BY <1>8 DEF Once
  <2>1. rows[i] \in Nat /\ rows[j] \in Nat
    BY <1>8, <1>9
  <2>2. i < j \/ j < i
    BY <1>3
  <2> QED
    BY <2>1, <2>2, <1>7, <1>8
<1> QED
  BY <1>8, <1>9, <1>10, <1>11 DEF rows
-----------------------------------------------------------------------------
(* The two lists.                                                          *)

LEMMA RemoveAtFacts ==
  ASSUME NEW S, NEW t \in Seq(S), NEW c \in DOMAIN t
  PROVE  /\ RemoveAt(t, c) \in Seq(S)
         /\ Len(RemoveAt(t, c)) = Len(t) - 1
         /\ \A i \in 1 .. Len(t) - 1 : RemoveAt(t, c)[i] = IF i < c THEN t[i] ELSE t[i + 1]
<1> DEFINE a == SubSeq(t, 1, c - 1)
           b == SubSeq(t, c + 1, Len(t))
<1>1. c \in 1 .. Len(t) /\ Len(t) \in Nat
  OBVIOUS
<1>2. a \in Seq(S) /\ Len(a) = c - 1 /\ \A i \in 1 .. c - 1 : a[i] = t[i]
  BY <1>1
<1>3. /\ b \in Seq(S) /\ Len(b) = Len(t) - c
      /\ \A i \in 1 .. Len(t) - c : b[i] = t[c + i]
  BY <1>1
<1> HIDE DEF a, b
<1>4. /\ a \o b \in Seq(S) /\ Len(a \o b) = Len(t) - 1
      /\ \A i \in 1 .. Len(t) - 1 : (a \o b)[i] = IF i < c THEN a[i] ELSE b[i - (c - 1)]
  <2>1. /\ a \o b \in Seq(S) /\ Len(a \o b) = Len(a) + Len(b)
        /\ \A i \in 1 .. Len(a) + Len(b) :
             (a \o b)[i] = IF i <= Len(a) THEN a[i] ELSE b[i - Len(a)]
    BY <1>2, <1>3, ConcatProperties
  <2>2. Len(a) + Len(b) = Len(t) - 1
    BY <1>1, <1>2, <1>3
  <2>3. \A i \in Int : i <= c - 1 <=> i < c
    BY <1>1
  <2> QED
    BY <2>1, <2>2, <2>3, <1>2
<1>5. \A i \in 1 .. Len(t) - 1 : i >= c => b[i - (c - 1)] = t[i + 1]
  <2> SUFFICES ASSUME NEW i \in 1 .. Len(t) - 1, i >= c PROVE b[i - (c - 1)] = t[i + 1]
    OBVIOUS
  <2>1. PICK n \in 1 .. Len(t) - c : n = i - (c - 1) /\ c + n = i + 1
    BY <1>1
  <2> QED
    BY <1>3, <2>1
<1>6. \A i \in 1 .. Len(t) - 1 : (a \o b)[i] = IF i < c THEN t[i] ELSE t[i + 1]
  BY <1>1, <1>2, <1>4, <1>5
<1> QED
  BY <1>4, <1>6 DEF RemoveAt, a, b

LEMMA ConstantFacts ==
  /\ Contacts \subseteq Nat \ {Nobody} /\ Companions \subseteq Nat \ {Nobody}
  /\ \A c \in Companions : Knows[c] \subseteq Contacts
<1>1. \A c \in Companions : Knows[c] \in SUBSET (Nat \ {Nobody})
  BY KnowsAssumption
<1>2. \A c \in Companions : Knows[c] \subseteq Contacts
  BY DEF Contacts
<1>3. \A x \in Contacts : \E c \in Companions : x \in Knows[c]
  BY DEF Contacts
<1>4. Contacts \subseteq Nat \ {Nobody}
  <2> SUFFICES ASSUME NEW x \in Contacts PROVE x \in Nat \ {Nobody}
    OBVIOUS
  <2>1. PICK c \in Companions : x \in Knows[c]
    BY <1>3
  <2>2. Knows[c] \subseteq Nat \ {Nobody}
    BY <1>1
  <2> QED
    BY <2>1, <2>2
<1> QED
  BY <1>2, <1>4, CompanionsAssumption

(* A contact returns: it is listed last, as it was parked or without a     *)
(* history, and all that was parked is still there or is listed.           *)
LEMMA ReturnsFacts ==
  ASSUME list \in Seq(Entries), old \in Seq(Entries), NEW c \in Contacts, Returns(c)
  PROVE  /\ list' \in Seq(Entries) /\ old' \in Seq(Entries)
         /\ DOMAIN list' = DOMAIN list \cup {Len(list) + 1} /\ Len(list) + 1 \notin DOMAIN list
         /\ \A i \in DOMAIN list : list'[i] = list[i]
         /\ list'[Len(list) + 1].who = c
         /\ \/ list'[Len(list) + 1].hist = <<>>
            \/ \E i \in DOMAIN old : list'[Len(list) + 1] = old[i]
         /\ \A j \in DOMAIN old' : \E i \in DOMAIN old : old'[j] = old[i]
         /\ \A i \in DOMAIN old : \/ list'[Len(list) + 1] = old[i]
                                  \/ \E j \in DOMAIN old' : old'[j] = old[i]
         /\ Apart(old) => Apart(old') /\ \A j \in DOMAIN old' : old'[j].who # c
<1> DEFINE i == First(Places(old, c))
           e == [who |-> c, hist |-> <<>>]
<1>1. ASSUME NEW x \in Entries, list' = Append(list, x)
      PROVE  /\ list' \in Seq(Entries)
             /\ DOMAIN list' = DOMAIN list \cup {Len(list) + 1} /\ Len(list) + 1 \notin DOMAIN list
             /\ \A j \in DOMAIN list : list'[j] = list[j]
             /\ list'[Len(list) + 1] = x
  <2>1. /\ list' \in Seq(Entries) /\ Len(list') = Len(list) + 1 /\ Len(list) \in Nat
        /\ \A j \in 1 .. Len(list) : list'[j] = list[j]
        /\ list'[Len(list) + 1] = x
    BY <1>1
  <2>2. DOMAIN list' = 1 .. Len(list) + 1 /\ DOMAIN list = 1 .. Len(list)
    BY <2>1
  <2> QED
    BY <2>1, <2>2
<1>2. CASE Listed(old, c)
  <2>1. list' = Append(list, old[i]) /\ old' = RemoveAt(old, i)
    BY <1>2 DEF Returns
  <2>2. i \in Places(old, c)
    <3>1. Places(old, c) \in SUBSET Nat /\ Places(old, c) # {}
      BY <1>2 DEF Places, Listed
    <3>2. \E x \in Places(old, c) : \A y \in Places(old, c) : x <= y
      BY <3>1, LowestExists
    <3> HIDE DEF Places
    <3> QED
      BY <3>2 DEF First
  <2> HIDE DEF i
  <2>3. i \in 1 .. Len(old) /\ i \in DOMAIN old /\ old[i].who = c /\ old[i] \in Entries
    BY <2>2 DEF Places
  <2>4. /\ old' \in Seq(Entries) /\ Len(old') = Len(old) - 1
        /\ \A j \in 1 .. Len(old) - 1 : old'[j] = IF j < i THEN old[j] ELSE old[j + 1]
    BY <2>1, <2>3, RemoveAtFacts
  <2>5. DOMAIN old' = 1 .. Len(old) - 1 /\ DOMAIN old = 1 .. Len(old) /\ Len(old) \in Nat
    BY <2>4
  <2> DEFINE From(j) == IF j < i THEN j ELSE j + 1
  <2>6. \A j \in DOMAIN old' : From(j) \in DOMAIN old /\ old'[j] = old[From(j)] /\ From(j) # i
    BY <2>3, <2>4, <2>5
  <2>7. \A j, k \in DOMAIN old' : From(j) = From(k) => j = k
    BY <2>3, <2>5
  <2>8. \A k \in DOMAIN old : k = i \/ \E j \in DOMAIN old' : From(j) = k
    <3> SUFFICES ASSUME NEW k \in 1 .. Len(old), k # i PROVE \E j \in DOMAIN old' : From(j) = k
      BY <2>5
    <3>1. CASE k < i
      BY <3>1, <2>3, <2>5
    <3>2. CASE k > i
      <4>1. k - 1 \in DOMAIN old' /\ From(k - 1) = k
        BY <3>2, <2>3, <2>5
      <4> QED
        BY <4>1
    <3> QED
      BY <3>1, <3>2, <2>3
  <2> HIDE DEF From
  <2>9. \A k \in DOMAIN old : list'[Len(list) + 1] = old[k] \/ \E j \in DOMAIN old' : old'[j] = old[k]
    BY <2>1, <2>3, <2>6, <2>8, <1>1
  <2>10. Apart(old) => Apart(old') /\ \A j \in DOMAIN old' : old'[j].who # c
    BY <2>3, <2>6, <2>7 DEF Apart
  <2>11. \A j \in DOMAIN old' : \E k \in DOMAIN old : old'[j] = old[k]
    BY <2>6
  <2> QED
    BY <2>1, <2>3, <2>4, <2>9, <2>10, <2>11, <1>1
<1>3. CASE ~Listed(old, c)
  <2>1. list' = Append(list, e) /\ old' = old
    BY <1>3 DEF Returns
  <2>2. e \in Entries /\ e.who = c /\ e.hist = <<>>
    BY DEF Entries
  <2>3. \A j \in DOMAIN old : old[j].who # c
    BY <1>3 DEF Listed, Places
  <2> HIDE DEF e
  <2> QED
    BY <2>1, <2>2, <2>3, <1>1
<1> QED
  BY <1>2, <1>3

(* At the end of a sync the list is all there is, with the histories it    *)
(* had, or those of the database when it had none.                         *)
LEMMA EndFacts ==
  ASSUME list \in Seq(Entries), old \in Seq(Entries), NEW s, s = list \o old
  PROVE  LET r == WithHistories(s) IN
         /\ s \in Seq(Entries) /\ r \in Seq(Entries) /\ DOMAIN r = DOMAIN s
         /\ \A i \in DOMAIN s : r[i].who = s[i].who
         /\ HasHistory(s) => r = s
         /\ ~HasHistory(s) => \A i \in DOMAIN s : r[i].hist = Rows(key, s[i].who) /\ s[i].hist = <<>>
         /\ \A i \in DOMAIN list : i \in DOMAIN s /\ s[i] = list[i]
         /\ \A j \in DOMAIN old : Len(list) + j \in DOMAIN s /\ s[Len(list) + j] = old[j]
         /\ \A i \in DOMAIN s : \/ i \in DOMAIN list /\ s[i] = list[i]
                                \/ \E j \in DOMAIN old : i = Len(list) + j /\ s[i] = old[j]
<1> DEFINE r == WithHistories(s)
<1>1. /\ s \in Seq(Entries) /\ Len(s) = Len(list) + Len(old)
      /\ Len(list) \in Nat /\ Len(old) \in Nat
      /\ \A i \in 1 .. Len(list) + Len(old) :
           s[i] = IF i <= Len(list) THEN list[i] ELSE old[i - Len(list)]
  BY ConcatProperties, LenProperties
<1>2. DOMAIN s = 1 .. Len(list) + Len(old) /\ DOMAIN list = 1 .. Len(list) /\ DOMAIN old = 1 .. Len(old)
  BY <1>1
<1>3. \A i \in DOMAIN list : i \in DOMAIN s /\ s[i] = list[i]
  BY <1>1, <1>2
<1>4. \A j \in DOMAIN old : Len(list) + j \in DOMAIN s /\ s[Len(list) + j] = old[j]
  <2> SUFFICES ASSUME NEW j \in 1 .. Len(old)
               PROVE  Len(list) + j \in DOMAIN s /\ s[Len(list) + j] = old[j]
    BY <1>2
  <2>1. /\ Len(list) + j \in 1 .. Len(list) + Len(old) /\ ~(Len(list) + j <= Len(list))
        /\ (Len(list) + j) - Len(list) = j
    BY <1>1
  <2> QED
    BY <2>1, <1>1, <1>2
<1>5. \A i \in DOMAIN s : \/ i \in DOMAIN list /\ s[i] = list[i]
                          \/ \E j \in DOMAIN old : i = Len(list) + j /\ s[i] = old[j]
  <2> SUFFICES ASSUME NEW i \in 1 .. Len(list) + Len(old)
               PROVE  \/ i \in DOMAIN list /\ s[i] = list[i]
                      \/ \E j \in DOMAIN old : i = Len(list) + j /\ s[i] = old[j]
    BY <1>2
  <2>1. CASE i <= Len(list)
    BY <2>1, <1>1, <1>2
  <2>2. CASE ~(i <= Len(list))
    <3>1. i - Len(list) \in 1 .. Len(old) /\ i = Len(list) + (i - Len(list))
      BY <2>2, <1>1
    <3> QED
      BY <3>1, <2>2, <1>1, <1>2
  <2> QED
    BY <2>1, <2>2
<1>6. CASE HasHistory(s)
  <2>1. r = s
    BY <1>6 DEF WithHistories
  <2> HIDE DEF r
  <2> QED
    BY <2>1, <1>1, <1>3, <1>4, <1>5, <1>6 DEF r
<1>7. CASE ~HasHistory(s)
  <2>1. r = [i \in DOMAIN s |-> [s[i] EXCEPT !.hist = Rows(key, s[i].who)]]
    BY <1>7 DEF WithHistories
  <2>2. \A i \in DOMAIN s : s[i] \in Entries
    BY <1>1
  <2>3. ASSUME NEW i \in DOMAIN s
        PROVE  /\ [s[i] EXCEPT !.hist = Rows(key, s[i].who)] \in Entries
               /\ [s[i] EXCEPT !.hist = Rows(key, s[i].who)].who = s[i].who
               /\ [s[i] EXCEPT !.hist = Rows(key, s[i].who)].hist = Rows(key, s[i].who)
    <3>1. s[i] \in Entries
      BY <2>2
    <3>2. Rows(key, s[i].who) \in Seq(Msgs)
      BY RowsFacts
    <3> QED
      BY <3>1, <3>2 DEF Entries
  <2> HIDE DEF r
  <2>4. /\ DOMAIN r = DOMAIN s
        /\ \A i \in DOMAIN s : r[i] \in Entries /\ r[i].who = s[i].who /\ r[i].hist = Rows(key, s[i].who)
    BY <2>1, <2>3
  <2>5. r \in Seq(Entries)
    <3>1. Len(list) + Len(old) \in Nat
      BY <1>1
    <3>2. r \in [1 .. Len(list) + Len(old) -> Entries]
      BY <2>1, <2>4, <1>2
    <3> QED
      BY <3>1, <3>2, SeqDef
  <2>6. \A i \in DOMAIN s : s[i].hist = <<>>
    BY <1>7 DEF HasHistory
  <2> QED
    BY <2>4, <2>5, <2>6, <1>1, <1>3, <1>4, <1>5, <1>7 DEF r
<1> QED
  BY <1>6, <1>7

(* A message is added to the history of a listed contact.                  *)
Shows(s, r, by, m) == r = IF Listed(s, by)
                          THEN [s EXCEPT ![First(Places(s, by))].hist = Append(@, m)]
                          ELSE s

LEMMA ShowsFacts ==
  ASSUME NEW s \in Seq(Entries), NEW r, NEW by, NEW m \in Msgs, Shows(s, r, by, m)
  PROVE  /\ r \in Seq(Entries) /\ DOMAIN r = DOMAIN s
         /\ \A i \in DOMAIN s : /\ r[i].who = s[i].who
                                /\ r[i].hist = s[i].hist \/ r[i].hist = Append(s[i].hist, m)
<1>1. CASE Listed(s, by)
  <2> DEFINE i == First(Places(s, by))
  <2>1. i \in Places(s, by)
    <3>1. Places(s, by) \in SUBSET Nat /\ Places(s, by) # {}
      BY <1>1 DEF Places, Listed
    <3>2. \E x \in Places(s, by) : \A y \in Places(s, by) : x <= y
      BY <3>1, LowestExists
    <3> HIDE DEF Places
    <3> QED
      BY <3>2 DEF First
  <2> HIDE DEF i
  <2>2. i \in 1 .. Len(s) /\ s[i] \in Entries
    BY <2>1 DEF Places
  <2> DEFINE x == [s[i] EXCEPT !.hist = Append(s[i].hist, m)]
  <2>3. r = [s EXCEPT ![i] = x]
    BY <1>1 DEF Shows, i
  <2>4. x \in Entries /\ x.who = s[i].who /\ x.hist = Append(s[i].hist, m)
    <3>1. s[i].hist \in Seq(Msgs) /\ Append(s[i].hist, m) \in Seq(Msgs)
      BY <2>2 DEF Entries
    <3> QED
      BY <2>2, <3>1 DEF Entries
  <2> HIDE DEF x
  <2>5. r \in Seq(Entries) /\ DOMAIN r = DOMAIN s /\ \A j \in DOMAIN s : r[j] = IF j = i THEN x ELSE s[j]
    BY <2>2, <2>3, <2>4
  <2> QED
    BY <2>4, <2>5
<1>2. CASE ~Listed(s, by)
  BY <1>2 DEF Shows
<1> QED
  BY <1>1, <1>2
-----------------------------------------------------------------------------
(* Types.                                                                  *)

USE DEF Nobody

LEMMA QueueTyped == TypeOK => queue \in Seq(Items)
BY DEF TypeOK, Items

(* The steps that leave lists, store, link and what the radio keeps alone, *)
(* take no listing frame and post nothing that a list or a row depends on. *)
Signals == {"export", "no_more", "waiting", "path", "self_info"}
Harmless(x) ==
  \/ x.what \in {"connected", "init", "handshake"} /\ x.hop = 2
  \/ x.what \in Signals /\ x.hop = 1 /\ link \in Companions
       /\ (x.what = "self_info" => x.who = link)
Quiet ==
  /\ UNCHANGED <<lists, store, link, dump, listing, inbox, home>>
  /\ raw' = raw \/ raw'
  /\ \/ queue' = queue
     \/ Turns(queue, queue')
     \/ Pops(queue, queue') /\ queue[1].what \notin Listing \cup {"disconnected"}
     \/ \E x : Gets(queue, queue', x) /\ Harmless(x)

LEMMA HandlesPops ==
  ASSUME TypeOK, NEW what, Handles(what)
  PROVE  Pops(queue, queue') /\ queue[1].what = what /\ 1 \in DOMAIN queue /\ Subject = queue[1].who
BY QueueTyped DEF Handles, Pops, Subject

LEMMA PostsGets ==
  ASSUME TypeOK, NEW what \in Notices, Posts(what)
  PROVE  Gets(queue, queue', Item(2, what, Nobody))
BY DEF Posts, Gets, Item, Items

LEMMA AnswersGets ==
  ASSUME TypeOK, NEW what \in Frames, NEW who \in Nat, Answers(what, who)
  PROVE  IF raw THEN queue' = queue ELSE Gets(queue, queue', Item(1, what, who))
BY DEF Answers, Gets, Item, Items

LEMMA ItemFields ==
  ASSUME NEW hop, NEW what, NEW who
  PROVE  Item(hop, what, who).hop = hop /\ Item(hop, what, who).what = what /\ Item(hop, what, who).who = who
BY DEF Item

LEMMA QuietSteps ==
  ASSUME TypeOK,
         \/ ReceiveFrame \/ HandleConnected \/ HandleInit \/ HandleHandshake
         \/ HandleExportContact \/ HandleNoMore \/ HandleMsgWaiting \/ HandlePathUpdated
         \/ UserSync \/ TickInit \/ TickHandshake \/ RadioBoots \/ RadioDrops
         \/ RadioIntroduces \/ PathChanges
  PROVE  Quiet
<1> USE DEF lists, store, flags, timers, linkVars, radioVars
<1>1. CASE ReceiveFrame
  <2>1. Turns(queue, queue')
    BY <1>1 DEF ReceiveFrame, Turns
  <2> QED
    BY <1>1, <2>1 DEF ReceiveFrame, Quiet
<1>2. ASSUME NEW what, what \notin Listing \cup {"disconnected"}, Handles(what)
      PROVE  Pops(queue, queue') /\ queue[1].what \notin Listing \cup {"disconnected"}
  BY <1>2, HandlesPops
<1>3. CASE HandleConnected
  BY <1>2, <1>3 DEF HandleConnected, Quiet, Listing
<1>4. CASE HandleInit
  BY <1>2, <1>4 DEF HandleInit, Quiet, Listing
<1>5. CASE HandleHandshake
  BY <1>2, <1>5 DEF HandleHandshake, Quiet, Listing
<1>6. CASE HandleExportContact
  BY <1>2, <1>6 DEF HandleExportContact, Quiet, Listing
<1>7. CASE HandleNoMore
  BY <1>2, <1>7 DEF HandleNoMore, Quiet, Listing
<1>8. CASE HandleMsgWaiting
  BY <1>2, <1>8 DEF HandleMsgWaiting, Quiet, Listing
<1>9. CASE HandlePathUpdated
  BY <1>2, <1>9 DEF HandlePathUpdated, Quiet, Listing
<1>10. CASE UserSync
  BY <1>10 DEF UserSync, Quiet
<1>11. ASSUME NEW what \in {"init", "handshake"}, Posts(what)
       PROVE  \E x : Gets(queue, queue', x) /\ Harmless(x)
  BY <1>11, PostsGets, ItemFields DEF Harmless, Notices
<1>12. CASE TickInit
  BY <1>11, <1>12 DEF TickInit, Quiet
<1>13. CASE TickHandshake
  BY <1>11, <1>13 DEF TickHandshake, Quiet
<1>14. CASE RadioBoots
  BY <1>14 DEF RadioBoots, Quiet
<1>15. CASE RadioDrops
  BY <1>15 DEF RadioDrops, Quiet
<1>16. ASSUME NEW what \in Signals, NEW who \in Nat, Answers(what, who), link # Nobody,
              what = "self_info" => who = link
       PROVE  queue' = queue \/ \E x : Gets(queue, queue', x) /\ Harmless(x)
  <2>1. link \in Companions
    BY <1>16 DEF TypeOK
  <2>2. what \in Frames
    BY DEF Signals, Frames
  <2>3. queue' = queue \/ Gets(queue, queue', Item(1, what, who))
    BY <2>2, <1>16, AnswersGets
  <2> QED
    BY <1>16, <2>1, <2>3, ItemFields DEF Harmless
<1>17. CASE RadioIntroduces
  <2>1. link # Nobody /\ link \in Nat
    BY <1>17, CompanionsAssumption DEF RadioIntroduces, TakesCommand, TypeOK
  <2>2. \E what \in {"self_info", "export"} : Answers(what, link)
    BY <1>17 DEF RadioIntroduces
  <2>3. queue' = queue \/ \E x : Gets(queue, queue', x) /\ Harmless(x)
    BY <2>1, <2>2, <1>16 DEF Signals
  <2> QED
    BY <1>17, <2>3 DEF RadioIntroduces, Quiet
<1>18. CASE PathChanges
  <2>1. queue' = queue \/ \E x : Gets(queue, queue', x) /\ Harmless(x)
    BY <1>18, <1>16 DEF PathChanges, Signals
  <2> QED
    BY <1>18, <2>1 DEF PathChanges, Quiet
<1> QED
  BY <1>1, <1>3, <1>4, <1>5, <1>6, <1>7, <1>8, <1>9, <1>10, <1>12, <1>13, <1>14, <1>15, <1>17, <1>18
Special ==
  \/ HandleSelfInfo \/ HandleDisconnected \/ HandleMsg
  \/ HandleContactsStart \/ HandleContact \/ HandleContactsEnd
  \/ LinkUp \/ LinkDown
  \/ RadioStartsListing \/ RadioLists \/ RadioHandsOver
  \/ \E c \in Companions : MessageArrives(c)

LEMMA NextCases ==
  ASSUME TypeOK, Next
  PROVE  Quiet \/ Special
<1>1. CASE Window
  BY <1>1, QuietSteps DEF Window, Special
<1>2. CASE Timers
  BY <1>2, QuietSteps DEF Timers
<1>3. CASE Radio
  BY <1>3, QuietSteps DEF Radio, RadioServes, Special
<1>4. CASE Environment
  BY <1>4, QuietSteps DEF Environment, Special
<1> QED
  BY <1>1, <1>2, <1>3, <1>4 DEF Next

(* What TypeOK says, in parts.                                             *)
FlagsTyped ==
  /\ up \in BOOLEAN /\ hasInfo \in BOOLEAN /\ syncing \in BOOLEAN
  /\ since \in {0, 1}
  /\ retries \in 0 .. MaxRetries
  /\ handshake \in BOOLEAN
  /\ initDue \in Nat
LinkTyped ==
  /\ link \in Companions \cup {Nobody}
  /\ links \in 0 .. NLinks
  /\ raw \in BOOLEAN
RadioTyped ==
  /\ ready \in BOOLEAN
  /\ sent \in Seq(Commands)
  /\ dump \subseteq Contacts
  /\ listing \in BOOLEAN
  /\ inbox \in [Companions -> Seq(Msgs)]
  /\ home \in [Msgs -> [radio : Companions \cup {Nobody}, by : Contacts \cup {Nobody}]]
ListsTyped == list \in Seq(Entries) /\ old \in Seq(Entries)
StoreTyped ==
  /\ key \in Companions \cup {Nobody}
  /\ db \subseteq (Companions \cup {Nobody}) \X Contacts \X Msgs
QueueTypes == queue \in Seq(Items)

LEMMA TypeParts ==
  /\ TypeOK <=> QueueTypes /\ FlagsTyped /\ LinkTyped /\ RadioTyped /\ ListsTyped /\ StoreTyped
  /\ TypeOK' <=> QueueTypes' /\ FlagsTyped' /\ LinkTyped' /\ RadioTyped' /\ ListsTyped' /\ StoreTyped'
BY DEF TypeOK, QueueTypes, FlagsTyped, LinkTyped, RadioTyped, ListsTyped, StoreTyped, Items

LEMMA SendsTyped ==
  ASSUME sent \in Seq(Commands), NEW c, c \in Seq(Commands), Sends(c)
  PROVE  sent' \in Seq(Commands)
BY DEF Sends

LEMMA CommandSeqs ==
  /\ <<"app_start">> \in Seq(Commands) /\ InitCommands \in Seq(Commands)
  /\ <<"sync_next">> \in Seq(Commands)
  /\ <<IF since = 0 THEN "get_all" ELSE "get_new">> \in Seq(Commands)
BY DEF Commands, InitCommands

LEMMA FlagsStep ==
  ASSUME TypeOK, Next
  PROVE  FlagsTyped'
<1> USE DEF lists, store, flags, timers, linkVars, radioVars, vars
<1>0. FlagsTyped
  BY TypeParts
<1>1. CASE UNCHANGED <<flags, timers>>
  BY <1>0, <1>1 DEF FlagsTyped
<1>2. CASE Window
  <2>1. CASE ReceiveFrame \/ HandleContactsStart \/ HandleContact \/ HandleMsg \/ HandleNoMore
             \/ HandleMsgWaiting
    BY <2>1, <1>1 DEF ReceiveFrame, HandleContactsStart, HandleContact, HandleMsg, HandleNoMore,
         HandleMsgWaiting
  <2>2. CASE HandleConnected
    BY <2>2, <1>0, BoundsAssumption DEF HandleConnected, FlagsTyped
  <2>3. CASE HandleDisconnected
    BY <2>3, <1>0 DEF HandleDisconnected, ForgetCompanion, FlagsTyped
  <2>4. CASE HandleInit
    BY <2>4, <1>0 DEF HandleInit, FlagsTyped
  <2>5. CASE HandleHandshake
    <3>1. retries' \in 0 .. MaxRetries
      BY <2>5, <1>0, BoundsAssumption DEF HandleHandshake, TriesLeft, FlagsTyped
    <3> QED
      BY <2>5, <3>1, <1>0 DEF HandleHandshake, FlagsTyped
  <2>6. CASE HandleSelfInfo
    BY <2>6, <1>0 DEF HandleSelfInfo, FlagsTyped
  <2>7. CASE HandleExportContact
    BY <2>7, <1>0 DEF HandleExportContact, FlagsTyped
  <2>8. CASE HandleContactsEnd
    BY <2>8, <1>0 DEF HandleContactsEnd, SyncEnded, FlagsTyped
  <2>9. CASE HandlePathUpdated
    BY <2>9, <1>0 DEF HandlePathUpdated, FlagsTyped
  <2> QED
    BY <1>2, <2>1, <2>2, <2>3, <2>4, <2>5, <2>6, <2>7, <2>8, <2>9 DEF Window
<1>3. CASE Timers
  BY <1>3, <1>0 DEF Timers, TickInit, TickHandshake, FlagsTyped
<1>4. CASE Radio
  <2>1. UNCHANGED <<flags, timers>>
    BY <1>4 DEF Radio, RadioServes, RadioBoots, RadioDrops, RadioIntroduces, RadioStartsListing,
      RadioLists, RadioHandsOver
  <2> QED
    BY <2>1, <1>1
<1>5. CASE Environment
  <2>1. CASE UserSync
    BY <2>1, <1>0 DEF UserSync, FlagsTyped
  <2>2. CASE LinkUp \/ LinkDown \/ PathChanges \/ \E c \in Companions : MessageArrives(c)
    <3>1. UNCHANGED <<flags, timers>>
      BY <2>2 DEF LinkUp, LinkDown, PathChanges, MessageArrives
    <3> QED
      BY <3>1, <1>1
  <2> QED
    BY <1>5, <2>1, <2>2 DEF Environment
<1> QED
  BY <1>2, <1>3, <1>4, <1>5 DEF Next

LEMMA LinkStep ==
  ASSUME TypeOK, Next
  PROVE  LinkTyped'
<1> USE DEF lists, store, flags, timers, linkVars, radioVars, vars
<1>0. LinkTyped
  BY TypeParts
<1>1. CASE UNCHANGED linkVars
  BY <1>0, <1>1 DEF LinkTyped
<1>2. CASE HandleHandshake
  BY <1>2, <1>0 DEF HandleHandshake, LinkTyped
<1>3. CASE LinkUp
  BY <1>3, <1>0, BoundsAssumption DEF LinkUp, LinkTyped
<1>4. CASE LinkDown
  BY <1>4, <1>0 DEF LinkDown, LinkTyped
<1>5. CASE Window /\ ~HandleHandshake
  <2>1. UNCHANGED linkVars
    BY <1>5 DEF Window, ReceiveFrame, HandleConnected, HandleDisconnected, HandleInit, HandleSelfInfo,
      HandleExportContact, HandleContactsStart, HandleContact, HandleContactsEnd, HandleMsg,
      HandleNoMore, HandleMsgWaiting, HandlePathUpdated
  <2> QED
    BY <2>1, <1>1
<1>6. CASE Timers \/ Radio
  <2>1. UNCHANGED linkVars
    BY <1>6 DEF Timers, TickInit, TickHandshake, Radio, RadioServes, RadioBoots, RadioDrops,
      RadioIntroduces, RadioStartsListing, RadioLists, RadioHandsOver
  <2> QED
    BY <2>1, <1>1
<1>7. CASE UserSync \/ PathChanges \/ \E c \in Companions : MessageArrives(c)
  <2>1. UNCHANGED linkVars
    BY <1>7 DEF UserSync, PathChanges, MessageArrives
  <2> QED
    BY <2>1, <1>1
<1> QED
  BY <1>2, <1>3, <1>4, <1>5, <1>6, <1>7 DEF Next, Environment

LEMMA RadioStep ==
  ASSUME TypeOK, Next
  PROVE  RadioTyped'
<1> USE DEF lists, store, flags, timers, linkVars, radioVars, vars
<1>0. RadioTyped /\ LinkTyped
  BY TypeParts
<1>1. ASSUME UNCHANGED radioVars, sent' \in Seq(Commands)
      PROVE  RadioTyped'
  BY <1>0, <1>1 DEF RadioTyped
<1>2. CASE Window
  <2>1. UNCHANGED radioVars
    BY <1>2 DEF Window, ReceiveFrame, HandleConnected, HandleDisconnected, HandleInit, HandleHandshake,
      HandleSelfInfo, HandleExportContact, HandleContactsStart, HandleContact, HandleContactsEnd,
      HandleMsg, HandleNoMore, HandleMsgWaiting, HandlePathUpdated
  <2>2. sent' = sent \/ \E c \in Seq(Commands) : Sends(c)
    BY <1>2, CommandSeqs DEF Window, ReceiveFrame, HandleConnected, HandleDisconnected, HandleInit,
      HandleHandshake, HandleSelfInfo, HandleExportContact, HandleContactsStart, HandleContact,
      HandleContactsEnd, HandleMsg, HandleNoMore, HandleMsgWaiting, HandlePathUpdated, GetContacts,
      SendsNothing
  <2>3. sent' \in Seq(Commands)
    BY <2>2, <1>0, SendsTyped DEF RadioTyped
  <2> QED
    BY <2>1, <2>3, <1>1
<1>3. CASE Timers
  BY <1>3, <1>0, <1>1 DEF Timers, TickInit, TickHandshake, RadioTyped
<1>4. ASSUME NEW c, TakesCommand(c)
      PROVE  sent' \in Seq(Commands)
  BY <1>0, <1>4 DEF TakesCommand, RadioTyped
<1>5. CASE RadioBoots
  BY <1>5, <1>0 DEF RadioBoots, RadioTyped
<1>6. CASE RadioDrops \/ RadioIntroduces
  BY <1>6, <1>0, <1>1, <1>4 DEF RadioDrops, RadioIntroduces
<1>7. CASE RadioStartsListing
  <2>1. sent' \in Seq(Commands) /\ link \in Companions
    BY <1>7, <1>0, <1>4 DEF RadioStartsListing, LinkTyped, TakesCommand
  <2>2. dump' \subseteq Contacts
    <3>1. Knows[link] \subseteq Contacts
      BY <2>1, ConstantFacts
    <3>2. dump' = dump \/ dump' \in {Knows[link]} \/ dump' \in SUBSET Knows[link]
      BY <1>7 DEF RadioStartsListing
    <3> QED
      BY <3>1, <3>2, <1>0 DEF RadioTyped
  <2>3. listing' \in BOOLEAN
    BY <1>7, <1>0 DEF RadioStartsListing, RadioTyped
  <2> QED
    BY <1>7, <1>0, <2>1, <2>2, <2>3 DEF RadioStartsListing, RadioTyped
<1>8. CASE RadioLists
  BY <1>8, <1>0 DEF RadioLists, RadioTyped
<1>9. CASE RadioHandsOver
  <2>1. sent' \in Seq(Commands) /\ link \in Companions
    BY <1>9, <1>0, <1>4 DEF RadioHandsOver, LinkTyped, TakesCommand
  <2>2. inbox' \in [Companions -> Seq(Msgs)]
    <3>1. CASE inbox[link] # <<>> /\ inbox' = [inbox EXCEPT ![link] = Tail(@)]
      <4>1. Tail(inbox[link]) \in Seq(Msgs)
        BY <3>1, <2>1, <1>0 DEF RadioTyped
      <4> QED
        BY <3>1, <4>1, <1>0 DEF RadioTyped
    <3>2. CASE inbox' = inbox
      BY <3>2, <1>0 DEF RadioTyped
    <3> QED
      BY <1>9, <3>1, <3>2 DEF RadioHandsOver
  <2> QED
    BY <1>9, <1>0, <2>1, <2>2 DEF RadioHandsOver, RadioTyped
<1>10. CASE UserSync
  BY <1>10, <1>0, <1>1, CommandSeqs, SendsTyped DEF UserSync, GetContacts, RadioTyped
<1>11. CASE LinkUp
  <2>1. ready' \in BOOLEAN
    BY <1>11 DEF LinkUp
  <2> QED
    BY <1>11, <2>1, <1>0 DEF LinkUp, RadioTyped
<1>12. CASE LinkDown
  <2>1. <<>> \in Seq(Commands)
    OBVIOUS
  <2> QED
    BY <1>12, <2>1, <1>0 DEF LinkDown, RadioTyped
<1>13. CASE PathChanges
  BY <1>13, <1>0, <1>1 DEF PathChanges, RadioTyped
<1>14. ASSUME NEW c \in Companions, MessageArrives(c)
       PROVE  RadioTyped'
  <2>1. PICK m \in Msgs, who \in Knows[c] :
          /\ home' = [home EXCEPT ![m] = [radio |-> c, by |-> who]]
          /\ inbox' = [inbox EXCEPT ![c] = Append(@, m)]
    BY <1>14 DEF MessageArrives
  <2>2. who \in Contacts
    BY <2>1, ConstantFacts
  <2>3. inbox' \in [Companions -> Seq(Msgs)]
    <3>1. Append(inbox[c], m) \in Seq(Msgs)
      BY <1>0 DEF RadioTyped
    <3> QED
      BY <2>1, <3>1, <1>0 DEF RadioTyped
  <2>4. home' \in [Msgs -> [radio : Companions \cup {Nobody}, by : Contacts \cup {Nobody}]]
    BY <2>1, <2>2, <1>0 DEF RadioTyped
  <2> QED
    BY <1>14, <2>3, <2>4, <1>0 DEF MessageArrives, RadioTyped
<1> QED
  BY <1>2, <1>3, <1>5, <1>6, <1>7, <1>8, <1>9, <1>10, <1>11, <1>12, <1>13, <1>14
  DEF Next, Environment, Radio, RadioServes
LEMMA SubjectTyped ==
  ASSUME TypeOK, QueueInv, NEW what, Handles(what)
  PROVE  /\ what = "self_info" => Subject \in Companions
         /\ what = "contact" => Subject \in Contacts
         /\ what = "msg" => Subject \in Msgs /\ home[Subject].radio # Nobody
BY HandlesPops DEF QueueInv, ItemOK

LEMMA MsgShows ==
  ASSUME TypeOK, QueueInv, HandleMsg
  PROVE  /\ db' = db \cup {<<key, home[Subject].by, Subject>>}
         /\ Shows(list, list', home[Subject].by, Subject)
         /\ Subject \in Msgs /\ home[Subject].radio # Nobody
         /\ old' = old /\ key' = key
BY SubjectTyped DEF HandleMsg, Shows

LEMMA ListsStep ==
  ASSUME TypeOK, QueueInv, Next
  PROVE  ListsTyped'
<1> USE DEF lists, store, flags, timers, linkVars, radioVars, vars
<1>0. ListsTyped
  BY TypeParts
<1>1. CASE UNCHANGED lists
  BY <1>0, <1>1 DEF ListsTyped
<1>2. CASE HandleDisconnected
  <2>1. list' = <<>> /\ old' = <<>>
    BY <1>2 DEF HandleDisconnected, ForgetCompanion
  <2> QED
    BY <2>1 DEF ListsTyped
<1>3. CASE HandleMsg
  BY <1>0, <1>3, MsgShows, ShowsFacts DEF ListsTyped
<1>4. CASE HandleContactsStart
  BY <1>0, <1>4 DEF HandleContactsStart, ListsTyped
<1>5. CASE HandleContact
  BY <1>0, <1>5, SubjectTyped, ReturnsFacts DEF HandleContact, ListsTyped
<1>6. CASE HandleContactsEnd
  <2>1. WithHistories(list \o old) \in Seq(Entries)
    BY <1>0, EndFacts DEF ListsTyped
  <2> QED
    BY <1>6, <2>1 DEF HandleContactsEnd, ListsTyped
<1>7. CASE Quiet
  BY <1>1, <1>7 DEF Quiet
<1>8. CASE \/ HandleSelfInfo \/ LinkUp \/ LinkDown \/ RadioStartsListing \/ RadioLists
           \/ RadioHandsOver \/ \E c \in Companions : MessageArrives(c)
  <2>1. UNCHANGED lists
    BY <1>8 DEF HandleSelfInfo, LinkUp, LinkDown, RadioStartsListing, RadioLists, RadioHandsOver,
      MessageArrives
  <2> QED
    BY <2>1, <1>1
<1> QED
  BY <1>2, <1>3, <1>4, <1>5, <1>6, <1>7, <1>8, NextCases DEF Special

LEMMA StoreStep ==
  ASSUME TypeOK, QueueInv, HomeInv, Next
  PROVE  StoreTyped'
<1> USE DEF lists, store, flags, timers, linkVars, radioVars, vars
<1>0. StoreTyped /\ RadioTyped
  BY TypeParts
<1>1. CASE UNCHANGED store
  BY <1>0, <1>1 DEF StoreTyped
<1>2. CASE HandleSelfInfo
  BY <1>0, <1>2, SubjectTyped DEF HandleSelfInfo, StoreTyped
<1>3. CASE HandleDisconnected
  BY <1>0, <1>3 DEF HandleDisconnected, ForgetCompanion, StoreTyped
<1>4. CASE HandleMsg
  <2>1. home[Subject].radio \in Companions /\ Subject \in Msgs
    BY <1>0, <1>4, MsgShows DEF RadioTyped
  <2>2. home[Subject].by \in Knows[home[Subject].radio]
    BY <2>1, <1>4, MsgShows DEF HomeInv
  <2>3. home[Subject].by \in Contacts
    BY <2>1, <2>2, ConstantFacts
  <2> QED
    BY <1>0, <1>4, <2>1, <2>3, MsgShows DEF StoreTyped
<1>5. CASE Quiet
  BY <1>1, <1>5 DEF Quiet
<1>6. CASE \/ HandleContactsStart \/ HandleContact \/ HandleContactsEnd \/ LinkUp \/ LinkDown
           \/ RadioStartsListing \/ RadioLists \/ RadioHandsOver
           \/ \E c \in Companions : MessageArrives(c)
  <2>1. UNCHANGED store
    BY <1>6 DEF HandleContactsStart, HandleContact, HandleContactsEnd, LinkUp, LinkDown,
      RadioStartsListing, RadioLists, RadioHandsOver, MessageArrives
  <2> QED
    BY <2>1, <1>1
<1> QED
  BY <1>2, <1>3, <1>4, <1>5, <1>6, NextCases DEF Special

(* What a step posts, and that it takes a message's home from none.        *)
Moves(x) ==
  \/ queue' = queue \/ Turns(queue, queue') \/ Pops(queue, queue')
  \/ Gets(queue, queue', x)

HomeStays == \A m \in Msgs : home[m].radio # Nobody => home'[m] = home[m]

LEMMA HomesStay ==
  ASSUME TypeOK, Next
  PROVE  HomeStays
<1> USE DEF lists, store, flags, timers, linkVars, radioVars, vars
<1>0. RadioTyped
  BY TypeParts
<1>1. CASE home' = home
  BY <1>1 DEF HomeStays
<1>2. ASSUME NEW c \in Companions, MessageArrives(c) PROVE HomeStays
  BY <1>0, <1>2 DEF MessageArrives, HomeStays, RadioTyped
<1>3. CASE Quiet
  BY <1>1, <1>3 DEF Quiet
<1>4. CASE \/ HandleSelfInfo \/ HandleDisconnected \/ HandleMsg
           \/ HandleContactsStart \/ HandleContact \/ HandleContactsEnd
           \/ LinkUp \/ LinkDown \/ RadioStartsListing \/ RadioLists \/ RadioHandsOver
  <2>1. home' = home
    BY <1>4 DEF HandleSelfInfo, HandleDisconnected, HandleMsg, HandleContactsStart, HandleContact,
      HandleContactsEnd, LinkUp, LinkDown, RadioStartsListing, RadioLists, RadioHandsOver
  <2> QED
    BY <2>1, <1>1
<1> QED
  BY <1>2, <1>3, <1>4, NextCases DEF Special

LEMMA ItemsFrom ==
  ASSUME NEW q \in Seq(Items), NEW r, NEW x,
         r = q \/ Turns(q, r) \/ Pops(q, r) \/ Gets(q, r, x)
  PROVE  /\ r \in Seq(Items)
         /\ \A i \in DOMAIN r : \/ \E j \in DOMAIN q : r[i].what = q[j].what /\ r[i].who = q[j].who
                                \/ Gets(q, r, x) /\ r[i] = x
<1> DEFINE Kept(i) == \E j \in DOMAIN q : r[i].what = q[j].what /\ r[i].who = q[j].who
           New(i) == Gets(q, r, x) /\ r[i] = x
           Goal == r \in Seq(Items) /\ \A i \in DOMAIN r : Kept(i) \/ New(i)
<1>1. ASSUME r = q PROVE Goal
  <2>1. \A i \in DOMAIN r : Kept(i)
    BY <1>1
  <2> HIDE DEF Kept, New
  <2>2. Goal
    BY <1>1, <2>1
  <2> QED
    BY <2>2
<1>2. ASSUME Turns(q, r) PROVE Goal
  <2>1. r \in Seq(Items) /\ \E P : Via(q, r, P, {})
    BY <1>2, TurnsVia
  <2>2. \A i \in DOMAIN r : Kept(i)
    BY <2>1 DEF Via
  <2> HIDE DEF Kept, New
  <2>3. Goal
    BY <2>1, <2>2
  <2> QED
    BY <2>3
<1>3. ASSUME Pops(q, r) PROVE Goal
  <2>1. r \in Seq(Items) /\ \E P : Via(q, r, P, {1})
    BY <1>3, PopsVia
  <2>2. \A i \in DOMAIN r : Kept(i)
    BY <2>1 DEF Via
  <2> HIDE DEF Kept, New
  <2>3. Goal
    BY <2>1, <2>2
  <2> QED
    BY <2>3
<1>4. ASSUME Gets(q, r, x) PROVE Goal
  <2>1. r \in Seq(Items) /\ DOMAIN r = DOMAIN q \cup {Len(q) + 1}
        /\ r[Len(q) + 1] = x /\ \A i \in DOMAIN q : r[i] = q[i]
    BY <1>4, GetsFacts
  <2>2. \A i \in DOMAIN r : r[i] = x \/ (i \in DOMAIN q /\ r[i] = q[i])
    BY <2>1
  <2>3. \A i \in DOMAIN r : New(i) \/ Kept(i)
    BY <1>4, <2>2
  <2> HIDE DEF Kept, New
  <2>4. Goal
    BY <2>1, <2>3
  <2> QED
    BY <2>4
<1>5. Goal
  <2> HIDE DEF Goal
  <2> QED
    BY <1>1, <1>2, <1>3, <1>4
<1> QED
  BY <1>5 DEF Goal, Kept, New

LEMMA QueueKept ==
  ASSUME TypeOK, QueueInv, HomeStays,
         NEW x, Moves(x), Gets(queue, queue', x) => ItemOK(x, home')
  PROVE  QueueTypes' /\ QueueInv'
<1>1. \A y, z : ItemOK(y, home) /\ z.what = y.what /\ z.who = y.who => ItemOK(z, home')
  BY DEF ItemOK, HomeStays
<1>2. /\ queue' \in Seq(Items)
      /\ \A i \in DOMAIN queue' :
           \/ \E j \in DOMAIN queue : queue'[i].what = queue[j].what /\ queue'[i].who = queue[j].who
           \/ Gets(queue, queue', x) /\ queue'[i] = x
  BY QueueTyped, ItemsFrom DEF Moves
<1>3. \A i \in DOMAIN queue' : ItemOK(queue'[i], home')
  BY <1>1, <1>2 DEF QueueInv
<1> QED
  BY <1>2, <1>3 DEF QueueTypes, QueueInv

(* What the radio's answers and the port's notices do to the queue.        *)
Answered(what, who) ==
  IF raw THEN queue' = queue ELSE Gets(queue, queue', Item(1, what, who))

LEMMA LinkPosts ==
  ASSUME TypeOK
  PROVE  /\ LinkUp => Gets(queue, queue', Item(2, "connected", Nobody))
         /\ LinkDown => Gets(queue, queue', Item(2, "disconnected", Nobody))
BY PostsGets DEF LinkUp, LinkDown, Notices

LEMMA StartPosts ==
  ASSUME TypeOK, RadioStartsListing
  PROVE  /\ link \in Companions
         /\ \/ UNCHANGED <<queue, dump, listing>>
            \/ ~listing /\ listing' = TRUE /\ dump' \subseteq Knows[link] /\ Answered("start", Nobody)
<1>1. link \in Companions
  BY DEF RadioStartsListing, TakesCommand, TypeOK
<1>2. CASE UNCHANGED <<queue, dump, listing>>
  BY <1>1, <1>2
<1>3. CASE ~listing /\ listing' = TRUE /\ Answers("start", Nobody) /\ dump' \subseteq Knows[link]
  <2>1. Answered("start", Nobody)
    BY <1>3, AnswersGets DEF Answered, Frames
  <2> QED
    BY <1>1, <1>3, <2>1
<1> QED
  BY <1>2, <1>3 DEF RadioStartsListing

LEMMA ListPosts ==
  ASSUME TypeOK, RadioLists
  PROVE  /\ listing
         /\ \/ \E c \in dump : dump' = dump \ {c} /\ listing' = listing /\ Answered("contact", c)
            \/ dump = {} /\ dump' = {} /\ listing' = FALSE /\ Answered("end", Nobody)
<1>1. CASE dump = {} /\ listing' = FALSE /\ Answers("end", Nobody) /\ UNCHANGED dump
  <2>1. Answered("end", Nobody)
    BY <1>1, AnswersGets DEF Answered, Frames
  <2> QED
    BY <1>1, <2>1 DEF RadioLists
<1>2. ASSUME NEW c \in dump, dump' = dump \ {c}, Answers("contact", c), listing' = listing
      PROVE  Answered("contact", c)
  <2>1. c \in Nat
    BY ConstantFacts DEF TypeOK
  <2> QED
    BY <1>2, <2>1, AnswersGets DEF Answered, Frames
<1>3. listing
  BY DEF RadioLists
<1>4. \/ \E c \in dump : dump' = dump \ {c} /\ Answers("contact", c) /\ listing' = listing
      \/ dump = {} /\ listing' = FALSE /\ Answers("end", Nobody) /\ UNCHANGED dump
  BY DEF RadioLists
<1> QED
  BY <1>1, <1>2, <1>3, <1>4

LEMMA HandPosts ==
  ASSUME TypeOK, RadioHandsOver
  PROVE  /\ link \in Companions
         /\ \/ /\ inbox[link] # <<>> /\ inbox' = [inbox EXCEPT ![link] = Tail(inbox[link])]
               /\ Head(inbox[link]) = inbox[link][1] /\ 1 \in DOMAIN inbox[link]
               /\ inbox[link][1] \in Msgs
               /\ Answered("msg", inbox[link][1])
            \/ inbox' = inbox /\ Answered("no_more", Nobody)
<1>1. link \in Companions
  BY DEF RadioHandsOver, TakesCommand, TypeOK
<1>2. CASE inbox[link] # <<>> /\ inbox' = [inbox EXCEPT ![link] = Tail(@)] /\ Answers("msg", Head(inbox[link]))
  <2>1. inbox[link] \in Seq(Msgs)
    BY <1>1 DEF TypeOK
  <2>2. Head(inbox[link]) = inbox[link][1] /\ 1 \in DOMAIN inbox[link] /\ inbox[link][1] \in Msgs
    BY <1>2, <2>1
  <2>3. inbox[link][1] \in Nat
    BY <2>2, BoundsAssumption DEF Msgs
  <2>4. Answered("msg", inbox[link][1])
    BY <1>2, <2>2, <2>3, AnswersGets DEF Answered, Frames
  <2> QED
    BY <1>1, <1>2, <2>2, <2>4
<1>3. CASE Answers("no_more", Nobody) /\ UNCHANGED inbox
  <2>1. Answered("no_more", Nobody)
    BY <1>3, AnswersGets DEF Answered, Frames
  <2> QED
    BY <1>1, <1>3, <2>1
<1> QED
  BY <1>2, <1>3 DEF RadioHandsOver

LEMMA ArrivePosts ==
  ASSUME TypeOK, NEW c \in Companions, MessageArrives(c)
  PROVE  queue' = queue \/ (link = c /\ Gets(queue, queue', Item(1, "waiting", Nobody)))
<1>1. CASE link = c /\ Answers("waiting", Nobody)
  BY <1>1, AnswersGets DEF Answered, Frames
<1> QED
  BY <1>1 DEF MessageArrives

LEMMA QueueStep ==
  ASSUME TypeOK, QueueInv, HomeInv, Next
  PROVE  QueueTypes' /\ QueueInv'
<1>0. HomeStays
  BY HomesStay
<1>1. CASE queue' = queue
  BY <1>0, <1>1, QueueKept, QueueTyped DEF Moves, Gets, ItemOK
<1>2. CASE Turns(queue, queue') \/ Pops(queue, queue')
  <2>1. ItemOK(Item(2, "connected", Nobody), home')
    BY DEF ItemOK, Item
  <2> QED
    BY <1>0, <1>2, <2>1, QueueKept DEF Moves
<1>3. ASSUME NEW x, Gets(queue, queue', x), ItemOK(x, home')
      PROVE  QueueTypes' /\ QueueInv'
  BY <1>0, <1>3, QueueKept DEF Moves
<1>4. CASE Quiet
  <2>1. \A x : Harmless(x) => ItemOK(x, home')
    BY DEF Harmless, ItemOK, Signals
  <2> QED
    BY <1>1, <1>2, <1>3, <1>4, <2>1 DEF Quiet
<1>5. CASE HandleSelfInfo \/ HandleDisconnected \/ HandleMsg \/ HandleContactsStart \/ HandleContact
           \/ HandleContactsEnd
  <2>1. Pops(queue, queue')
    BY <1>5, HandlesPops DEF HandleSelfInfo, HandleDisconnected, HandleMsg, HandleContactsStart,
      HandleContact, HandleContactsEnd
  <2> QED
    BY <2>1, <1>2
<1>6. ASSUME NEW what, NEW who, Answered(what, who), ItemOK(Item(1, what, who), home')
      PROVE  QueueTypes' /\ QueueInv'
  BY <1>1, <1>3, <1>6 DEF Answered
<1>7. CASE LinkUp \/ LinkDown
  BY <1>3, <1>7, LinkPosts DEF ItemOK, Item
<1>8. CASE RadioStartsListing
  <2>1. ItemOK(Item(1, "start", Nobody), home')
    BY DEF ItemOK, Item
  <2> QED
    BY <1>1, <1>6, <1>8, <2>1, StartPosts
<1>9. CASE RadioLists
  <2>1. ItemOK(Item(1, "end", Nobody), home')
    BY DEF ItemOK, Item
  <2>2. \A c \in dump : ItemOK(Item(1, "contact", c), home')
    BY DEF ItemOK, Item, TypeOK
  <2> QED
    BY <1>6, <1>9, <2>1, <2>2, ListPosts
<1>10. CASE RadioHandsOver
  <2>1. ItemOK(Item(1, "no_more", Nobody), home')
    BY DEF ItemOK, Item
  <2>2. link \in Companions
    BY <1>10, HandPosts
  <2>3. ASSUME 1 \in DOMAIN inbox[link], inbox[link][1] \in Msgs
        PROVE  ItemOK(Item(1, "msg", inbox[link][1]), home')
    <3>1. home[inbox[link][1]].radio = link /\ link # Nobody
      BY <2>2, <2>3, CompanionsAssumption DEF HomeInv
    <3>2. home'[inbox[link][1]].radio # Nobody
      BY <2>3, <3>1, <1>0 DEF HomeStays
    <3> QED
      BY <2>3, <3>2 DEF ItemOK, Item
  <2> QED
    BY <1>6, <1>10, <2>1, <2>2, <2>3, HandPosts
<1>11. ASSUME NEW c \in Companions, MessageArrives(c)
       PROVE  QueueTypes' /\ QueueInv'
  <2>1. ItemOK(Item(1, "waiting", Nobody), home')
    BY DEF ItemOK, Item
  <2> QED
    BY <1>1, <1>3, <1>11, <2>1, ArrivePosts
<1> QED
  BY <1>4, <1>5, <1>7, <1>8, <1>9, <1>10, <1>11, NextCases DEF Special

LEMMA HomeStep ==
  ASSUME TypeOK, QueueInv, HomeInv, Next
  PROVE  HomeInv'
<1> USE DEF lists, store, flags, timers, linkVars, radioVars, vars
<1>0. RadioTyped
  BY TypeParts
<1>1. CASE UNCHANGED <<inbox, home>>
  BY <1>1 DEF HomeInv
<1>2. CASE RadioHandsOver
  <2>1. CASE inbox' = inbox
    BY <1>1, <1>2, <2>1 DEF RadioHandsOver
  <2>2. CASE link \in Companions /\ inbox[link] # <<>> /\ inbox' = [inbox EXCEPT ![link] = Tail(inbox[link])]
    <3>1. inbox[link] \in Seq(Msgs)
      BY <1>0, <2>2 DEF RadioTyped
    <3>2. DOMAIN Tail(inbox[link]) = 1 .. Len(inbox[link]) - 1
          /\ \A i \in 1 .. Len(inbox[link]) - 1 : Tail(inbox[link])[i] = inbox[link][i + 1]
                                               /\ i + 1 \in DOMAIN inbox[link]
      BY <2>2, <3>1
    <3>3. \A c \in Companions : inbox'[c] = IF c = link THEN Tail(inbox[link]) ELSE inbox[c]
      BY <1>0, <2>2 DEF RadioTyped
    <3>4. home' = home
      BY <1>2 DEF RadioHandsOver
    <3>5. \A c \in Companions : \A i \in DOMAIN inbox'[c] : home[inbox'[c][i]].radio = c
      BY <2>2, <3>2, <3>3 DEF HomeInv
    <3> QED
      BY <3>4, <3>5 DEF HomeInv
  <2> QED
    BY <1>2, <2>1, <2>2, HandPosts
<1>3. ASSUME NEW c \in Companions, MessageArrives(c)
      PROVE  HomeInv'
  <2>1. PICK m \in Msgs, who \in Knows[c] :
          /\ home[m].radio = Nobody
          /\ home' = [home EXCEPT ![m] = [radio |-> c, by |-> who]]
          /\ inbox' = [inbox EXCEPT ![c] = Append(inbox[c], m)]
    BY <1>3 DEF MessageArrives
  <2>2. \A n \in Msgs : home'[n] = IF n = m THEN [radio |-> c, by |-> who] ELSE home[n]
    BY <1>0, <2>1 DEF RadioTyped
  <2>3. \A d \in Companions : inbox'[d] = IF d = c THEN Append(inbox[c], m) ELSE inbox[d]
    BY <1>0, <2>1 DEF RadioTyped
  <2>4. \A d \in Companions : inbox[d] \in Seq(Msgs)
    BY <1>0 DEF RadioTyped
  <2>5. \A n \in Msgs : home'[n].radio # Nobody => home'[n].by \in Knows[home'[n].radio]
    BY <2>2, <2>1 DEF HomeInv
  <2>6. \A d \in Companions : \A i \in DOMAIN inbox[d] :
          inbox[d][i] \in Msgs /\ inbox[d][i] # m /\ home'[inbox[d][i]].radio = d
    <3>1. \A d \in Companions : \A i \in DOMAIN inbox[d] : inbox[d][i] \in Msgs /\ home[inbox[d][i]].radio = d
      BY <2>4 DEF HomeInv
    <3> QED
      BY <3>1, <2>1, <2>2, ConstantFacts
  <2>7. \A i \in DOMAIN inbox'[c] : home'[inbox'[c][i]].radio = c
    <3>1. \A i \in DOMAIN inbox'[c] : \/ i \in DOMAIN inbox[c] /\ inbox'[c][i] = inbox[c][i]
                                      \/ inbox'[c][i] = m
      <4>1. PICK t \in Seq(Msgs) : t = inbox[c]
        BY <2>4
      <4>2. \A i \in DOMAIN Append(t, m) : \/ i \in DOMAIN t /\ Append(t, m)[i] = t[i]
                                           \/ Append(t, m)[i] = m
        OBVIOUS
      <4>3. inbox'[c] = Append(t, m)
        BY <2>3, <4>1
      <4> QED
        BY <4>1, <4>2, <4>3
    <3> QED
      BY <3>1, <2>2, <2>6
  <2> QED
    BY <2>3, <2>5, <2>6, <2>7 DEF HomeInv
<1>4. CASE Quiet
  BY <1>1, <1>4 DEF Quiet
<1>5. CASE \/ HandleSelfInfo \/ HandleDisconnected \/ HandleMsg
           \/ HandleContactsStart \/ HandleContact \/ HandleContactsEnd
           \/ LinkUp \/ LinkDown \/ RadioStartsListing \/ RadioLists
  <2>1. UNCHANGED <<inbox, home>>
    BY <1>5 DEF HandleSelfInfo, HandleDisconnected, HandleMsg, HandleContactsStart, HandleContact,
      HandleContactsEnd, LinkUp, LinkDown, RadioStartsListing, RadioLists
  <2> QED
    BY <2>1, <1>1
<1> QED
  BY <1>2, <1>3, <1>4, <1>5, NextCases DEF Special

LEMMA TypesInit == Init => Types
<1> SUFFICES ASSUME Init PROVE Types
  OBVIOUS
<1>1. /\ <<>> \in Seq(Items) /\ <<>> \in Seq(Entries) /\ <<>> \in Seq(Commands) /\ <<>> \in Seq(Msgs)
      /\ DOMAIN <<>> = {}
  OBVIOUS
<1>2. TypeOK
  <2>1. QueueTypes /\ ListsTyped /\ StoreTyped
    BY <1>1 DEF Init, QueueTypes, ListsTyped, StoreTyped
  <2>2. FlagsTyped /\ LinkTyped
    <3>1. 0 \in 0 .. MaxRetries /\ 0 \in 0 .. NLinks
      BY BoundsAssumption
    <3>2. FlagsTyped
      BY <3>1 DEF Init, FlagsTyped
    <3>3. LinkTyped
      BY <3>1 DEF Init, LinkTyped
    <3> QED
      BY <3>2, <3>3
  <2>3. RadioTyped
    BY <1>1 DEF Init, RadioTyped
  <2> QED
    BY <2>1, <2>2, <2>3, TypeParts
<1>3. QueueInv /\ HomeInv
  BY <1>1 DEF Init, QueueInv, HomeInv
<1> QED
  BY <1>2, <1>3 DEF Types

LEMMA TypesStep == Types /\ [Next]_vars => Types'
<1> SUFFICES ASSUME Types, [Next]_vars PROVE Types'
  OBVIOUS
<1>1. CASE Next
  BY <1>1, QueueStep, HomeStep, FlagsStep, LinkStep, RadioStep, ListsStep, StoreStep, TypeParts DEF Types
<1>2. CASE UNCHANGED vars
  BY <1>2 DEF vars, flags, timers, lists, store, linkVars, radioVars, Types, TypeOK, QueueInv, HomeInv
<1> QED
  BY <1>1, <1>2
-----------------------------------------------------------------------------
(* A message is in one place.                                              *)

(* The messages of r are on their way in q, each at a place of its own.    *)
Carries(q, r, P) ==
  /\ \A i \in DOMAIN r : OnItsWay(r, i) => OnItsWay(q, P[i]) /\ r[i].who = q[P[i]].who
  /\ \A i, j \in DOMAIN r : OnItsWay(r, i) /\ OnItsWay(r, j) /\ P[i] = P[j] => i = j

LEMMA MovesCarry ==
  ASSUME NEW q \in Seq(Items), NEW r, NEW x,
         r = q \/ Turns(q, r) \/ Pops(q, r) \/ (Gets(q, r, x) /\ x.what # "msg")
  PROVE  \E P : Carries(q, r, P)
<1>1. CASE Turns(q, r)
  BY <1>1, TurnsVia DEF Via, Carries, OnItsWay
<1>2. CASE Pops(q, r)
  <2>1. PICK P : Via(q, r, P, {1})
    BY <1>2, PopsVia
  <2>2. Carries(q, r, P)
    BY <2>1 DEF Via, Carries, OnItsWay
  <2> QED
    BY <2>2
<1>3. CASE r = q \/ (Gets(q, r, x) /\ x.what # "msg")
  <2> DEFINE P == [i \in DOMAIN r |-> i]
  <2>1. \A i \in DOMAIN r : P[i] = i /\ (OnItsWay(r, i) => i \in DOMAIN q /\ r[i] = q[i])
    <3>1. CASE r = q
      BY <3>1
    <3>2. CASE Gets(q, r, x) /\ x.what # "msg"
      <4>1. DOMAIN r = DOMAIN q \cup {Len(q) + 1} /\ r[Len(q) + 1] = x
            /\ \A i \in DOMAIN q : r[i] = q[i]
        BY <3>2, GetsFacts
      <4> QED
        BY <3>2, <4>1 DEF OnItsWay
    <3> QED
      BY <1>3, <3>1, <3>2
  <2> HIDE DEF P
  <2> WITNESS P
  <2> QED
    BY <2>1 DEF Carries, OnItsWay
<1> QED
  BY <1>1, <1>2, <1>3

LEMMA OnceKept ==
  ASSUME OnceInv, NEW P, Carries(queue, queue', P), UNCHANGED <<inbox, db, home>>
  PROVE  OnceInv'
<1>1. \A i \in DOMAIN queue' : OnItsWay(queue', i) => /\ P[i] \in DOMAIN queue /\ OnItsWay(queue, P[i])
                                                      /\ queue'[i].who = queue[P[i]].who
  BY DEF Carries, OnItsWay
<1>2. \A i, j \in DOMAIN queue' : OnItsWay(queue', i) /\ OnItsWay(queue', j) /\ P[i] = P[j] => i = j
  BY DEF Carries
<1>3. \A i, j \in DOMAIN queue' :
        OnItsWay(queue', i) /\ OnItsWay(queue', j) /\ queue'[i].who = queue'[j].who => i = j
  BY <1>1, <1>2 DEF OnceInv
<1>4. \A i \in DOMAIN queue' : OnItsWay(queue', i) => ~Saved(db, queue'[i].who)
  BY <1>1 DEF OnceInv
<1>5. \A c \in Companions : \A i \in DOMAIN inbox[c] :
        \A j \in DOMAIN queue' : OnItsWay(queue', j) => queue'[j].who # inbox[c][i]
  BY <1>1 DEF OnceInv
<1>6. \A c \in Companions : \A i \in DOMAIN inbox[c] : ~Saved(db, inbox[c][i])
  BY DEF OnceInv
<1>7. /\ \A c \in Companions : \A i, j \in DOMAIN inbox[c] : inbox[c][i] = inbox[c][j] => i = j
      /\ \A m \in Msgs : home[m].radio = Nobody => ~Saved(db, m)
  BY DEF OnceInv
<1> QED
  BY <1>3, <1>4, <1>5, <1>6, <1>7 DEF OnceInv

LEMMA OnceHandled ==
  ASSUME Types, OnceInv, HandleMsg
  PROVE  OnceInv'
<1>1. Pops(queue, queue') /\ queue[1].what = "msg" /\ 1 \in DOMAIN queue /\ Subject = queue[1].who
  BY HandlesPops DEF HandleMsg, Types
<1>2. PICK P : Via(queue, queue', P, {1})
  BY <1>1, PopsVia, QueueTyped DEF Types
<1>3. \A m : Saved(db', m) => Saved(db, m) \/ m = Subject
  BY MsgShows DEF Types, Saved
<1>4. UNCHANGED <<inbox, home>> /\ Subject \in Msgs /\ home[Subject].radio # Nobody
  BY MsgShows DEF Types, HandleMsg, radioVars
<1>5. OnItsWay(queue, 1)
  BY <1>1 DEF OnItsWay
<1>6. \A i \in DOMAIN queue' : OnItsWay(queue', i) =>
        /\ P[i] \in DOMAIN queue /\ OnItsWay(queue, P[i])
        /\ queue'[i].who = queue[P[i]].who /\ queue'[i].who # Subject
  <2>1. \A i \in DOMAIN queue' : P[i] \in DOMAIN queue /\ P[i] # 1 /\ queue'[i].what = queue[P[i]].what
                               /\ queue'[i].who = queue[P[i]].who
    BY <1>2 DEF Via
  <2> QED
    BY <2>1, <1>1, <1>5 DEF OnceInv, OnItsWay
<1>7. \A i, j \in DOMAIN queue' :
        OnItsWay(queue', i) /\ OnItsWay(queue', j) /\ queue'[i].who = queue'[j].who => i = j
  BY <1>2, <1>6 DEF OnceInv, Via
<1>8. \A i \in DOMAIN queue' : OnItsWay(queue', i) => ~Saved(db', queue'[i].who)
  BY <1>3, <1>6 DEF OnceInv
<1>9. \A c \in Companions : \A i \in DOMAIN inbox[c] :
        /\ ~Saved(db', inbox[c][i])
        /\ \A j \in DOMAIN queue' : OnItsWay(queue', j) => queue'[j].who # inbox[c][i]
  <2> SUFFICES ASSUME NEW c \in Companions, NEW i \in DOMAIN inbox[c]
               PROVE  /\ ~Saved(db', inbox[c][i])
                      /\ \A j \in DOMAIN queue' : OnItsWay(queue', j) => queue'[j].who # inbox[c][i]
    OBVIOUS
  <2>1. inbox[c][i] # Subject /\ ~Saved(db, inbox[c][i])
    BY <1>1, <1>5 DEF OnceInv
  <2>2. \A j \in DOMAIN queue' : OnItsWay(queue', j) => queue'[j].who # inbox[c][i]
    BY <1>6 DEF OnceInv
  <2> QED
    BY <2>1, <2>2, <1>3
<1>10. \A m \in Msgs : home[m].radio = Nobody => ~Saved(db', m)
  BY <1>3, <1>4 DEF OnceInv
<1>11. \A c \in Companions : \A i, j \in DOMAIN inbox[c] : inbox[c][i] = inbox[c][j] => i = j
  BY DEF OnceInv
<1> QED
  BY <1>4, <1>7, <1>8, <1>9, <1>10, <1>11 DEF OnceInv
LEMMA OnceHandedOver ==
  ASSUME Types, OnceInv, RadioHandsOver
  PROVE  OnceInv'
<1> DEFINE b == inbox[link]
           m == b[1]
<1>1. link \in Companions /\ TypeOK /\ queue \in Seq(Items) /\ UNCHANGED <<db, home>>
  BY HandPosts, QueueTyped DEF Types, RadioHandsOver, store, radioVars
<1>2. CASE inbox' = inbox /\ Answered("no_more", Nobody)
  <2>1. queue' = queue \/ (Gets(queue, queue', Item(1, "no_more", Nobody)) /\ Item(1, "no_more", Nobody).what # "msg")
    BY <1>2, ItemFields DEF Answered
  <2>2. \E P : Carries(queue, queue', P)
    BY <2>1, <1>1, MovesCarry
  <2> QED
    BY <2>2, <1>1, <1>2, OnceKept
<1>3. CASE /\ b # <<>> /\ inbox' = [inbox EXCEPT ![link] = Tail(b)]
           /\ 1 \in DOMAIN b /\ m \in Msgs /\ Answered("msg", m)
  <2>1. \A c \in Companions : inbox[c] \in Seq(Msgs)
    BY <1>1 DEF TypeOK
  <2>2. \A c \in Companions : inbox'[c] = IF c = link THEN Tail(b) ELSE inbox[c]
    BY <1>1, <1>3 DEF TypeOK
  <2>3. DOMAIN Tail(b) = 1 .. Len(b) - 1 /\ \A i \in 1 .. Len(b) - 1 : /\ Tail(b)[i] = b[i + 1]
                                                                       /\ i + 1 \in DOMAIN b /\ i + 1 # 1
    <3>1. b \in Seq(Msgs)
      BY <1>1, <2>1
    <3> HIDE DEF b
    <3> QED
      BY <3>1, <1>3
  <2>4. \A c \in Companions : \A i \in DOMAIN inbox'[c] :
          \E j \in DOMAIN inbox[c] : inbox'[c][i] = inbox[c][j] /\ (c = link => j = i + 1)
                                                             /\ (c # link => j = i)
    BY <2>2, <2>3, <1>1
  <2>5. m \in Msgs /\ home[m].radio = link /\ link # Nobody /\ ~Saved(db, m)
    BY <1>1, <1>3, CompanionsAssumption DEF HomeInv, Types, OnceInv
  <2>6. \A c \in Companions : \A i \in DOMAIN inbox'[c] : inbox'[c][i] # m
    <3> SUFFICES ASSUME NEW c \in Companions, NEW i \in DOMAIN inbox'[c] PROVE inbox'[c][i] # m
      OBVIOUS
    <3>1. CASE c = link
      <4>1. inbox'[c][i] = b[i + 1] /\ i + 1 \in DOMAIN b /\ i + 1 # 1
        BY <3>1, <2>2, <2>3
      <4> QED
        BY <4>1, <1>1, <1>3 DEF OnceInv
    <3>2. CASE c # link
      <4>1. inbox'[c] = inbox[c]
        BY <3>2, <2>2
      <4>2. home[inbox[c][i]].radio = c
        BY <4>1 DEF HomeInv, Types
      <4> QED
        BY <3>2, <4>1, <4>2, <2>5
    <3> QED
      BY <3>1, <3>2
  <2>7. \A c \in Companions : \A i, j \in DOMAIN inbox'[c] : inbox'[c][i] = inbox'[c][j] => i = j
    <3> SUFFICES ASSUME NEW c \in Companions, NEW i \in DOMAIN inbox'[c], NEW j \in DOMAIN inbox'[c],
                        inbox'[c][i] = inbox'[c][j]
                 PROVE  i = j
      OBVIOUS
    <3>1. CASE c = link
      <4>1. /\ i \in 1 .. Len(b) - 1 /\ j \in 1 .. Len(b) - 1
            /\ b[i + 1] = b[j + 1] /\ i + 1 \in DOMAIN b /\ j + 1 \in DOMAIN b
        BY <3>1, <2>2, <2>3
      <4>2. i + 1 = j + 1
        BY <4>1, <1>1 DEF OnceInv
      <4> QED
        BY <4>1, <4>2
    <3>2. CASE c # link
      BY <3>2, <2>2 DEF OnceInv
    <3> QED
      BY <3>1, <3>2
  <2>8. \A c \in Companions : \A i \in DOMAIN inbox'[c] : ~Saved(db, inbox'[c][i])
    BY <2>4 DEF OnceInv
  <2>9. \A c \in Companions : \A i \in DOMAIN inbox'[c] :
          \A j \in DOMAIN queue : OnItsWay(queue, j) => queue[j].who # inbox'[c][i]
    BY <2>4 DEF OnceInv
  <2>10. \A j \in DOMAIN queue : OnItsWay(queue, j) => queue[j].who # m
    BY <1>1, <1>3 DEF OnceInv
  <2>11. CASE queue' = queue
    <3>1. \A i, j \in DOMAIN queue :
            OnItsWay(queue, i) /\ OnItsWay(queue, j) /\ queue[i].who = queue[j].who => i = j
      BY DEF OnceInv
    <3>2. \A i \in DOMAIN queue : OnItsWay(queue, i) => ~Saved(db, queue[i].who)
      BY DEF OnceInv
    <3>3. \A n \in Msgs : home[n].radio = Nobody => ~Saved(db, n)
      BY DEF OnceInv
    <3> QED
      BY <1>1, <2>7, <2>8, <2>9, <2>11, <3>1, <3>2, <3>3 DEF OnceInv
  <2>12. CASE Gets(queue, queue', Item(1, "msg", m))
    <3> DEFINE k == Len(queue) + 1
    <3>1. /\ DOMAIN queue' = DOMAIN queue \cup {k} /\ k \notin DOMAIN queue
          /\ queue'[k].who = m /\ \A i \in DOMAIN queue : queue'[i] = queue[i]
      <4>1. PICK x : x = Item(1, "msg", m)
        OBVIOUS
      <4>2. Gets(queue, queue', x) /\ x.who = m
        BY <2>12, <4>1, ItemFields
      <4> HIDE DEF m
      <4> QED
        BY <4>2, <1>1, GetsFacts
    <3> HIDE DEF k, m
    <3>2. \A i \in DOMAIN queue' : OnItsWay(queue', i) =>
            \/ i = k /\ queue'[i].who = m
            \/ i \in DOMAIN queue /\ OnItsWay(queue, i) /\ queue'[i].who = queue[i].who /\ queue[i].who # m
      BY <3>1, <2>10 DEF OnItsWay
    <3>3. \A i, j \in DOMAIN queue' :
            OnItsWay(queue', i) /\ OnItsWay(queue', j) /\ queue'[i].who = queue'[j].who => i = j
      BY <3>2 DEF OnceInv
    <3>4. \A i \in DOMAIN queue' : OnItsWay(queue', i) => ~Saved(db, queue'[i].who)
      BY <3>2, <2>5 DEF OnceInv
    <3>5. \A c \in Companions : \A i \in DOMAIN inbox'[c] :
            \A j \in DOMAIN queue' : OnItsWay(queue', j) => queue'[j].who # inbox'[c][i]
      BY <3>2, <2>6, <2>9
    <3>6. \A n \in Msgs : home[n].radio = Nobody => ~Saved(db, n)
      BY DEF OnceInv
    <3> QED
      BY <1>1, <2>7, <2>8, <3>3, <3>4, <3>5, <3>6 DEF OnceInv
  <2> QED
    BY <1>3, <2>11, <2>12 DEF Answered
<1> QED
  BY <1>1, <1>2, <1>3, HandPosts

LEMMA OnceArrived ==
  ASSUME Types, OnceInv, NEW c \in Companions, MessageArrives(c)
  PROVE  OnceInv'
<1>1. TypeOK /\ queue \in Seq(Items) /\ db' = db
  BY QueueTyped DEF Types, MessageArrives, store
<1>2. PICK m \in Msgs, who \in Knows[c] :
        /\ home[m].radio = Nobody
        /\ home' = [home EXCEPT ![m] = [radio |-> c, by |-> who]]
        /\ inbox' = [inbox EXCEPT ![c] = Append(inbox[c], m)]
  BY DEF MessageArrives
<1>3. PICK t \in Seq(Msgs) : t = inbox[c]
  BY <1>1 DEF TypeOK
<1>4. \A d \in Companions : inbox'[d] = IF d = c THEN Append(t, m) ELSE inbox[d]
  BY <1>1, <1>2, <1>3 DEF TypeOK
<1>5. DOMAIN Append(t, m) = 1 .. Len(t) + 1 /\ DOMAIN t = 1 .. Len(t)
      /\ (\A i \in 1 .. Len(t) : Append(t, m)[i] = t[i]) /\ Append(t, m)[Len(t) + 1] = m
      /\ Len(t) \in Nat
  OBVIOUS
<1>6. \A d \in Companions : \A i \in DOMAIN inbox[d] : inbox[d][i] # m
  <2>1. \A d \in Companions : \A i \in DOMAIN inbox[d] : home[inbox[d][i]].radio = d /\ d # Nobody
    BY CompanionsAssumption DEF Types, HomeInv
  <2> QED
    BY <1>2, <2>1
<1>7. \A j \in DOMAIN queue : OnItsWay(queue, j) => queue[j].who # m
  BY <1>2 DEF Types, QueueInv, ItemOK, OnItsWay
<1>8. ~Saved(db, m)
  BY <1>2 DEF OnceInv
<1>9. \A d \in Companions : \A i \in DOMAIN inbox'[d] :
        \/ inbox'[d][i] = m /\ d = c /\ i = Len(t) + 1
        \/ i \in DOMAIN inbox[d] /\ inbox'[d][i] = inbox[d][i] /\ inbox[d][i] # m
  <2> SUFFICES ASSUME NEW d \in Companions, NEW i \in DOMAIN inbox'[d]
               PROVE  \/ inbox'[d][i] = m /\ d = c /\ i = Len(t) + 1
                      \/ i \in DOMAIN inbox[d] /\ inbox'[d][i] = inbox[d][i] /\ inbox[d][i] # m
    OBVIOUS
  <2>1. CASE d = c
    <3>1. inbox'[d] = Append(t, m) /\ i \in 1 .. Len(t) + 1
      BY <2>1, <1>4, <1>5
    <3>2. i = Len(t) + 1 \/ i \in 1 .. Len(t)
      BY <3>1, <1>5
    <3> QED
      BY <2>1, <3>1, <3>2, <1>3, <1>5, <1>6
  <2>2. CASE d # c
    BY <2>2, <1>4, <1>6
  <2> QED
    BY <2>1, <2>2
<1>10. \A d \in Companions : \A i, j \in DOMAIN inbox'[d] : inbox'[d][i] = inbox'[d][j] => i = j
  BY <1>9 DEF OnceInv
<1>11. \A d \in Companions : \A i \in DOMAIN inbox'[d] : ~Saved(db, inbox'[d][i])
  BY <1>8, <1>9 DEF OnceInv
<1>12. \A n \in Msgs : home'[n].radio = Nobody => ~Saved(db, n)
  <2>1. \A n \in Msgs : home'[n] = IF n = m THEN [radio |-> c, by |-> who] ELSE home[n]
    BY <1>1, <1>2 DEF TypeOK
  <2> QED
    BY <2>1, <1>8 DEF OnceInv
<1>13. PICK P : Carries(queue, queue', P)
  <2>1. queue' = queue \/ (Gets(queue, queue', Item(1, "waiting", Nobody)) /\ Item(1, "waiting", Nobody).what # "msg")
    BY <1>1, ArrivePosts, ItemFields
  <2> QED
    BY <2>1, <1>1, MovesCarry
<1>14. \A i \in DOMAIN queue' : OnItsWay(queue', i) => /\ P[i] \in DOMAIN queue /\ OnItsWay(queue, P[i])
                                                       /\ queue'[i].who = queue[P[i]].who
  BY <1>13 DEF Carries, OnItsWay
<1>15. \A i, j \in DOMAIN queue' : OnItsWay(queue', i) /\ OnItsWay(queue', j) /\ P[i] = P[j] => i = j
  BY <1>13 DEF Carries
<1>16. \A i, j \in DOMAIN queue' :
         OnItsWay(queue', i) /\ OnItsWay(queue', j) /\ queue'[i].who = queue'[j].who => i = j
  BY <1>14, <1>15 DEF OnceInv
<1>17. \A i \in DOMAIN queue' : OnItsWay(queue', i) => ~Saved(db, queue'[i].who)
  BY <1>14 DEF OnceInv
<1>18. \A d \in Companions : \A i \in DOMAIN inbox'[d] :
         \A j \in DOMAIN queue' : OnItsWay(queue', j) => queue'[j].who # inbox'[d][i]
  <2> SUFFICES ASSUME NEW d \in Companions, NEW i \in DOMAIN inbox'[d],
                      NEW j \in DOMAIN queue', OnItsWay(queue', j)
               PROVE  queue'[j].who # inbox'[d][i]
    OBVIOUS
  <2>1. P[j] \in DOMAIN queue /\ OnItsWay(queue, P[j]) /\ queue'[j].who = queue[P[j]].who
    BY <1>14
  <2>2. CASE inbox'[d][i] = m
    BY <2>1, <2>2, <1>7
  <2>3. CASE i \in DOMAIN inbox[d] /\ inbox'[d][i] = inbox[d][i]
    BY <2>1, <2>3 DEF OnceInv
  <2> QED
    BY <2>2, <2>3, <1>9
<1> QED
  BY <1>1, <1>10, <1>11, <1>12, <1>16, <1>17, <1>18 DEF OnceInv

LEMMA OnceStep ==
  ASSUME Types, OnceInv, Next
  PROVE  OnceInv'
<1> USE DEF lists, store, flags, timers, linkVars, radioVars, vars
<1>0. TypeOK /\ queue \in Seq(Items)
  BY QueueTyped DEF Types
<1>1. ASSUME UNCHANGED <<inbox, db, home>>, NEW x,
             \/ queue' = queue \/ Turns(queue, queue') \/ Pops(queue, queue')
             \/ Gets(queue, queue', x) /\ x.what # "msg"
      PROVE  OnceInv'
  <2>1. \E P : Carries(queue, queue', P)
    BY <1>0, <1>1, MovesCarry
  <2> QED
    BY <2>1, <1>1, OnceKept
<1>2. CASE Quiet
  <2>1. UNCHANGED <<inbox, db, home>>
    BY <1>2 DEF Quiet
  <2>2. \A x : Harmless(x) => x.what # "msg"
    BY DEF Harmless, Signals
  <2>3. \/ queue' = queue \/ Turns(queue, queue') \/ Pops(queue, queue')
        \/ \E x : Gets(queue, queue', x) /\ x.what # "msg"
    BY <1>2, <2>2 DEF Quiet
  <2> QED
    BY <2>1, <2>3, <1>1
<1>3. CASE HandleSelfInfo \/ HandleDisconnected \/ HandleContactsStart \/ HandleContact \/ HandleContactsEnd
  <2>1. Pops(queue, queue')
    BY <1>0, <1>3, HandlesPops DEF HandleSelfInfo, HandleDisconnected, HandleContactsStart, HandleContact,
      HandleContactsEnd
  <2>2. UNCHANGED <<inbox, db, home>>
    BY <1>3 DEF HandleSelfInfo, HandleDisconnected, HandleContactsStart, HandleContact, HandleContactsEnd
  <2> QED
    BY <2>1, <2>2, <1>1
<1>4. CASE LinkUp \/ LinkDown
  <2>1. UNCHANGED <<inbox, db, home>>
    BY <1>4 DEF LinkUp, LinkDown
  <2>2. \E x : Gets(queue, queue', x) /\ x.what # "msg"
    BY <1>0, <1>4, LinkPosts, ItemFields
  <2> QED
    BY <2>1, <2>2, <1>1
<1>5. CASE RadioStartsListing \/ RadioLists
  <2>1. UNCHANGED <<inbox, db, home>>
    BY <1>5 DEF RadioStartsListing, RadioLists
  <2>2. queue' = queue \/ \E what, who : what # "msg" /\ Answered(what, who)
    BY <1>0, <1>5, StartPosts, ListPosts
  <2>3. queue' = queue \/ \E x : Gets(queue, queue', x) /\ x.what # "msg"
    BY <2>2, ItemFields DEF Answered
  <2> QED
    BY <2>1, <2>3, <1>1
<1> QED
  BY <1>0, <1>2, <1>3, <1>4, <1>5, OnceHandled, OnceHandedOver, OnceArrived, NextCases DEF Special
-----------------------------------------------------------------------------
(* What is shown.                                                          *)

LEMMA HistsStay ==
  ASSUME NEW s, NEW d, NEW e, HistsOK(s, d), d \subseteq e
  PROVE  HistsOK(s, e)
BY DEF HistsOK, Saved

LEMMA OnceAppend ==
  ASSUME NEW h \in Seq(Msgs), NEW m \in Msgs, Once(h), \A j \in DOMAIN h : h[j] # m
  PROVE  /\ Once(Append(h, m))
         /\ \A j \in DOMAIN Append(h, m) : Append(h, m)[j] = m \/ (j \in DOMAIN h /\ Append(h, m)[j] = h[j])
<1> DEFINE r == Append(h, m)
<1>1. /\ Len(h) \in Nat /\ DOMAIN h = 1 .. Len(h) /\ DOMAIN r = 1 .. Len(h) + 1
      /\ (\A j \in 1 .. Len(h) : r[j] = h[j]) /\ r[Len(h) + 1] = m
  OBVIOUS
<1> HIDE DEF r
<1>2. \A j \in DOMAIN r : (j = Len(h) + 1 /\ r[j] = m) \/ (j \in DOMAIN h /\ r[j] = h[j])
  BY <1>1
<1>3. Once(r)
  BY <1>2 DEF Once
<1> QED
  BY <1>2, <1>3 DEF r

LEMMA ShownStep ==
  ASSUME Types, OnceInv, ShownInv, Next
  PROVE  ShownInv'
<1> USE DEF lists, store, flags, timers, linkVars, radioVars, vars
<1>0. TypeOK /\ list \in Seq(Entries) /\ old \in Seq(Entries) /\ QueueInv
  BY DEF Types, TypeOK
<1>1. ASSUME UNCHANGED lists, UNCHANGED db PROVE ShownInv'
  BY <1>1 DEF ShownInv
<1>2. CASE HandleDisconnected
  <2>1. list' = <<>> /\ old' = <<>>
    BY <1>2 DEF HandleDisconnected, ForgetCompanion
  <2>2. HistsOK(<<>>, db')
    BY DEF HistsOK
  <2> QED
    BY <2>1, <2>2 DEF ShownInv
<1>3. CASE HandleContactsStart
  <2>1. list' = <<>> /\ old' = list /\ db' = db
    BY <1>3 DEF HandleContactsStart
  <2>2. HistsOK(<<>>, db)
    BY DEF HistsOK
  <2> QED
    BY <2>1, <2>2 DEF ShownInv
<1>4. CASE HandleContact
  <2>1. Subject \in Contacts /\ Returns(Subject) /\ db' = db
    BY <1>0, <1>4, SubjectTyped DEF HandleContact
  <2>2. /\ \A i \in DOMAIN list' : \/ i \in DOMAIN list /\ list'[i] = list[i]
                                   \/ list'[i].hist = <<>>
                                   \/ \E j \in DOMAIN old : list'[i] = old[j]
        /\ \A i \in DOMAIN old' : \E j \in DOMAIN old : old'[i] = old[j]
    <3>1. PICK c \in Contacts : Returns(c)
      BY <2>1
    <3>2. /\ DOMAIN list' = DOMAIN list \cup {Len(list) + 1}
          /\ \A i \in DOMAIN list : list'[i] = list[i]
          /\ \/ list'[Len(list) + 1].hist = <<>>
             \/ \E i \in DOMAIN old : list'[Len(list) + 1] = old[i]
          /\ \A j \in DOMAIN old' : \E i \in DOMAIN old : old'[j] = old[i]
      BY <1>0, <3>1, ReturnsFacts
    <3> QED
      BY <3>2
  <2>3. Once(<<>>) /\ DOMAIN <<>> = {}
    BY DEF Once
  <2>4. HistsOK(list', db)
    BY <2>2, <2>3 DEF ShownInv, HistsOK
  <2>5. HistsOK(old', db)
    BY <2>2 DEF ShownInv, HistsOK
  <2> QED
    BY <2>1, <2>4, <2>5 DEF ShownInv
<1>5. CASE HandleContactsEnd
  <2>1. PICK s : s = list \o old
    OBVIOUS
  <2>2. list' = WithHistories(s) /\ old' = <<>> /\ db' = db
    BY <1>5, <2>1 DEF HandleContactsEnd
  <2>3. HistsOK(s, db)
    <3>1. \A i \in DOMAIN s : \/ i \in DOMAIN list /\ s[i] = list[i]
                              \/ \E j \in DOMAIN old : s[i] = old[j]
      BY <1>0, <2>1, EndFacts
    <3> QED
      BY <3>1 DEF ShownInv, HistsOK
  <2>4. CASE HasHistory(s)
    <3>1. WithHistories(s) = s
      BY <2>4 DEF WithHistories
    <3>2. HistsOK(<<>>, db)
      BY DEF HistsOK
    <3> QED
      BY <2>2, <2>3, <3>1, <3>2 DEF ShownInv
  <2>5. CASE ~HasHistory(s)
    <3>1. DOMAIN list' = DOMAIN s /\ \A i \in DOMAIN s : list'[i].hist = Rows(key, s[i].who)
      BY <1>0, <2>1, <2>2, <2>5, EndFacts
    <3>2. \A c : Once(Rows(key, c)) /\ \A j \in DOMAIN Rows(key, c) : Saved(db, Rows(key, c)[j])
      <4> SUFFICES ASSUME NEW c
                   PROVE  Once(Rows(key, c)) /\ \A j \in DOMAIN Rows(key, c) : Saved(db, Rows(key, c)[j])
        OBVIOUS
      <4>1. Once(Rows(key, c)) /\ \A j \in DOMAIN Rows(key, c) : <<key, c, Rows(key, c)[j]>> \in db
        BY RowsFacts
      <4>2. \A m : <<key, c, m>> \in db => Saved(db, m)
        BY DEF Saved
      <4> QED
        BY <4>1, <4>2
    <3>3. HistsOK(list', db) /\ HistsOK(<<>>, db)
      BY <3>1, <3>2 DEF HistsOK
    <3> QED
      BY <2>2, <3>3 DEF ShownInv
  <2> QED
    BY <2>4, <2>5
<1>6. CASE HandleMsg
  <2>8. PICK m \in Msgs : m = Subject
    BY <1>0, <1>6, MsgShows
  <2>1. PICK by : m = Subject /\ by = home[Subject].by
    BY <2>8
  <2>2. db' = db \cup {<<key, by, m>>} /\ Shows(list, list', by, m) /\ old' = old
    BY <1>0, <1>6, <2>1, MsgShows
  <2>3. Saved(db', m) /\ db \subseteq db'
    <3>1. <<key, by, m>> \in db' /\ <<key, by, m>>[3] = m /\ db \subseteq db'
      BY <2>2
    <3>2. \A row \in db' : row[3] = m => Saved(db', m)
      BY DEF Saved
    <3> QED
      BY <3>1, <3>2
  <2>4. ~Saved(db, m)
    <3>1. 1 \in DOMAIN queue /\ OnItsWay(queue, 1) /\ queue[1].who = m
      BY <1>0, <1>6, <2>1, HandlesPops DEF HandleMsg, OnItsWay
    <3> QED
      BY <3>1 DEF OnceInv
  <2>5. /\ DOMAIN list' = DOMAIN list
        /\ \A i \in DOMAIN list : list'[i].hist = list[i].hist \/ list'[i].hist = Append(list[i].hist, m)
    BY <1>0, <2>2, ShowsFacts
  <2>6. HistsOK(list, db') /\ HistsOK(old, db')
    BY <2>3, HistsStay DEF ShownInv
  <2>7. ASSUME NEW i \in DOMAIN list
        PROVE  Once(list'[i].hist) /\ \A j \in DOMAIN list'[i].hist : Saved(db', list'[i].hist[j])
    <3>1. CASE list'[i].hist = list[i].hist
      BY <3>1, <2>6 DEF HistsOK
    <3>2. CASE list'[i].hist = Append(list[i].hist, m)
      <4>1. list[i].hist \in Seq(Msgs)
        <5>1. list[i] \in Entries
          BY <1>0
        <5> QED
          BY <5>1 DEF Entries
      <4>2. Once(list[i].hist) /\ \A j \in DOMAIN list[i].hist : list[i].hist[j] # m
        BY <2>4 DEF ShownInv, HistsOK
      <4>3. \A j \in DOMAIN list[i].hist : Saved(db', list[i].hist[j])
        BY <2>6 DEF HistsOK
      <4>4. PICK h : h = list[i].hist
        OBVIOUS
      <4>5. /\ Once(Append(h, m))
            /\ \A j \in DOMAIN Append(h, m) : Append(h, m)[j] = m \/ (j \in DOMAIN h /\ Append(h, m)[j] = h[j])
        BY <4>1, <4>2, <4>4, OnceAppend
      <4>6. \A j \in DOMAIN Append(h, m) : Saved(db', Append(h, m)[j])
        BY <4>3, <4>4, <4>5, <2>3
      <4> QED
        BY <3>2, <4>4, <4>5, <4>6
    <3> QED
      BY <3>1, <3>2, <2>5
  <2> QED
    BY <2>2, <2>5, <2>6, <2>7 DEF ShownInv, HistsOK
<1>7. CASE Quiet
  BY <1>1, <1>7 DEF Quiet
<1>8. CASE \/ HandleSelfInfo \/ LinkUp \/ LinkDown \/ RadioStartsListing \/ RadioLists
           \/ RadioHandsOver \/ \E c \in Companions : MessageArrives(c)
  <2>1. UNCHANGED lists /\ UNCHANGED db
    BY <1>8 DEF HandleSelfInfo, LinkUp, LinkDown, RadioStartsListing, RadioLists, RadioHandsOver,
      MessageArrives
  <2> QED
    BY <2>1, <1>1
<1> QED
  BY <1>0, <1>2, <1>3, <1>4, <1>5, <1>6, <1>7, <1>8, NextCases DEF Special

LEMMA IInvHolds == Spec => []IInv
<1>1. Init => IInv
  <2> SUFFICES ASSUME Init PROVE IInv
    OBVIOUS
  <2>1. Types
    BY TypesInit
  <2>2. OnceInv /\ ShownInv
    BY DEF Init, OnceInv, ShownInv, HistsOK, Saved
  <2> QED
    BY <2>1, <2>2 DEF IInv
<1>2. IInv /\ [Next]_vars => IInv'
  <2> SUFFICES ASSUME IInv, [Next]_vars PROVE IInv'
    OBVIOUS
  <2>1. Types'
    BY TypesStep DEF IInv
  <2>2. CASE Next
    BY <2>1, <2>2, OnceStep, ShownStep DEF IInv
  <2>3. CASE UNCHANGED vars
    <3>1. OnceInv' /\ ShownInv'
      BY <2>3 DEF vars, flags, timers, lists, store, linkVars, radioVars, IInv, OnceInv, ShownInv
    <3> QED
      BY <2>1, <3>1 DEF IInv
  <2> QED
    BY <2>2, <2>3
<1> QED
  BY <1>1, <1>2, PTL DEF Spec

(* The variables stay within their types: no handler counts past a bound,  *)
(* files under a companion that is none or lists a contact nobody has      *)
(* (MainWindow's handlers, from _OnConnected to _HandleContactMsgRecv).    *)
THEOREM TypeCorrect == Spec => []TypeOK
<1>1. IInv => TypeOK
  BY DEF IInv, Types
<1> QED
  BY <1>1, IInvHolds, PTL

(* No message stands twice in a history, however syncs, messages and lost  *)
(* connections interleave: what was shown on arrival is not loaded from    *)
(* the database again (MainWindow::_HandleContactsEnd, _LoadMessages).     *)
THEOREM NothingTwice == Spec => []ShownOnce
<1>1. IInv => ShownOnce
  BY DEF IInv, ShownInv, HistsOK, Once, ShownOnce
<1> QED
  BY <1>1, IInvHolds, PTL
-----------------------------------------------------------------------------
(* Frames are of this link.                                                *)

LEMMA FitsKept ==
  ASSUME Types, FramesFit, Next,
         NEW x, Moves(x), Gets(queue, queue', x) => Fits(x, link, home'), link' = link
  PROVE  FramesFit'
<1>1. HomeStays
  BY HomesStay DEF Types
<1>2. \A y, z : ItemOK(y, home) /\ Fits(y, link, home) /\ z.what = y.what /\ z.who = y.who => Fits(z, link, home')
  BY <1>1 DEF ItemOK, Fits, HomeStays
<1>3. \A i \in DOMAIN queue' :
        \/ \E j \in DOMAIN queue : queue'[i].what = queue[j].what /\ queue'[i].who = queue[j].who
        \/ Gets(queue, queue', x) /\ queue'[i] = x
  BY QueueTyped, ItemsFrom DEF Moves, Types
<1>4. \A i \in DOMAIN queue' : Fits(queue'[i], link, home')
  BY <1>2, <1>3 DEF QueueInv, FramesFit, Types
<1> QED
  BY <1>4 DEF FramesFit

LEMMA HeadFits ==
  ASSUME TypeOK, LinkInv, NEW what, Handles(what)
  PROVE  /\ what \in Frames => link # Nobody
         /\ what = "disconnected" => link = Nobody
         /\ what = "self_info" => Subject = link
         /\ what = "contact" => Subject \in Knows[link]
         /\ what = "msg" => home[Subject].radio = link
<1>1. 1 \in DOMAIN queue /\ queue[1].what = what /\ Subject = queue[1].who
  BY HandlesPops
<1>2. Fits(queue[1], link, home)
  BY <1>1 DEF LinkInv, FramesFit
<1> QED
  BY <1>1, <1>2 DEF Fits, Frames

LEMMA QuietLink ==
  ASSUME Types, LinkInv, Next, Quiet
  PROVE  LinkInv'
<1>0. TypeOK /\ queue \in Seq(Items)
  BY QueueTyped DEF Types
<1>1. \E x : Moves(x) /\ (Gets(queue, queue', x) => Fits(x, link, home'))
  <2>1. CASE \E x : Gets(queue, queue', x) /\ Harmless(x)
    <3>1. \A x : Harmless(x) => Fits(x, link, home')
      BY CompanionsAssumption DEF Harmless, Fits, Signals, Frames
    <3> QED
      BY <2>1, <3>1 DEF Moves
  <2>2. CASE queue' = queue \/ Turns(queue, queue') \/ Pops(queue, queue')
    <3>1. Fits(Item(2, "connected", Nobody), link, home')
      BY DEF Fits, Item, Frames
    <3> QED
      BY <2>2, <3>1 DEF Moves
  <2> QED
    BY <2>1, <2>2 DEF Quiet
<1>2. FramesFit'
  BY <1>1, FitsKept DEF LinkInv, Quiet
<1>3. Ending => Ending'
  <2> SUFFICES ASSUME NEW k \in DOMAIN queue, queue[k].what = "disconnected"
               PROVE  \E i \in DOMAIN queue' : queue'[i].what = "disconnected"
    BY DEF Ending
  <2>1. CASE queue' = queue
    BY <2>1
  <2>2. CASE Turns(queue, queue')
    <3>1. PICK P : Via(queue, queue', P, {})
      BY <1>0, <2>2, TurnsVia
    <3>2. \E i \in DOMAIN queue' : P[i] = k
      BY <3>1 DEF Via
    <3> QED
      BY <3>1, <3>2 DEF Via
  <2>3. CASE Pops(queue, queue') /\ queue[1].what \notin Listing \cup {"disconnected"}
    <3>1. PICK P : Via(queue, queue', P, {1})
      BY <1>0, <2>3, PopsVia
    <3>2. k # 1
      BY <2>3
    <3>3. \E i \in DOMAIN queue' : P[i] = k
      BY <3>1, <3>2 DEF Via
    <3> QED
      BY <3>1, <3>3 DEF Via
  <2>4. ASSUME NEW x, Gets(queue, queue', x)
        PROVE  \E i \in DOMAIN queue' : queue'[i].what = "disconnected"
    <3>1. DOMAIN queue' = DOMAIN queue \cup {Len(queue) + 1} /\ \A i \in DOMAIN queue : queue'[i] = queue[i]
      BY <1>0, <2>4, GetsFacts
    <3> QED
      BY <3>1
  <2> QED
    BY <2>1, <2>2, <2>3, <2>4 DEF Quiet
<1>4. UNCHANGED <<link, key, list, old, dump, listing>>
  BY DEF Quiet, lists, store
<1> QED
  BY <1>2, <1>3, <1>4 DEF LinkInv, Forgotten

(* Who is in the lists after a step.                                       *)
LEMMA WhoseContact ==
  ASSUME list \in Seq(Entries), old \in Seq(Entries), NEW c \in Contacts, Returns(c)
  PROVE  Whose(list') = Whose(list) \cup {c} /\ Whose(old') \subseteq Whose(old)
<1>1. /\ DOMAIN list' = DOMAIN list \cup {Len(list) + 1}
      /\ \A i \in DOMAIN list : list'[i] = list[i]
      /\ list'[Len(list) + 1].who = c
      /\ \A j \in DOMAIN old' : \E i \in DOMAIN old : old'[j] = old[i]
  BY ReturnsFacts
<1> QED
  BY <1>1 DEF Whose

LEMMA WhoseEnd ==
  ASSUME list \in Seq(Entries), old \in Seq(Entries)
  PROVE  Whose(WithHistories(list \o old)) = Whose(list) \cup Whose(old)
<1>1. PICK s : s = list \o old
  OBVIOUS
<1>2. /\ DOMAIN WithHistories(s) = DOMAIN s
      /\ \A i \in DOMAIN s : WithHistories(s)[i].who = s[i].who
      /\ \A i \in DOMAIN list : i \in DOMAIN s /\ s[i] = list[i]
      /\ \A j \in DOMAIN old : Len(list) + j \in DOMAIN s /\ s[Len(list) + j] = old[j]
      /\ \A i \in DOMAIN s : \/ i \in DOMAIN list /\ s[i] = list[i]
                             \/ \E j \in DOMAIN old : i = Len(list) + j /\ s[i] = old[j]
  BY <1>1, EndFacts
<1>3. Whose(WithHistories(s)) = Whose(s)
  BY <1>2 DEF Whose
<1>4. Whose(s) = Whose(list) \cup Whose(old)
  <2>1. Whose(list) \cup Whose(old) \subseteq Whose(s)
    BY <1>2 DEF Whose
  <2>2. Whose(s) \subseteq Whose(list) \cup Whose(old)
    BY <1>2 DEF Whose
  <2> QED
    BY <2>1, <2>2
<1> QED
  BY <1>1, <1>3, <1>4

LEMMA WhoseMsg ==
  ASSUME NEW s \in Seq(Entries), NEW r, NEW by, NEW m \in Msgs, Shows(s, r, by, m)
  PROVE  Whose(r) = Whose(s)
<1>1. DOMAIN r = DOMAIN s /\ \A i \in DOMAIN s : /\ r[i].who = s[i].who
                                                 /\ r[i].hist = s[i].hist \/ r[i].hist = Append(s[i].hist, m)
  BY ShowsFacts
<1>2. DOMAIN r = DOMAIN s /\ \A i \in DOMAIN s : r[i].who = s[i].who
  BY <1>1
<1> QED
  BY <1>2 DEF Whose

LEMMA LinkStays ==
  ASSUME BetweenFrames, Types, LinkInv, Next
  PROVE  LinkInv'
<1> USE DEF lists, store, flags, timers, linkVars, radioVars
<1>0. TypeOK /\ QueueInv /\ HomeInv /\ queue \in Seq(Items) /\ list \in Seq(Entries) /\ old \in Seq(Entries)
  BY QueueTyped DEF Types, TypeOK
<1>1. ASSUME Pops(queue, queue'), link' = link PROVE FramesFit'
  <2>1. Fits(Item(2, "connected", Nobody), link, home')
    BY DEF Fits, Item, Frames
  <2> QED
    BY <1>1, <2>1, FitsKept DEF Moves, LinkInv
<1>2. CASE HandleSelfInfo
  <2>1. link # Nobody /\ key' = link /\ FramesFit'
    BY <1>0, <1>1, <1>2, HeadFits, HandlesPops DEF HandleSelfInfo, Frames
  <2> QED
    BY <1>2, <2>1 DEF HandleSelfInfo, LinkInv
<1>3. CASE HandleDisconnected
  <2>1. link = Nobody /\ Forgotten' /\ FramesFit'
    BY <1>0, <1>1, <1>3, HeadFits, HandlesPops DEF HandleDisconnected, ForgetCompanion, Forgotten
  <2> QED
    BY <1>3, <2>1 DEF HandleDisconnected, LinkInv
<1>4. CASE HandleMsg
  <2>1. link # Nobody /\ FramesFit'
    BY <1>0, <1>1, <1>4, HeadFits, HandlesPops DEF HandleMsg, Frames
  <2>2. Whose(list') = Whose(list) /\ old' = old /\ key' = key
    BY <1>0, <1>4, MsgShows, WhoseMsg
  <2> QED
    BY <1>4, <2>1, <2>2 DEF HandleMsg, LinkInv
<1>5. CASE HandleContactsStart
  <2>1. link # Nobody /\ FramesFit'
    BY <1>0, <1>1, <1>5, HeadFits, HandlesPops DEF HandleContactsStart, Frames
  <2>2. Whose(list') = {} /\ Whose(old') = Whose(list)
    BY <1>5 DEF HandleContactsStart, Whose
  <2> QED
    BY <1>5, <2>1, <2>2 DEF HandleContactsStart, LinkInv
<1>6. CASE HandleContact
  <2>1. link # Nobody /\ FramesFit' /\ Subject \in Knows[link] /\ Subject \in Contacts
    BY <1>0, <1>1, <1>6, HeadFits, HandlesPops, SubjectTyped DEF HandleContact, Frames
  <2>2. Whose(list') = Whose(list) \cup {Subject} /\ Whose(old') \subseteq Whose(old)
    BY <1>0, <1>6, <2>1, WhoseContact DEF HandleContact
  <2> QED
    BY <1>6, <2>1, <2>2 DEF HandleContact, LinkInv
<1>7. CASE HandleContactsEnd
  <2>1. link # Nobody /\ FramesFit'
    BY <1>0, <1>1, <1>7, HeadFits, HandlesPops DEF HandleContactsEnd, Frames
  <2>2. Whose(list') = Whose(list) \cup Whose(old) /\ Whose(old') = {}
    <3>1. list' = WithHistories(list \o old) /\ old' = <<>>
      BY <1>7 DEF HandleContactsEnd
    <3>2. Whose(<<>>) = {}
      BY DEF Whose
    <3> QED
      BY <1>0, <3>1, <3>2, WhoseEnd
  <2> QED
    BY <1>7, <2>1, <2>2 DEF HandleContactsEnd, LinkInv
<1>8. ASSUME NEW x, Gets(queue, queue', x)
      PROVE  /\ DOMAIN queue' = DOMAIN queue \cup {Len(queue) + 1} /\ queue'[Len(queue) + 1] = x
             /\ \A i \in DOMAIN queue : queue'[i] = queue[i]
  BY <1>0, <1>8, GetsFacts
<1>9. CASE LinkUp
  <2>1. /\ link = Nobody /\ link' \in Companions /\ link' # Nobody /\ ~Ending
        /\ UNCHANGED <<key, list, old, dump, listing, home>>
    BY <1>9, CompanionsAssumption DEF LinkUp, Ending
  <2>2. Forgotten /\ ~listing /\ dump = {}
    BY <2>1 DEF LinkInv
  <2>3. \A i \in DOMAIN queue' : queue'[i].what \notin Frames \cup {"disconnected"}
    <3>1. \A i \in DOMAIN queue : queue[i].what \notin Frames \cup {"disconnected"}
      BY <2>1 DEF LinkInv, FramesFit, Fits, Ending
    <3>2. Gets(queue, queue', Item(2, "connected", Nobody)) /\ Item(2, "connected", Nobody).what \notin Frames \cup {"disconnected"}
      BY <1>0, <1>9, LinkPosts, ItemFields DEF Frames
    <3> QED
      BY <3>1, <3>2, <1>8
  <2>4. FramesFit'
    BY <2>1, <2>3 DEF FramesFit, Fits, Frames
  <2> QED
    BY <2>1, <2>2, <2>4 DEF LinkInv, Forgotten, Whose
<1>10. CASE LinkDown
  <2>1. link' = Nobody /\ listing' = FALSE /\ dump' = {} /\ \A i \in DOMAIN queue : queue[i].what \notin Frames
    BY <1>10 DEF LinkDown, BetweenFrames
  <2>2. Gets(queue, queue', Item(2, "disconnected", Nobody)) /\ Item(2, "disconnected", Nobody).what = "disconnected"
    BY <1>0, <1>10, LinkPosts, ItemFields
  <2>3. Ending' /\ \A i \in DOMAIN queue' : queue'[i].what \notin Frames
    BY <2>1, <2>2, <1>8 DEF Ending, Frames
  <2> QED
    BY <2>1, <2>3 DEF LinkInv, FramesFit, Fits
<1>11. ASSUME NEW what, NEW who, Answered(what, who), link' = link, Fits(Item(1, what, who), link, home')
       PROVE  FramesFit'
  BY <1>11, FitsKept DEF Answered, Moves, LinkInv
<1>12. CASE RadioStartsListing
  <2>1. UNCHANGED <<link, key, list, old, home>> /\ link \in Companions /\ link # Nobody
    BY <1>0, <1>12, StartPosts, CompanionsAssumption DEF RadioStartsListing
  <2>2. CASE UNCHANGED <<queue, dump, listing>>
    BY <2>1, <2>2 DEF LinkInv, FramesFit, Forgotten, Ending
  <2>3. CASE listing' = TRUE /\ dump' \subseteq Knows[link] /\ Answered("start", Nobody)
    <3>1. Fits(Item(1, "start", Nobody), link, home')
      BY <2>1 DEF Fits, Item
    <3>2. FramesFit'
      BY <2>1, <2>3, <3>1, <1>11
    <3> QED
      BY <2>1, <2>3, <3>2 DEF LinkInv
  <2> QED
    BY <1>0, <1>12, <2>2, <2>3, StartPosts
<1>13. CASE RadioLists
  <2>1. UNCHANGED <<link, key, list, old, home>> /\ link # Nobody /\ dump \subseteq Knows[link] /\ listing
    BY <1>0, <1>13, ListPosts DEF RadioLists, LinkInv
  <2>2. ASSUME NEW c \in dump, dump' = dump \ {c}, listing' = listing, Answered("contact", c)
        PROVE  LinkInv'
    <3>1. Fits(Item(1, "contact", c), link, home')
      BY <2>1 DEF Fits, Item
    <3>2. FramesFit'
      BY <2>1, <2>2, <3>1, <1>11
    <3> QED
      BY <2>1, <2>2, <3>2 DEF LinkInv
  <2>3. CASE dump = {} /\ dump' = {} /\ listing' = FALSE /\ Answered("end", Nobody)
    <3>1. Fits(Item(1, "end", Nobody), link, home')
      BY <2>1 DEF Fits, Item
    <3>2. FramesFit'
      BY <2>1, <2>3, <3>1, <1>11
    <3> QED
      BY <2>1, <2>3, <3>2 DEF LinkInv
  <2> QED
    BY <1>0, <1>13, <2>2, <2>3, ListPosts
<1>14. CASE RadioHandsOver
  <2>1. UNCHANGED <<link, key, list, old, home, dump, listing>> /\ link \in Companions /\ link # Nobody
    BY <1>0, <1>14, HandPosts, CompanionsAssumption DEF RadioHandsOver
  <2>2. FramesFit'
    <3>1. CASE Answered("no_more", Nobody)
      <4>1. Fits(Item(1, "no_more", Nobody), link, home')
        BY <2>1 DEF Fits, Item
      <4> QED
        BY <2>1, <3>1, <4>1, <1>11
    <3>2. CASE 1 \in DOMAIN inbox[link] /\ Answered("msg", inbox[link][1])
      <4>1. Fits(Item(1, "msg", inbox[link][1]), link, home')
        BY <1>0, <2>1, <3>2 DEF Fits, Item, HomeInv
      <4> QED
        BY <2>1, <3>2, <4>1, <1>11
    <3> QED
      BY <1>0, <1>14, <3>1, <3>2, HandPosts
  <2> QED
    BY <2>1, <2>2 DEF LinkInv
<1>15. ASSUME NEW c \in Companions, MessageArrives(c)
       PROVE  LinkInv'
  <2>1. UNCHANGED <<link, key, list, old, dump, listing>>
    BY <1>15 DEF MessageArrives
  <2>2. /\ Moves(Item(1, "waiting", Nobody))
        /\ Gets(queue, queue', Item(1, "waiting", Nobody)) => link # Nobody
        /\ queue' # queue => link # Nobody
    <3>1. queue' = queue \/ (link = c /\ Gets(queue, queue', Item(1, "waiting", Nobody)))
      BY <1>0, <1>15, ArrivePosts
    <3>2. ~ (queue' = queue /\ Gets(queue, queue', Item(1, "waiting", Nobody)))
      BY <1>0, <1>8, GetsFacts
    <3> QED
      BY <3>1, <3>2, CompanionsAssumption DEF Moves
  <2>3. Gets(queue, queue', Item(1, "waiting", Nobody)) => Fits(Item(1, "waiting", Nobody), link, home')
    BY <2>2 DEF Fits, Item
  <2>4. FramesFit'
    BY <2>1, <2>2, <2>3, FitsKept DEF LinkInv
  <2>5. link = Nobody /\ Ending => Ending'
    BY <2>2 DEF Ending
  <2> QED
    BY <2>1, <2>4, <2>5 DEF LinkInv, Forgotten
<1> QED
  BY <1>0, <1>2, <1>3, <1>4, <1>5, <1>6, <1>7, <1>9, <1>10, <1>12, <1>13, <1>14, <1>15,
     QuietLink, NextCases DEF Special
-----------------------------------------------------------------------------
(* The order of a listing.                                                 *)

(* Every other frame of q is one of r, in the same order, behind the one   *)
(* that is taken.                                                          *)
Taken(q, r, P) ==
  /\ 1 \in DOMAIN q /\ \A k \in DOMAIN q : ~Before(q, k, 1) /\ (k # 1 => Before(q, 1, k))
  /\ \A i \in Starts(r) : P[i] \in Starts(q) /\ P[i] # 1
  /\ \A i \in Ends(r) : P[i] \in Ends(q) /\ P[i] # 1
  /\ \A i \in Lines(r) : P[i] \in Lines(q) /\ P[i] # 1 /\ r[i].who = q[P[i]].who
  /\ \A k \in Starts(q) : k # 1 => \E i \in Starts(r) : P[i] = k
  /\ \A k \in Ends(q) : k # 1 => \E i \in Ends(r) : P[i] = k
  /\ \A i, j \in Lists(r) : Before(r, i, j) <=> Before(q, P[i], P[j])

LEMMA PopsTaken ==
  ASSUME NEW q \in Seq(Items), NEW r, Pops(q, r)
  PROVE  \E P : Taken(q, r, P)
<1>1. PICK P : Via(q, r, P, {1})
  BY PopsVia
<1>2. 1 \in DOMAIN q /\ q[1].hop = 2
  BY DEF Pops
<1>3. \A k \in DOMAIN q : k \in Int /\ k >= 1 /\ q[k].hop \in {1, 2}
  BY ItemAt
<1>4. \A k \in DOMAIN q : ~Before(q, k, 1) /\ (k # 1 => Before(q, 1, k))
  BY <1>2, <1>3 DEF Before
<1>5. /\ \A i \in DOMAIN r : P[i] \in DOMAIN q /\ P[i] # 1 /\ r[i].what = q[P[i]].what /\ r[i].who = q[P[i]].who
      /\ \A k \in DOMAIN q : k # 1 => \E i \in DOMAIN r : P[i] = k
      /\ \A i, j \in DOMAIN r : Before(r, i, j) <=> Before(q, P[i], P[j])
  BY <1>1 DEF Via
<1>6. /\ \A i \in Starts(r) : P[i] \in Starts(q) /\ P[i] # 1
      /\ \A i \in Ends(r) : P[i] \in Ends(q) /\ P[i] # 1
      /\ \A i \in Lines(r) : P[i] \in Lines(q) /\ P[i] # 1 /\ r[i].who = q[P[i]].who
  BY <1>5 DEF Starts, Ends, Lines
<1>7. /\ \A k \in Starts(q) : k # 1 => \E i \in Starts(r) : P[i] = k
      /\ \A k \in Ends(q) : k # 1 => \E i \in Ends(r) : P[i] = k
  BY <1>5 DEF Starts, Ends
<1>8. \A i, j \in Lists(r) : Before(r, i, j) <=> Before(q, P[i], P[j])
  BY <1>5 DEF Lists
<1>9. Taken(q, r, P)
  BY <1>2, <1>4, <1>6, <1>7, <1>8, Zenon DEF Taken
<1> QED
  BY <1>9

LEMMA Kinds ==
  ASSUME NEW q
  PROVE  /\ Starts(q) \subseteq Lists(q) /\ Ends(q) \subseteq Lists(q) /\ Lines(q) \subseteq Lists(q)
         /\ Lists(q) \subseteq DOMAIN q
BY DEF Starts, Ends, Lines, Lists, Listing

LEMMA TakenOrder ==
  ASSUME NEW q, NEW r, NEW P, Taken(q, r, P), OrderOK(q)
  PROVE  OrderOK(r)
<1>1. \A i, j \in Starts(r) : Before(r, i, j) => \E k \in Ends(r) : Before(r, i, k) /\ Before(r, k, j)
  <2> SUFFICES ASSUME NEW i \in Starts(r), NEW j \in Starts(r), Before(r, i, j)
               PROVE  \E k \in Ends(r) : Before(r, i, k) /\ Before(r, k, j)
    OBVIOUS
  <2>1. P[i] \in Starts(q) /\ P[j] \in Starts(q) /\ Before(q, P[i], P[j])
    BY Kinds DEF Taken
  <2>2. PICK k \in Ends(q) : Before(q, P[i], k) /\ Before(q, k, P[j])
    BY <2>1 DEF OrderOK
  <2>3. k # 1
    BY <2>1, <2>2, Kinds DEF Taken
  <2>4. PICK n \in Ends(r) : P[n] = k
    BY <2>3 DEF Taken
  <2> QED
    BY <2>2, <2>4, Kinds DEF Taken
<1>2. \A i, j \in Lines(r) : Before(r, i, j) /\ r[i].who = r[j].who =>
        \E k \in Starts(r) : Before(r, i, k) /\ Before(r, k, j)
  <2> SUFFICES ASSUME NEW i \in Lines(r), NEW j \in Lines(r), Before(r, i, j), r[i].who = r[j].who
               PROVE  \E k \in Starts(r) : Before(r, i, k) /\ Before(r, k, j)
    OBVIOUS
  <2>1. P[i] \in Lines(q) /\ P[j] \in Lines(q) /\ Before(q, P[i], P[j]) /\ q[P[i]].who = q[P[j]].who
    BY Kinds DEF Taken
  <2>2. PICK k \in Starts(q) : Before(q, P[i], k) /\ Before(q, k, P[j])
    BY <2>1 DEF OrderOK
  <2>3. k # 1
    BY <2>1, <2>2, Kinds DEF Taken
  <2>4. PICK n \in Starts(r) : P[n] = k
    BY <2>3 DEF Taken
  <2> QED
    BY <2>2, <2>4, Kinds DEF Taken
<1>3. \A i \in Ends(r), j \in Lines(r) : Before(r, i, j) =>
        \E k \in Starts(r) : Before(r, i, k) /\ Before(r, k, j)
  <2> SUFFICES ASSUME NEW i \in Ends(r), NEW j \in Lines(r), Before(r, i, j)
               PROVE  \E k \in Starts(r) : Before(r, i, k) /\ Before(r, k, j)
    OBVIOUS
  <2>1. P[i] \in Ends(q) /\ P[j] \in Lines(q) /\ Before(q, P[i], P[j])
    BY Kinds DEF Taken
  <2>2. PICK k \in Starts(q) : Before(q, P[i], k) /\ Before(q, k, P[j])
    BY <2>1 DEF OrderOK
  <2>3. k # 1
    BY <2>1, <2>2, Kinds DEF Taken
  <2>4. PICK n \in Starts(r) : P[n] = k
    BY <2>3 DEF Taken
  <2> QED
    BY <2>2, <2>4, Kinds DEF Taken
<1> QED
  BY <1>1, <1>2, <1>3 DEF OrderOK

(* What follows a frame of r in q follows it in r.                         *)
LEMMA TakenAfter ==
  ASSUME NEW q, NEW r, NEW P, Taken(q, r, P), NEW i \in Lists(r), P[i] \in DOMAIN q
  PROVE  /\ \A k \in Starts(q) : Before(q, P[i], k) => \E n \in Starts(r) : Before(r, i, n)
         /\ \A k \in Ends(q) : Before(q, P[i], k) => \E n \in Ends(r) : Before(r, i, n)
<1>1. \A k \in DOMAIN q : Before(q, P[i], k) => k # 1
  BY DEF Taken
<1>2. \A n \in Lists(r) : Before(r, i, n) <=> Before(q, P[i], P[n])
  BY DEF Taken
<1>3. \A k \in Starts(q) : k # 1 => \E n \in Starts(r) : P[n] = k
  BY DEF Taken
<1>4. \A k \in Ends(q) : k # 1 => \E n \in Ends(r) : P[n] = k
  BY DEF Taken
<1> QED
  BY <1>1, <1>2, <1>3, <1>4, Kinds

LEMMA TakenBusy ==
  ASSUME NEW q, NEW r, NEW P, Taken(q, r, P)
  PROVE  /\ BusyOK(q) => BusyOK(r)
         /\ \A p, n : IdleOK(q, p) /\ (n => Ends(r) # {}) => IdleOK(r, n)
         /\ \A d, l, m : DumpOK(q, d, l) /\ (\A c \in d : c \in m => Starts(r) # {}) => DumpOK(r, d, m)
<1>1. /\ \A i \in Starts(r) : i \in Lists(r) /\ P[i] \in Starts(q) /\ P[i] \in DOMAIN q
      /\ \A i \in Ends(r) : i \in Lists(r) /\ P[i] \in Ends(q) /\ P[i] \in DOMAIN q
      /\ \A i \in Lines(r) : i \in Lists(r) /\ P[i] \in Lines(q) /\ P[i] \in DOMAIN q /\ r[i].who = q[P[i]].who
  BY Kinds DEF Taken
<1>2. BusyOK(q) => BusyOK(r)
  BY <1>1, TakenAfter DEF BusyOK
<1>3. \A p, n : IdleOK(q, p) /\ (n => Ends(r) # {}) => IdleOK(r, n)
  BY <1>1, TakenAfter DEF IdleOK
<1>4. \A d, l, m : DumpOK(q, d, l) /\ (\A c \in d : c \in m => Starts(r) # {}) => DumpOK(r, d, m)
  BY <1>1, TakenAfter DEF DumpOK
<1> QED
  BY <1>2, <1>3, <1>4

(* A start is taken: what it parks, an end brings back before the next.    *)
LEMMA TakeStart ==
  ASSUME NEW q, NEW r, NEW P, Taken(q, r, P), 1 \in Starts(q), OrderOK(q)
  PROVE  /\ \A l : ~ListOK(q, l, TRUE)
         /\ \A n : ListOK(r, {}, n)
         /\ \A p, n : IdleOK(q, p) => IdleOK(r, n)
         /\ \A d, l : DumpOK(q, d, l) => DumpOK(r, d, {})
<1>1. \A l : ~ListOK(q, l, TRUE)
  BY Kinds DEF ListOK, Taken
<1>2. \A i \in Starts(r) : \E k \in Ends(r) : Before(r, k, i)
  <2> SUFFICES ASSUME NEW i \in Starts(r) PROVE \E k \in Ends(r) : Before(r, k, i)
    OBVIOUS
  <2>1. P[i] \in Starts(q) /\ Before(q, 1, P[i])
    BY Kinds DEF Taken
  <2>2. PICK k \in Ends(q) : Before(q, 1, k) /\ Before(q, k, P[i])
    BY <2>1 DEF OrderOK
  <2>3. k # 1
    BY <2>2, Kinds DEF Taken
  <2>4. PICK n \in Ends(r) : P[n] = k
    BY <2>3 DEF Taken
  <2> QED
    BY <2>2, <2>4, Kinds DEF Taken
<1>3. \A p, n : IdleOK(q, p) => IdleOK(r, n)
  <2> SUFFICES ASSUME NEW p, NEW n, IdleOK(q, p) PROVE IdleOK(r, n)
    OBVIOUS
  <2>1. PICK k \in Ends(q) : Before(q, 1, k)
    BY DEF IdleOK
  <2>2. k # 1
    BY <2>1, Kinds DEF Taken
  <2>3. Ends(r) # {}
    BY <2>2 DEF Taken
  <2> QED
    BY <2>3, TakenBusy
<1>4. \A d, l : DumpOK(q, d, l) => DumpOK(r, d, {})
  BY TakenBusy
<1>5. \A n : ListOK(r, {}, n)
  BY <1>2 DEF ListOK
<1> QED
  BY <1>1, <1>3, <1>4, <1>5

(* A line is taken: it is not listed, and no other follows without a start. *)
LEMMA TakeLine ==
  ASSUME NEW q, NEW r, NEW P, Taken(q, r, P), 1 \in Lines(q), OrderOK(q),
         NEW l, NEW p \in BOOLEAN, ListOK(q, l, p), NEW n \in BOOLEAN, n => p
  PROVE  /\ q[1].who \notin l
         /\ ListOK(r, l \cup {q[1].who}, n)
         /\ IdleOK(q, p) => IdleOK(r, n)
         /\ \A d : DumpOK(q, d, l) => DumpOK(r, d, l \cup {q[1].who})
<1>1. 1 \notin Starts(q) /\ 1 \notin Ends(q)
  BY DEF Starts, Ends, Lines
<1>2. q[1].who \notin l
  BY Kinds DEF ListOK, Taken
<1>3. n => \A i \in Starts(r) : \E k \in Ends(r) : Before(r, k, i)
  <2> SUFFICES ASSUME n, NEW i \in Starts(r) PROVE \E k \in Ends(r) : Before(r, k, i)
    OBVIOUS
  <2>1. P[i] \in Starts(q)
    BY DEF Taken
  <2>2. PICK k \in Ends(q) : Before(q, k, P[i])
    BY <2>1 DEF ListOK
  <2>3. PICK m \in Ends(r) : P[m] = k
    BY <1>1 DEF Taken
  <2> QED
    BY <2>2, <2>3, Kinds DEF Taken
<1>4. ASSUME NEW i \in Lines(r), r[i].who \in l \cup {q[1].who}
      PROVE  \E k \in Starts(r) : Before(r, k, i)
  <2>1. P[i] \in Lines(q) /\ P[i] # 1 /\ Before(q, 1, P[i]) /\ q[P[i]].who = r[i].who
    BY Kinds DEF Taken
  <2>2. \E k \in Starts(q) : Before(q, k, P[i])
    <3>1. CASE r[i].who \in l
      BY <2>1, <3>1 DEF ListOK
    <3>2. CASE r[i].who = q[1].who
      BY <2>1, <3>2 DEF OrderOK
    <3> QED
      BY <1>4, <3>1, <3>2
  <2>3. PICK k \in Starts(q) : Before(q, k, P[i])
    BY <2>2
  <2>4. PICK m \in Starts(r) : P[m] = k
    BY <1>1 DEF Taken
  <2> QED
    BY <2>3, <2>4, Kinds DEF Taken
<1>5. ListOK(r, l \cup {q[1].who}, n)
  BY <1>3, <1>4 DEF ListOK
<1>6. IdleOK(q, p) => IdleOK(r, n)
  <2> SUFFICES ASSUME IdleOK(q, p) PROVE IdleOK(r, n)
    OBVIOUS
  <2>1. n => Ends(r) # {}
    BY <1>1 DEF IdleOK, Taken
  <2> QED
    BY <2>1, TakenBusy
<1>7. ASSUME NEW d, DumpOK(q, d, l) PROVE DumpOK(r, d, l \cup {q[1].who})
  <2>1. \A c \in d : c \in l \cup {q[1].who} => Starts(q) # {}
    BY <1>7 DEF DumpOK
  <2>2. Starts(q) # {} => Starts(r) # {}
    BY <1>1 DEF Taken
  <2> QED
    BY <1>7, <2>1, <2>2, TakenBusy
<1> QED
  BY <1>2, <1>5, <1>6, <1>7

(* An end is taken: no line follows without a start.                       *)
LEMMA TakeEnd ==
  ASSUME NEW q, NEW r, NEW P, Taken(q, r, P), 1 \in Ends(q), OrderOK(q)
  PROVE  /\ \A m : ListOK(r, m, FALSE)
         /\ \A p : IdleOK(q, p) => IdleOK(r, FALSE)
         /\ \A d, l, m : DumpOK(q, d, l) /\ (d # {} => BusyOK(q)) => DumpOK(r, d, m)
<1>1. ASSUME NEW i \in Lines(r) PROVE \E k \in Starts(r) : Before(r, k, i)
  <2>1. P[i] \in Lines(q) /\ P[i] # 1 /\ Before(q, 1, P[i])
    BY Kinds DEF Taken
  <2>2. PICK k \in Starts(q) : Before(q, 1, k) /\ Before(q, k, P[i])
    BY <2>1 DEF OrderOK
  <2>3. k # 1
    BY <2>2, Kinds DEF Taken
  <2>4. PICK m \in Starts(r) : P[m] = k
    BY <2>3 DEF Taken
  <2> QED
    BY <2>2, <2>4, Kinds DEF Taken
<1>2. \A m : ListOK(r, m, FALSE)
  BY <1>1 DEF ListOK
<1>3. \A p : IdleOK(q, p) => IdleOK(r, FALSE)
  BY TakenBusy
<1>4. ASSUME NEW d, NEW l, NEW m, DumpOK(q, d, l), d # {} => BusyOK(q)
      PROVE  DumpOK(r, d, m)
  <2>1. d # {} => Starts(r) # {}
    <3> SUFFICES ASSUME d # {} PROVE Starts(r) # {}
      OBVIOUS
    <3>1. PICK k \in Starts(q) : Before(q, 1, k)
      BY <1>4 DEF BusyOK
    <3>2. k # 1
      BY <3>1, Kinds DEF Taken
    <3> QED
      BY <3>2 DEF Taken
  <2> QED
    BY <1>4, <2>1, TakenBusy
<1> QED
  BY <1>2, <1>3, <1>4

(* x is put at the end, where every frame is before it.                    *)
Added(q, r, n, x) ==
  /\ n \notin Lists(q)
  /\ Starts(r) = Starts(q) \cup IF x.what = "start" THEN {n} ELSE {}
  /\ Lines(r) = Lines(q) \cup IF x.what = "contact" THEN {n} ELSE {}
  /\ Ends(r) = Ends(q) \cup IF x.what = "end" THEN {n} ELSE {}
  /\ \A i \in Lists(q) : r[i] = q[i] /\ Before(r, i, n) /\ ~Before(r, n, i)
  /\ \A i, j \in Lists(q) : Before(r, i, j) <=> Before(q, i, j)
  /\ r[n] = x /\ ~Before(r, n, n)

LEMMA GetsAdded ==
  ASSUME NEW q \in Seq(Items), NEW r, NEW x, Gets(q, r, x), x.hop = 1
  PROVE  \E n : Added(q, r, n, x)
<1>0. PICK n \in Nat : n = Len(q) + 1
  OBVIOUS
<1>1. /\ DOMAIN r = DOMAIN q \cup {n} /\ n \notin DOMAIN q
      /\ r[n] = x
      /\ \A i \in DOMAIN q : r[i] = q[i] /\ Before(r, i, n) /\ ~Before(r, n, i)
      /\ \A i, j \in DOMAIN q : Before(r, i, j) <=> Before(q, i, j)
  <2>1. /\ DOMAIN r = DOMAIN q \cup {Len(q) + 1} /\ Len(q) + 1 \notin DOMAIN q
        /\ r[Len(q) + 1] = x
        /\ \A i \in DOMAIN q : r[i] = q[i]
        /\ \A i, j \in DOMAIN q : Before(r, i, j) <=> Before(q, i, j)
        /\ \A i \in DOMAIN q : Before(r, i, Len(q) + 1) /\ ~Before(r, Len(q) + 1, i)
    BY GetsFacts
  <2> QED
    BY <2>1, <1>0
<1>2. ~Before(r, n, n)
  BY <1>0, <1>1 DEF Before
<1>3. Starts(r) = Starts(q) \cup IF x.what = "start" THEN {n} ELSE {}
  BY <1>1 DEF Starts
<1>4. Lines(r) = Lines(q) \cup IF x.what = "contact" THEN {n} ELSE {}
  BY <1>1 DEF Lines
<1>5. Ends(r) = Ends(q) \cup IF x.what = "end" THEN {n} ELSE {}
  BY <1>1 DEF Ends
<1>6. Lists(q) \subseteq DOMAIN q
  BY Kinds
<1>7. Added(q, r, n, x)
  BY <1>1, <1>2, <1>3, <1>4, <1>5, <1>6 DEF Added
<1> QED
  BY <1>7

LEMMA AddStart ==
  ASSUME NEW q, NEW r, NEW n, NEW x, Added(q, r, n, x), x.what = "start",
         OrderOK(q), NEW l, NEW p \in BOOLEAN, ListOK(q, l, p), IdleOK(q, p)
  PROVE  OrderOK(r) /\ ListOK(r, l, p) /\ BusyOK(r) /\ \A d : DumpOK(r, d, l)
<1>1. /\ Starts(r) = Starts(q) \cup {n} /\ Lines(r) = Lines(q) /\ Ends(r) = Ends(q)
      /\ Starts(q) \subseteq Lists(q) /\ Lines(q) \subseteq Lists(q) /\ Ends(q) \subseteq Lists(q)
      /\ \A i \in Lists(q) : r[i] = q[i] /\ Before(r, i, n) /\ ~Before(r, n, i)
      /\ \A i, j \in Lists(q) : Before(r, i, j) <=> Before(q, i, j)
      /\ ~Before(r, n, n)
  BY Kinds DEF Added
<1>2. OrderOK(r)
  <2>1. \A i, j \in Starts(r) : Before(r, i, j) => \E k \in Ends(r) : Before(r, i, k) /\ Before(r, k, j)
    BY <1>1 DEF OrderOK, IdleOK
  <2>2. \A i, j \in Lines(r) : Before(r, i, j) /\ r[i].who = r[j].who =>
          \E k \in Starts(r) : Before(r, i, k) /\ Before(r, k, j)
    BY <1>1 DEF OrderOK
  <2>3. \A i \in Ends(r), j \in Lines(r) : Before(r, i, j) =>
          \E k \in Starts(r) : Before(r, i, k) /\ Before(r, k, j)
    BY <1>1 DEF OrderOK
  <2> QED
    BY <2>1, <2>2, <2>3 DEF OrderOK
<1>3. ListOK(r, l, p)
  <2>1. p => \A i \in Starts(r) : \E k \in Ends(r) : Before(r, k, i)
    BY <1>1 DEF ListOK, IdleOK
  <2>2. \A i \in Lines(r) : r[i].who \in l => \E k \in Starts(r) : Before(r, k, i)
    BY <1>1 DEF ListOK
  <2> QED
    BY <2>1, <2>2 DEF ListOK
<1>4. BusyOK(r) /\ \A d : DumpOK(r, d, l)
  BY <1>1 DEF BusyOK, DumpOK
<1> QED
  BY <1>2, <1>3, <1>4

LEMMA AddLine ==
  ASSUME NEW q, NEW r, NEW n, NEW x, Added(q, r, n, x), x.what = "contact",
         OrderOK(q), NEW l, NEW p \in BOOLEAN, ListOK(q, l, p), BusyOK(q),
         NEW d, x.who \in d, DumpOK(q, d, l)
  PROVE  OrderOK(r) /\ ListOK(r, l, p) /\ BusyOK(r) /\ DumpOK(r, d \ {x.who}, l)
<1>1. /\ Starts(r) = Starts(q) /\ Lines(r) = Lines(q) \cup {n} /\ Ends(r) = Ends(q)
      /\ Starts(q) \subseteq Lists(q) /\ Lines(q) \subseteq Lists(q) /\ Ends(q) \subseteq Lists(q)
      /\ \A i \in Lists(q) : r[i] = q[i] /\ Before(r, i, n) /\ ~Before(r, n, i)
      /\ \A i, j \in Lists(q) : Before(r, i, j) <=> Before(q, i, j)
      /\ ~Before(r, n, n) /\ r[n].who = x.who
  BY Kinds DEF Added
<1>2. OrderOK(r)
  <2>1. \A i, j \in Starts(r) : Before(r, i, j) => \E k \in Ends(r) : Before(r, i, k) /\ Before(r, k, j)
    BY <1>1 DEF OrderOK
  <2>2. \A i, j \in Lines(r) : Before(r, i, j) /\ r[i].who = r[j].who =>
          \E k \in Starts(r) : Before(r, i, k) /\ Before(r, k, j)
    BY <1>1 DEF OrderOK, DumpOK
  <2>3. \A i \in Ends(r), j \in Lines(r) : Before(r, i, j) =>
          \E k \in Starts(r) : Before(r, i, k) /\ Before(r, k, j)
    BY <1>1 DEF OrderOK, BusyOK
  <2> QED
    BY <2>1, <2>2, <2>3 DEF OrderOK
<1>3. ListOK(r, l, p)
  <2>1. p => \A i \in Starts(r) : \E k \in Ends(r) : Before(r, k, i)
    BY <1>1 DEF ListOK
  <2>2. \A i \in Lines(r) : r[i].who \in l => \E k \in Starts(r) : Before(r, k, i)
    BY <1>1 DEF ListOK, DumpOK
  <2> QED
    BY <2>1, <2>2 DEF ListOK
<1>4. BusyOK(r) /\ DumpOK(r, d \ {x.who}, l)
  BY <1>1 DEF BusyOK, DumpOK
<1> QED
  BY <1>2, <1>3, <1>4

LEMMA AddEnd ==
  ASSUME NEW q, NEW r, NEW n, NEW x, Added(q, r, n, x), x.what = "end",
         OrderOK(q), NEW l, NEW p \in BOOLEAN, ListOK(q, l, p)
  PROVE  OrderOK(r) /\ ListOK(r, l, p) /\ IdleOK(r, p) /\ DumpOK(r, {}, l)
<1>1. /\ Starts(r) = Starts(q) /\ Lines(r) = Lines(q) /\ Ends(r) = Ends(q) \cup {n}
      /\ Starts(q) \subseteq Lists(q) /\ Lines(q) \subseteq Lists(q) /\ Ends(q) \subseteq Lists(q)
      /\ \A i \in Lists(q) : r[i] = q[i] /\ Before(r, i, n) /\ ~Before(r, n, i)
      /\ \A i, j \in Lists(q) : Before(r, i, j) <=> Before(q, i, j)
  BY Kinds DEF Added
<1>2. OrderOK(r)
  <2>1. \A i, j \in Starts(r) : Before(r, i, j) => \E k \in Ends(r) : Before(r, i, k) /\ Before(r, k, j)
    BY <1>1 DEF OrderOK
  <2>2. \A i, j \in Lines(r) : Before(r, i, j) /\ r[i].who = r[j].who =>
          \E k \in Starts(r) : Before(r, i, k) /\ Before(r, k, j)
    BY <1>1 DEF OrderOK
  <2>3. \A i \in Ends(r), j \in Lines(r) : Before(r, i, j) =>
          \E k \in Starts(r) : Before(r, i, k) /\ Before(r, k, j)
    BY <1>1 DEF OrderOK
  <2> QED
    BY <2>1, <2>2, <2>3 DEF OrderOK
<1>3. ListOK(r, l, p)
  BY <1>1 DEF ListOK
<1>4. IdleOK(r, p) /\ DumpOK(r, {}, l)
  BY <1>1 DEF IdleOK, DumpOK
<1> QED
  BY <1>2, <1>3, <1>4

(* Without a listing under way everything fits.                            *)
LEMMA NoneListed ==
  ASSUME NEW r, Lists(r) = {}
  PROVE  OrderOK(r) /\ IdleOK(r, FALSE) /\ (\A l, p : ListOK(r, l, p)) /\ (\A l : DumpOK(r, {}, l))
<1>1. Starts(r) = {} /\ Lines(r) = {} /\ Ends(r) = {}
  BY Kinds
<1> QED
  BY <1>1 DEF OrderOK, IdleOK, ListOK, DumpOK

LEMMA SyncKept ==
  ASSUME TypeOK, SyncInv, Spares(queue, queue'), Whose(list') = Whose(list),
         UNCHANGED <<old, link, dump, listing>>, raw => raw'
  PROVE  SyncInv'
<1>1. PICK P : SameOrder(queue, queue', P)
  BY QueueTyped, SparesOrder
<1>2. /\ OrderOK(queue')
      /\ ListOK(queue', Whose(list), old # <<>>)
      /\ IdleOK(queue, old # <<>>) => IdleOK(queue', old # <<>>)
      /\ DumpOK(queue, dump, Whose(list)) => DumpOK(queue', dump, Whose(list))
      /\ BusyOK(queue) => BusyOK(queue')
  BY <1>1, SameStays DEF SyncInv
<1> QED
  BY <1>2 DEF SyncInv

LEMMA SyncForgets ==
  ASSUME Types, LinkInv, SyncInv, HandleDisconnected
  PROVE  SyncInv'
<1> USE DEF lists, store, flags, timers, linkVars, radioVars
<1>1. TypeOK /\ queue \in Seq(Items)
  BY QueueTyped DEF Types
<1>2. /\ link' = Nobody /\ dump' = {} /\ ~listing' /\ old' = <<>> /\ Whose(list') = {}
      /\ Pops(queue, queue') /\ queue[1].what = "disconnected"
  BY <1>1, HeadFits, HandlesPops DEF HandleDisconnected, ForgetCompanion, Whose, LinkInv
<1>3. PICK P : SameOrder(queue, queue', P)
  BY <1>1, <1>2, SparesOrder DEF Spares, Listing
<1>4. OrderOK(queue')
  BY <1>3, SameStays DEF SyncInv
<1>5. ListOK(queue', {}, FALSE) /\ DumpOK(queue', {}, {})
  BY DEF ListOK, DumpOK
<1> QED
  BY <1>2, <1>4, <1>5 DEF SyncInv

LEMMA SyncLinks ==
  ASSUME BetweenFrames, Types, LinkInv, LinkUp \/ LinkDown
  PROVE  SyncInv'
<1> USE DEF lists, store, flags, timers, linkVars, radioVars
<1>1. TypeOK /\ queue \in Seq(Items)
  BY QueueTyped DEF Types
<1>2. \A i \in DOMAIN queue : queue[i].what \notin Frames
  BY DEF LinkUp, LinkDown, BetweenFrames, LinkInv, FramesFit, Fits
<1>3. PICK x : Gets(queue, queue', x) /\ x.what \notin Frames
  <2>1. CASE LinkUp
    BY <1>1, <2>1, LinkPosts, ItemFields DEF Frames
  <2>2. CASE LinkDown
    BY <1>1, <2>2, LinkPosts, ItemFields DEF Frames
  <2> QED
    BY <2>1, <2>2
<1>4. /\ DOMAIN queue' = DOMAIN queue \cup {Len(queue) + 1} /\ queue'[Len(queue) + 1] = x
      /\ \A i \in DOMAIN queue : queue'[i] = queue[i]
  BY <1>1, <1>3, GetsFacts
<1>5. Lists(queue') = {}
  BY <1>2, <1>3, <1>4 DEF Lists, Listing, Frames
<1>6. dump' = {} /\ ~listing' /\ (link' # Nobody => old' = <<>>)
  <2>1. CASE LinkUp
    <3>1. link = Nobody /\ ~Ending /\ UNCHANGED <<old, dump, listing>>
      BY <2>1 DEF LinkUp, Ending
    <3> QED
      BY <3>1 DEF LinkInv, Forgotten
  <2>2. CASE LinkDown
    BY <2>2 DEF LinkDown
  <2> QED
    BY <2>1, <2>2
<1>7. OrderOK(queue') /\ IdleOK(queue', FALSE) /\ (\A l, p : ListOK(queue', l, p)) /\ (\A l : DumpOK(queue', {}, l))
  BY <1>5, NoneListed
<1> QED
  BY <1>6, <1>7 DEF SyncInv

LEMMA SyncLists ==
  ASSUME Types, LinkInv, SyncInv, RadioStartsListing \/ RadioLists
  PROVE  SyncInv'
<1> USE DEF lists, store, flags, timers, linkVars, radioVars
<1>1. TypeOK /\ queue \in Seq(Items)
  BY QueueTyped DEF Types
<1>2. UNCHANGED <<list, old, link, raw>>
  BY DEF RadioStartsListing, RadioLists
<1>3. ASSUME NEW what \in Listing, NEW who, Answered(what, who), ~raw
      PROVE  \E n : Added(queue, queue', n, Item(1, what, who))
  <2>1. Gets(queue, queue', Item(1, what, who)) /\ Item(1, what, who).hop = 1
    BY <1>3, ItemFields DEF Answered
  <2> QED
    BY <1>1, <2>1, GetsAdded
<1>4. ASSUME Answered("start", Nobody), ~listing, listing', link # Nobody PROVE SyncInv'
  <2>1. CASE raw
    BY <1>2, <1>4, <2>1 DEF SyncInv, Answered
  <2>2. CASE ~raw
    <3>1. PICK n : Added(queue, queue', n, Item(1, "start", Nobody))
      BY <1>3, <1>4, <2>2 DEF Listing
    <3>2. OrderOK(queue) /\ ListOK(queue, Whose(list), old # <<>>) /\ IdleOK(queue, old # <<>>)
      BY <1>4, <2>2 DEF SyncInv
    <3>3. Item(1, "start", Nobody).what = "start"
      BY ItemFields
    <3>4. /\ OrderOK(queue') /\ ListOK(queue', Whose(list), old # <<>>) /\ BusyOK(queue')
          /\ \A d : DumpOK(queue', d, Whose(list))
      BY <3>1, <3>2, <3>3, AddStart
    <3> QED
      BY <1>2, <1>4, <3>4 DEF SyncInv
  <2> QED
    BY <2>1, <2>2
<1>5. ASSUME NEW c \in dump, Answered("contact", c), listing, listing', dump' = dump \ {c} PROVE SyncInv'
  <2>1. CASE raw
    BY <1>2, <1>5, <2>1 DEF SyncInv, Answered
  <2>2. CASE ~raw
    <3>1. PICK n : Added(queue, queue', n, Item(1, "contact", c))
      BY <1>3, <1>5, <2>2 DEF Listing
    <3>2. /\ OrderOK(queue) /\ ListOK(queue, Whose(list), old # <<>>) /\ BusyOK(queue)
          /\ DumpOK(queue, dump, Whose(list))
      BY <1>5, <2>2 DEF SyncInv
    <3>3. Item(1, "contact", c).what = "contact" /\ Item(1, "contact", c).who = c
      BY ItemFields
    <3>4. /\ OrderOK(queue') /\ ListOK(queue', Whose(list), old # <<>>) /\ BusyOK(queue')
          /\ DumpOK(queue', dump \ {c}, Whose(list))
      <4>1. PICK x : x = Item(1, "contact", c)
        OBVIOUS
      <4>2. Added(queue, queue', n, x) /\ x.what = "contact" /\ x.who = c
        BY <3>1, <3>3, <4>1
      <4> QED
        BY <3>2, <4>2, AddLine
    <3> QED
      BY <1>2, <1>5, <3>4 DEF SyncInv
  <2> QED
    BY <2>1, <2>2
<1>6. ASSUME Answered("end", Nobody), dump = {}, dump' = {}, ~listing' PROVE SyncInv'
  <2>1. CASE raw
    BY <1>2, <1>6, <2>1 DEF SyncInv, Answered
  <2>2. CASE ~raw
    <3>1. PICK n : Added(queue, queue', n, Item(1, "end", Nobody))
      BY <1>3, <1>6, <2>2 DEF Listing
    <3>2. OrderOK(queue) /\ ListOK(queue, Whose(list), old # <<>>)
      BY DEF SyncInv
    <3>3. Item(1, "end", Nobody).what = "end"
      BY ItemFields
    <3>4. /\ OrderOK(queue') /\ ListOK(queue', Whose(list), old # <<>>) /\ IdleOK(queue', old # <<>>)
          /\ DumpOK(queue', {}, Whose(list))
      <4>1. PICK x : x = Item(1, "end", Nobody)
        OBVIOUS
      <4>2. PICK p \in BOOLEAN : p = (old # <<>>)
        OBVIOUS
      <4>3. Added(queue, queue', n, x) /\ x.what = "end" /\ ListOK(queue, Whose(list), p)
        BY <3>1, <3>2, <3>3, <4>1, <4>2
      <4>4. OrderOK(queue') /\ ListOK(queue', Whose(list), p) /\ IdleOK(queue', p) /\ DumpOK(queue', {}, Whose(list))
        BY <3>2, <4>3, AddEnd
      <4> QED
        BY <4>2, <4>4
    <3> QED
      BY <1>2, <1>6, <3>4 DEF SyncInv
  <2> QED
    BY <2>1, <2>2
<1>7. CASE RadioStartsListing
  <2>1. CASE UNCHANGED <<queue, dump, listing>>
    BY <1>2, <2>1 DEF SyncInv
  <2>2. CASE ~listing /\ listing' = TRUE /\ Answered("start", Nobody)
    <3>1. link # Nobody
      BY <1>1, <1>7, StartPosts, CompanionsAssumption
    <3> QED
      BY <1>4, <2>2, <3>1
  <2> QED
    BY <1>1, <1>7, <2>1, <2>2, StartPosts
<1>8. CASE RadioLists
  BY <1>1, <1>5, <1>6, <1>8, ListPosts
<1> QED
  BY <1>7, <1>8

LEMMA SyncHandles ==
  ASSUME Types, LinkInv, SyncInv,
         HandleContactsStart \/ HandleContact \/ HandleContactsEnd
  PROVE  SyncInv'
<1> USE DEF lists, store, flags, timers, linkVars, radioVars
<1>1. TypeOK /\ QueueInv /\ queue \in Seq(Items) /\ list \in Seq(Entries) /\ old \in Seq(Entries)
  BY QueueTyped DEF Types, TypeOK
<1>2. UNCHANGED <<link, raw, dump, listing>>
  BY DEF HandleContactsStart, HandleContact, HandleContactsEnd
<1>3. Pops(queue, queue') /\ 1 \in DOMAIN queue
  BY <1>1, HandlesPops DEF HandleContactsStart, HandleContact, HandleContactsEnd
<1>4. PICK P : Taken(queue, queue', P)
  BY <1>1, <1>3, PopsTaken
<1>5. OrderOK(queue')
  BY <1>4, TakenOrder DEF SyncInv
<1>6. BusyOK(queue) => BusyOK(queue')
  BY <1>4, TakenBusy
<1>7. CASE HandleContactsStart
  <2>1. 1 \in Starts(queue) /\ Whose(list') = {}
    BY <1>1, <1>7, HandlesPops DEF HandleContactsStart, Starts, Whose
  <2>2. /\ ListOK(queue', {}, old' # <<>>)
        /\ IdleOK(queue, old # <<>>) => IdleOK(queue', old' # <<>>)
        /\ DumpOK(queue, dump, Whose(list)) => DumpOK(queue', dump, {})
    BY <1>4, <2>1, TakeStart DEF SyncInv
  <2> QED
    BY <1>2, <1>5, <1>6, <2>1, <2>2 DEF SyncInv
<1>8. CASE HandleContact
  <2>1. 1 \in Lines(queue) /\ Subject = queue[1].who /\ Subject \in Contacts
    BY <1>1, <1>8, HandlesPops, SubjectTyped DEF HandleContact, Lines
  <2>2. Whose(list') = Whose(list) \cup {Subject} /\ (old' # <<>> => old # <<>>)
    <3>1. Returns(Subject)
      BY <1>8 DEF HandleContact
    <3>2. \A j \in DOMAIN old' : \E i \in DOMAIN old : old'[j] = old[i]
      BY <1>1, <2>1, <3>1, ReturnsFacts
    <3>3. old' \in Seq(Entries)
      BY <1>1, <2>1, <3>1, ReturnsFacts
    <3>4. old' # <<>> => old # <<>>
      <4>1. old' # <<>> => 1 \in DOMAIN old'
        BY <3>3
      <4> QED
        BY <3>2, <4>1
    <3> QED
      BY <1>1, <2>1, <3>1, <3>4, WhoseContact
  <2>3. /\ ListOK(queue', Whose(list) \cup {queue[1].who}, old' # <<>>)
        /\ IdleOK(queue, old # <<>>) => IdleOK(queue', old' # <<>>)
        /\ \A d : DumpOK(queue, d, Whose(list)) => DumpOK(queue', d, Whose(list) \cup {queue[1].who})
    <3>1. PICK p \in BOOLEAN : p = (old # <<>>)
      OBVIOUS
    <3>2. PICK n \in BOOLEAN : n = (old' # <<>>)
      OBVIOUS
    <3>3. ListOK(queue, Whose(list), p) /\ OrderOK(queue) /\ (n => p)
      BY <2>2, <3>1, <3>2 DEF SyncInv
    <3>4. /\ ListOK(queue', Whose(list) \cup {queue[1].who}, n)
          /\ IdleOK(queue, p) => IdleOK(queue', n)
          /\ \A d : DumpOK(queue, d, Whose(list)) => DumpOK(queue', d, Whose(list) \cup {queue[1].who})
      <4>1. PICK l : l = Whose(list)
        OBVIOUS
      <4>2. /\ Taken(queue, queue', P) /\ 1 \in Lines(queue) /\ OrderOK(queue)
            /\ ListOK(queue, l, p) /\ (n => p)
        BY <1>4, <2>1, <3>3, <4>1
      <4>3. /\ ListOK(queue', l \cup {queue[1].who}, n)
            /\ IdleOK(queue, p) => IdleOK(queue', n)
            /\ \A d : DumpOK(queue, d, l) => DumpOK(queue', d, l \cup {queue[1].who})
        BY <4>2, TakeLine
      <4> QED
        BY <4>1, <4>3
    <3> QED
      BY <3>1, <3>2, <3>4
  <2> QED
    BY <1>2, <1>5, <1>6, <2>1, <2>2, <2>3 DEF SyncInv
<1>9. CASE HandleContactsEnd
  <2>1. 1 \in Ends(queue) /\ old' = <<>>
    BY <1>1, <1>9, HandlesPops DEF HandleContactsEnd, Ends
  <2>2. /\ ListOK(queue', Whose(list'), FALSE)
        /\ IdleOK(queue, old # <<>>) => IdleOK(queue', FALSE)
        /\ \A d, l, m : DumpOK(queue, d, l) /\ (d # {} => BusyOK(queue)) => DumpOK(queue', d, m)
    BY <1>4, <2>1, TakeEnd DEF SyncInv
  <2>3. ~raw /\ dump # {} => BusyOK(queue)
    BY DEF SyncInv, LinkInv
  <2> QED
    BY <1>2, <1>5, <1>6, <2>1, <2>2, <2>3 DEF SyncInv
<1> QED
  BY <1>7, <1>8, <1>9

LEMMA SyncStays ==
  ASSUME BetweenFrames, Types, LinkInv, SyncInv, Next
  PROVE  SyncInv'
<1> USE DEF lists, store, flags, timers, linkVars, radioVars
<1>1. TypeOK /\ QueueInv /\ HomeInv /\ queue \in Seq(Items) /\ list \in Seq(Entries)
  BY QueueTyped DEF Types, TypeOK
<1>2. CASE Quiet
  <2>1. Spares(queue, queue')
    <3>1. ASSUME NEW x, Gets(queue, queue', x), Harmless(x) PROVE Spares(queue, queue')
      BY <3>1 DEF Spares, Listing, Harmless, Signals
    <3>2. ASSUME Pops(queue, queue'), queue[1].what \notin Listing \cup {"disconnected"} PROVE Spares(queue, queue')
      BY <3>2 DEF Spares
    <3> QED
      BY <1>2, <3>1, <3>2 DEF Quiet, Spares
  <2> QED
    BY <1>1, <1>2, <2>1, SyncKept DEF Quiet
<1>3. CASE HandleSelfInfo
  <2>1. Spares(queue, queue')
    BY <1>1, <1>3, HandlesPops DEF HandleSelfInfo, Spares, Listing
  <2> QED
    BY <1>1, <1>3, <2>1, SyncKept DEF HandleSelfInfo
<1>4. CASE HandleMsg
  <2>1. Spares(queue, queue')
    BY <1>1, <1>4, HandlesPops DEF HandleMsg, Spares, Listing
  <2>2. Whose(list') = Whose(list)
    BY <1>1, <1>4, MsgShows, WhoseMsg
  <2> QED
    BY <1>1, <1>4, <2>1, <2>2, SyncKept DEF HandleMsg
<1>5. CASE RadioHandsOver
  <2>1. Spares(queue, queue')
    <3>1. ASSUME NEW what, NEW who, what \notin Listing, Answered(what, who) PROVE Spares(queue, queue')
      BY <3>1, ItemFields DEF Answered, Spares
    <3> QED
      BY <1>1, <1>5, <3>1, HandPosts DEF Listing
  <2> QED
    BY <1>1, <1>5, <2>1, SyncKept DEF RadioHandsOver
<1>6. ASSUME NEW c \in Companions, MessageArrives(c) PROVE SyncInv'
  <2>1. Spares(queue, queue')
    BY <1>1, <1>6, ArrivePosts, ItemFields DEF Spares, Listing
  <2> QED
    BY <1>1, <1>6, <2>1, SyncKept DEF MessageArrives
<1> QED
  BY <1>1, <1>2, <1>3, <1>4, <1>5, <1>6, NextCases, SyncForgets, SyncLinks, SyncLists, SyncHandles DEF Special
-----------------------------------------------------------------------------
(* Lists and rows.                                                         *)

LEMMA ListsStay ==
  ASSUME Types, SyncInv, ListsInv, Next
  PROVE  ListsInv'
<1> USE DEF lists, store, flags, timers, linkVars, radioVars
<1>1. TypeOK /\ QueueInv /\ queue \in Seq(Items) /\ list \in Seq(Entries) /\ old \in Seq(Entries)
  BY QueueTyped DEF Types, TypeOK
<1>2. CASE UNCHANGED <<list, old>>
  BY <1>2 DEF ListsInv, Apart
<1>3. CASE HandleDisconnected
  BY <1>3 DEF HandleDisconnected, ForgetCompanion, ListsInv, Apart
<1>4. CASE HandleMsg
  <2>1. DOMAIN list' = DOMAIN list /\ (\A i \in DOMAIN list : list'[i].who = list[i].who) /\ old' = old
    BY <1>1, <1>4, MsgShows, ShowsFacts
  <2> QED
    BY <2>1 DEF ListsInv, Apart
<1>5. CASE HandleContactsStart
  BY <1>5 DEF HandleContactsStart, ListsInv, Apart
<1>6. CASE HandleContact
  <2>1. /\ Subject = queue[1].who /\ Subject \in Contacts /\ Returns(Subject)
        /\ 1 \in Lines(queue) /\ Pops(queue, queue')
    BY <1>1, <1>6, HandlesPops, SubjectTyped DEF HandleContact, Lines
  <2>2. Subject \notin Whose(list)
    <3>1. PICK P : Taken(queue, queue', P)
      BY <1>1, <2>1, PopsTaken
    <3>2. \A k \in Starts(queue) : ~Before(queue, k, 1)
      BY <3>1, Kinds DEF Taken
    <3> QED
      BY <2>1, <3>2 DEF SyncInv, ListOK
  <2>3. PICK c : c = Subject
    OBVIOUS
  <2>4. /\ DOMAIN list' = DOMAIN list \cup {Len(list) + 1} /\ Len(list) + 1 \notin DOMAIN list
        /\ \A i \in DOMAIN list : list'[i] = list[i]
        /\ list'[Len(list) + 1].who = c
        /\ \A j \in DOMAIN old' : \E i \in DOMAIN old : old'[j] = old[i]
        /\ Apart(old) => Apart(old') /\ \A j \in DOMAIN old' : old'[j].who # c
    BY <1>1, <2>1, <2>3, ReturnsFacts
  <2>5. /\ Apart(list) /\ Apart(old) /\ \A i \in DOMAIN list, j \in DOMAIN old : list[i].who # old[j].who
        /\ \A i \in DOMAIN list : list[i].who # c
    BY <2>2, <2>3 DEF ListsInv, Whose
  <2>6. Apart(list')
    BY <2>4, <2>5 DEF Apart
  <2>7. \A i \in DOMAIN list', j \in DOMAIN old' : list'[i].who # old'[j].who
    BY <2>4, <2>5
  <2> QED
    BY <2>4, <2>5, <2>6, <2>7 DEF ListsInv
<1>7. CASE HandleContactsEnd
  <2>1. PICK s : s = list \o old
    OBVIOUS
  <2>2. list' = WithHistories(s) /\ old' = <<>>
    BY <1>7, <2>1 DEF HandleContactsEnd
  <2>3. /\ DOMAIN WithHistories(s) = DOMAIN s
        /\ \A i \in DOMAIN s : WithHistories(s)[i].who = s[i].who
        /\ \A i \in DOMAIN s : \/ i \in DOMAIN list /\ s[i] = list[i]
                               \/ \E j \in DOMAIN old : i = Len(list) + j /\ s[i] = old[j]
    BY <1>1, <2>1, EndFacts
  <2>4. Apart(s)
    BY <2>3 DEF Apart, ListsInv
  <2>5. Apart(list')
    BY <2>2, <2>3, <2>4 DEF Apart
  <2> QED
    BY <2>2, <2>5 DEF ListsInv, Apart
<1>8. CASE HandleSelfInfo \/ LinkUp \/ LinkDown \/ RadioStartsListing \/ RadioLists \/ RadioHandsOver
  BY <1>2, <1>8 DEF HandleSelfInfo, LinkUp, LinkDown, RadioStartsListing, RadioLists, RadioHandsOver
<1>9. ASSUME NEW c \in Companions, MessageArrives(c) PROVE ListsInv'
  BY <1>2, <1>9 DEF MessageArrives
<1>10. CASE Quiet
  BY <1>2, <1>10 DEF Quiet
<1> QED
  BY <1>1, <1>3, <1>4, <1>5, <1>6, <1>7, <1>8, <1>9, <1>10, NextCases DEF Special

-----------------------------------------------------------------------------
(* A companion says who it is before it hands a message over.              *)

Talk == Seq(Commands)

(* The end of a sequence of commands, and of one that lost its first.      *)
LEMMA TalkOn ==
  ASSUME NEW s \in Talk, NEW t \in Talk
  PROVE  /\ s \o t \in Talk
         /\ \A k \in DOMAIN s : k \in DOMAIN (s \o t) /\ (s \o t)[k] = s[k]
         /\ \A k \in DOMAIN (s \o t) : k \in DOMAIN s \/ (\E j \in DOMAIN t : k = Len(s) + j /\ (s \o t)[k] = t[j])
         /\ \A j \in DOMAIN t : Len(s) + j \in DOMAIN (s \o t) /\ (s \o t)[Len(s) + j] = t[j]
         /\ Len(s) \in Nat
<1>1. /\ s \o t \in Talk /\ Len(s \o t) = Len(s) + Len(t) /\ Len(s) \in Nat /\ Len(t) \in Nat
      /\ \A i \in 1 .. Len(s) + Len(t) : (s \o t)[i] = IF i <= Len(s) THEN s[i] ELSE t[i - Len(s)]
  BY ConcatProperties, LenProperties DEF Talk
<1>2. DOMAIN s = 1 .. Len(s) /\ DOMAIN t = 1 .. Len(t) /\ DOMAIN (s \o t) = 1 .. Len(s) + Len(t)
  BY <1>1 DEF Talk
<1>3. \A k \in DOMAIN s : k \in DOMAIN (s \o t) /\ (s \o t)[k] = s[k]
  BY <1>1, <1>2
<1>4. \A j \in DOMAIN t : Len(s) + j \in DOMAIN (s \o t) /\ (s \o t)[Len(s) + j] = t[j]
  <2> SUFFICES ASSUME NEW j \in 1 .. Len(t)
               PROVE  Len(s) + j \in DOMAIN (s \o t) /\ (s \o t)[Len(s) + j] = t[j]
    BY <1>2
  <2>1. PICK k : k = Len(s) + j
    OBVIOUS
  <2>2. k \in 1 .. Len(s) + Len(t) /\ ~(k <= Len(s)) /\ k - Len(s) = j
    BY <1>1, <2>1
  <2> QED
    BY <1>1, <1>2, <2>1, <2>2
<1>5. ASSUME NEW k \in DOMAIN (s \o t)
      PROVE  k \in DOMAIN s \/ (\E j \in DOMAIN t : k = Len(s) + j /\ (s \o t)[k] = t[j])
  <2>1. k \in Int /\ k >= 1 /\ k <= Len(s) + Len(t) /\ Len(s) \in Int /\ Len(t) \in Int
    BY <1>1, <1>2
  <2>2. CASE k <= Len(s)
    BY <2>1, <2>2, <1>2
  <2>3. CASE ~(k <= Len(s))
    <3>1. PICK j : j = k - Len(s)
      OBVIOUS
    <3>2. j \in 1 .. Len(t) /\ k = Len(s) + j
      BY <2>1, <2>3, <3>1
    <3>3. (s \o t)[k] = t[j]
      BY <1>2, <1>4, <3>2
    <3> QED
      BY <1>2, <3>2, <3>3
  <2> QED
    BY <2>2, <2>3
<1> QED
  BY <1>1, <1>3, <1>4, <1>5

LEMMA TalkTail ==
  ASSUME NEW s \in Talk, s # <<>>
  PROVE  /\ Tail(s) \in Talk /\ 1 \in DOMAIN s /\ Head(s) = s[1]
         /\ \A k \in DOMAIN Tail(s) : k \in Nat /\ k + 1 \in DOMAIN s /\ Tail(s)[k] = s[k + 1]
         /\ \A k \in DOMAIN s : k \in Nat /\ (k # 1 => k - 1 \in DOMAIN Tail(s) /\ Tail(s)[k - 1] = s[k] /\ k > 1)
<1>1. /\ Tail(s) \in Talk /\ Len(s) \in Nat \ {0} /\ Len(Tail(s)) = Len(s) - 1 /\ Head(s) = s[1]
      /\ \A i \in 1 .. Len(s) - 1 : Tail(s)[i] = s[i + 1]
  BY DEF Talk
<1>2. DOMAIN s = 1 .. Len(s) /\ DOMAIN Tail(s) = 1 .. Len(s) - 1
  BY <1>1 DEF Talk
<1>3. \A k \in DOMAIN Tail(s) : k \in Nat /\ k + 1 \in DOMAIN s /\ Tail(s)[k] = s[k + 1]
  BY <1>1, <1>2
<1>4. \A k \in DOMAIN s : k \in Nat /\ (k # 1 => k - 1 \in DOMAIN Tail(s) /\ Tail(s)[k - 1] = s[k] /\ k > 1)
  <2> SUFFICES ASSUME NEW k \in 1 .. Len(s), k # 1
               PROVE  k - 1 \in DOMAIN Tail(s) /\ Tail(s)[k - 1] = s[k] /\ k > 1
    BY <1>1, <1>2
  <2>1. k - 1 \in 1 .. Len(s) - 1 /\ (k - 1) + 1 = k /\ k > 1
    BY <1>1
  <2> QED
    BY <1>1, <1>2, <2>1
<1> QED
  BY <1>1, <1>2, <1>3, <1>4

(* What a step does to the queue, with x posted or its first gone.         *)
Shifts(q, r, x) == r = q \/ Turns(q, r) \/ Pops(q, r) \/ Gets(q, r, x)

(* Every entry but the one that is gone, and x, is in both, in one order;  *)
(* what is gone had nothing before it, what is posted nothing behind it.   *)
Shifted(q, r, x, P, gone) ==
  /\ \A i \in DOMAIN r : \/ P[i] \in DOMAIN q \ gone /\ r[i].what = q[P[i]].what
                         \/ Gets(q, r, x) /\ r[i] = x
  /\ \A k \in DOMAIN q \ gone : \E i \in DOMAIN r :
       /\ P[i] = k /\ r[i].what = q[k].what
       /\ \A j \in DOMAIN r :
            \/ P[j] \in DOMAIN q /\ r[j].what = q[P[j]].what /\ (Before(r, i, j) <=> Before(q, k, P[j]))
            \/ r[j] = x /\ (x.what \in Frames => Before(r, i, j))

HeadFirst(q) == 1 \in DOMAIN q /\ \A k \in DOMAIN q : ~Before(q, k, 1)

LEMMA ShiftsFrom ==
  ASSUME NEW q \in Seq(Items), NEW r, NEW x, Shifts(q, r, x), x.what \in Frames => x.hop = 1
  PROVE  \E P, gone : Shifted(q, r, x, P, gone) /\ (gone = {} \/ (gone = {1} /\ Pops(q, r) /\ HeadFirst(q)))
<1>1. ASSUME NEW P, NEW gone, Via(q, r, P, gone) PROVE Shifted(q, r, x, P, gone)
  <2>1. \A i \in DOMAIN r : P[i] \in DOMAIN q \ gone /\ r[i].what = q[P[i]].what
    BY <1>1 DEF Via
  <2>2. ASSUME NEW k \in DOMAIN q \ gone
        PROVE  \E i \in DOMAIN r : /\ P[i] = k /\ r[i].what = q[k].what
                                   /\ \A j \in DOMAIN r : Before(r, i, j) <=> Before(q, k, P[j])
    BY <1>1, <2>2 DEF Via
  <2> QED
    BY <2>1, <2>2 DEF Shifted
<1>3. CASE Pops(q, r)
  <2>1. PICK P : Via(q, r, P, {1})
    BY <1>3, PopsVia
  <2>2. HeadFirst(q)
    BY <1>3, PopsTaken DEF Taken, HeadFirst
  <2>3. Shifted(q, r, x, P, {1})
    BY <1>1, <2>1
  <2> QED
    BY <1>3, <2>2, <2>3
<1>4. CASE ~Pops(q, r) /\ Turns(q, r)
  <2>1. PICK P : Via(q, r, P, {})
    BY <1>4, TurnsVia
  <2>2. Shifted(q, r, x, P, {})
    BY <1>1, <2>1
  <2> QED
    BY <1>4, <2>2
<1>5. CASE ~Pops(q, r) /\ r = q
  <2> DEFINE P == [i \in DOMAIN r |-> i]
  <2>1. \A i \in DOMAIN r : P[i] = i
    OBVIOUS
  <2> HIDE DEF P
  <2>2. Shifted(q, r, x, P, {})
    BY <1>5, <2>1 DEF Shifted
  <2> QED
    BY <1>5, <2>2
<1>6. CASE ~Pops(q, r) /\ Gets(q, r, x)
  <2> DEFINE P == [i \in DOMAIN r |-> i]
  <2>1. \A i \in DOMAIN r : P[i] = i
    OBVIOUS
  <2> HIDE DEF P
  <2>2. PICK n : n = Len(q) + 1
    OBVIOUS
  <2>3. /\ DOMAIN r = DOMAIN q \cup {n} /\ r[n] = x
        /\ \A i \in DOMAIN q : r[i] = q[i]
        /\ \A i, j \in DOMAIN q : Before(r, i, j) <=> Before(q, i, j)
        /\ x.what \in Frames => \A i \in DOMAIN q : Before(r, i, n)
    BY <1>6, <2>2, GetsFacts
  <2>4. Shifted(q, r, x, P, {})
    BY <1>6, <2>1, <2>3 DEF Shifted
  <2> QED
    BY <1>6, <2>4
<1> QED
  BY <1>3, <1>4, <1>5, <1>6 DEF Shifts

LEMMA NamingShifts ==
  ASSUME NEW q \in Seq(Items), NEW r, NEW x, Shifts(q, r, x), x.what \in Frames => x.hop = 1, NEW s
  PROVE  /\ x.what # "msg" /\ Letters(q) = {} => Letters(r) = {}
         /\ NotYetUp(q, s) /\ x.what # "msg" /\ (Pops(q, r) => q[1].what # "connected") => NotYetUp(r, s)
         /\ Asking(q, s) /\ x.what # "msg" => Asking(r, s)
         /\ Answering(q) /\ (Pops(q, r) => q[1].what # "self_info") => Answering(r)
         /\ Pops(q, r) /\ q[1].what \in Frames => ~NotYetUp(q, s)
<1>1. PICK P, gone : Shifted(q, r, x, P, gone) /\ (gone = {} \/ (gone = {1} /\ Pops(q, r) /\ HeadFirst(q)))
  BY ShiftsFrom
<1>2. x.what # "msg" /\ Letters(q) = {} => Letters(r) = {}
  BY <1>1 DEF Shifted, Letters
<1>3. ASSUME NotYetUp(q, s), x.what # "msg", Pops(q, r) => q[1].what # "connected"
      PROVE  NotYetUp(r, s)
  <2>1. PICK k \in DOMAIN q : q[k].what = "connected" /\ \A j \in DOMAIN q : q[j].what \in Frames => Before(q, k, j)
    BY <1>3 DEF NotYetUp
  <2>2. k \notin gone
    BY <1>1, <1>3, <2>1
  <2>3. PICK i \in DOMAIN r :
          /\ P[i] = k /\ r[i].what = q[k].what
          /\ \A j \in DOMAIN r : \/ P[j] \in DOMAIN q /\ r[j].what = q[P[j]].what
                                   /\ (Before(r, i, j) <=> Before(q, k, P[j]))
                                 \/ r[j] = x /\ (x.what \in Frames => Before(r, i, j))
    BY <1>1, <2>2 DEF Shifted
  <2>4. \A j \in DOMAIN r : r[j].what \in Frames => Before(r, i, j)
    BY <2>1, <2>3
  <2> QED
    BY <1>2, <1>3, <2>1, <2>3, <2>4 DEF NotYetUp
<1>4. Asking(q, s) /\ x.what # "msg" => Asking(r, s)
  BY <1>2 DEF Asking
<1>5. ASSUME Answering(q), Pops(q, r) => q[1].what # "self_info"
      PROVE  Answering(r)
  <2>1. PICK k \in DOMAIN q : q[k].what = "self_info" /\ \A j \in Letters(q) : Before(q, k, j)
    BY <1>5 DEF Answering
  <2>2. k \notin gone
    BY <1>1, <1>5, <2>1
  <2>3. PICK i \in DOMAIN r :
          /\ P[i] = k /\ r[i].what = q[k].what
          /\ \A j \in DOMAIN r : \/ P[j] \in DOMAIN q /\ r[j].what = q[P[j]].what
                                   /\ (Before(r, i, j) <=> Before(q, k, P[j]))
                                 \/ r[j] = x /\ (x.what \in Frames => Before(r, i, j))
    BY <1>1, <2>2 DEF Shifted
  <2>4. \A j \in DOMAIN r : r[j].what = "msg" => Before(r, i, j)
    BY <2>1, <2>3 DEF Letters, Frames
  <2>5. \A j \in Letters(r) : Before(r, i, j)
    BY <2>4 DEF Letters
  <2> QED
    BY <2>1, <2>3, <2>5 DEF Answering
<1>6. ASSUME Pops(q, r), q[1].what \in Frames, NotYetUp(q, s) PROVE FALSE
  <2>1. HeadFirst(q)
    BY <1>6, PopsTaken DEF Taken, HeadFirst
  <2> QED
    BY <1>6, <2>1 DEF HeadFirst, NotYetUp
<1> QED
  BY <1>2, <1>3, <1>4, <1>5, <1>6

(* What is said and what is served.                                        *)
LEMMA NamingSays ==
  ASSUME NEW q, NEW s \in Talk, NEW t \in Talk
  PROVE  /\ NotYetUp(q, s) /\ Asked(t) = {} => NotYetUp(q, s \o t)
         /\ Asking(q, s) => Asking(q, s \o t)
         /\ Letters(q) = {} /\ Asked(s) = {} /\ t = <<"app_start">> => Asking(q, s \o t)
<1>1. /\ \A k \in DOMAIN s : k \in DOMAIN (s \o t) /\ (s \o t)[k] = s[k] /\ k <= Len(s)
      /\ \A k \in DOMAIN (s \o t) : k \in DOMAIN s \/ (\E j \in DOMAIN t : k = Len(s) + j /\ (s \o t)[k] = t[j])
      /\ \A j \in DOMAIN t : Len(s) + j \in DOMAIN (s \o t) /\ (s \o t)[Len(s) + j] = t[j] /\ Len(s) + j > Len(s)
      /\ Len(s) \in Nat
  <2>1. (\A k \in DOMAIN s : k <= Len(s)) /\ Len(s) \in Nat /\ (\A j \in DOMAIN t : Len(s) + j > Len(s))
    BY DEF Talk
  <2> QED
    BY <2>1, TalkOn
<1>2. NotYetUp(q, s) /\ Asked(t) = {} => NotYetUp(q, s \o t)
  BY <1>1 DEF NotYetUp, Asked
<1>3. ASSUME Asking(q, s) PROVE Asking(q, s \o t)
  <2>1. PICK k \in DOMAIN s : s[k] = "app_start" /\ \A j \in Asked(s) : k < j
    BY <1>3 DEF Asking
  <2>2. ASSUME NEW j \in Asked(s \o t) PROVE k < j
    <3>1. CASE j \in DOMAIN s
      <4>1. j \in Asked(s)
        BY <1>1, <2>2, <3>1 DEF Asked
      <4> QED
        BY <2>1, <4>1
    <3>2. CASE \E i \in DOMAIN t : j = Len(s) + i
      <4>1. PICK i \in DOMAIN t : j = Len(s) + i
        BY <3>2
      <4>2. j > Len(s) /\ j \in Int /\ k \in Int /\ k <= Len(s) /\ Len(s) \in Int
        BY <1>1, <4>1 DEF Talk
      <4> QED
        BY <4>2
    <3> QED
      BY <1>1, <2>2, <3>1, <3>2 DEF Asked
  <2>3. k \in DOMAIN (s \o t) /\ (s \o t)[k] = "app_start"
    BY <1>1, <2>1
  <2> QED
    BY <1>3, <2>2, <2>3 DEF Asking
<1>4. ASSUME Letters(q) = {}, Asked(s) = {}, t = <<"app_start">> PROVE Asking(q, s \o t)
  <2>1. 1 \in DOMAIN t /\ t[1] = "app_start" /\ \A j \in DOMAIN t : t[j] = "app_start"
    BY <1>4
  <2>2. Asked(s \o t) = {}
    BY <1>1, <1>4, <2>1 DEF Asked
  <2>3. Len(s) + 1 \in DOMAIN (s \o t) /\ (s \o t)[Len(s) + 1] = "app_start"
    BY <1>1, <2>1
  <2> QED
    BY <1>4, <2>2, <2>3 DEF Asking
<1> QED
  BY <1>2, <1>3, <1>4

LEMMA NamingServed ==
  ASSUME NEW q, NEW s \in Talk, s # <<>>
  PROVE  /\ NotYetUp(q, s) => NotYetUp(q, Tail(s)) /\ Head(s) # "sync_next"
         /\ Asking(q, s) /\ Head(s) # "app_start" => Asking(q, Tail(s)) /\ Head(s) # "sync_next"
<1>1. /\ 1 \in DOMAIN s /\ Head(s) = s[1]
      /\ \A k \in DOMAIN Tail(s) : k \in Nat /\ k + 1 \in DOMAIN s /\ Tail(s)[k] = s[k + 1]
      /\ \A k \in DOMAIN s : k \in Nat /\ (k # 1 => k - 1 \in DOMAIN Tail(s) /\ Tail(s)[k - 1] = s[k] /\ k > 1)
  BY TalkTail
<1>2. \A k \in Asked(Tail(s)) : k + 1 \in Asked(s) /\ k \in Nat
  BY <1>1 DEF Asked
<1>3. ASSUME NotYetUp(q, s) PROVE NotYetUp(q, Tail(s)) /\ Head(s) # "sync_next"
  <2>1. Asked(Tail(s)) = {} /\ Head(s) # "sync_next"
    BY <1>1, <1>2, <1>3 DEF NotYetUp, Asked
  <2> QED
    BY <1>3, <2>1 DEF NotYetUp
<1>4. ASSUME Asking(q, s), Head(s) # "app_start" PROVE Asking(q, Tail(s)) /\ Head(s) # "sync_next"
  <2>1. PICK k \in DOMAIN s : s[k] = "app_start" /\ \A j \in Asked(s) : k < j
    BY <1>4 DEF Asking
  <2>2. k # 1 /\ k \in Nat /\ k > 1 /\ k - 1 \in DOMAIN Tail(s) /\ Tail(s)[k - 1] = "app_start"
    BY <1>1, <1>4, <2>1
  <2>3. \A j \in Asked(Tail(s)) : k - 1 < j
    BY <1>2, <2>1, <2>2
  <2>4. 1 \notin Asked(s)
    BY <2>1, <2>2
  <2>5. Head(s) # "sync_next"
    BY <1>1, <2>4 DEF Asked
  <2> QED
    BY <1>4, <2>2, <2>3, <2>5 DEF Asking
<1> QED
  BY <1>3, <1>4

(* What a step may say to the radio: nothing that asks for a message, but  *)
(* in answer to a frame.                                                   *)
Says(t) == t \in Talk /\ Sends(t) /\ (Asked(t) = {} \/ (Pops(queue, queue') /\ queue[1].what \in Frames))

LEMMA NoHandshake ==
  ASSUME TypeOK, NameInv, NEW x, Shifts(queue, queue', x), x.what # "handshake"
  PROVE  \A i \in DOMAIN queue' : queue'[i].what # "handshake"
<1>1. Moves(x)
  BY DEF Shifts, Moves
<1>2. \A i \in DOMAIN queue' :
        \/ \E j \in DOMAIN queue : queue'[i].what = queue[j].what /\ queue'[i].who = queue[j].who
        \/ Gets(queue, queue', x) /\ queue'[i] = x
  BY <1>1, QueueTyped, ItemsFrom DEF Moves
<1> QED
  BY <1>2 DEF NameInv

LEMMA NamesKept ==
  ASSUME TypeOK, NameInv, UNCHANGED <<link, key, raw, ready>>,
         NEW x, Shifts(queue, queue', x), x.what \in Frames => x.hop = 1,
         x.what \notin {"msg", "handshake"},
         Pops(queue, queue') => queue[1].what \notin {"connected", "self_info"},
         UNCHANGED sent \/ \E t : Says(t)
  PROVE  NameInv'
<1>1. queue \in Seq(Items) /\ sent \in Talk
  BY QueueTyped DEF TypeOK, Talk
<1>2. \A i \in DOMAIN queue' : queue'[i].what # "handshake"
  BY NoHandshake
<1>3. CASE link = Nobody
  <2>1. sent' = sent
    BY <1>3 DEF Says, Sends
  <2> QED
    BY <1>2, <1>3, <2>1 DEF NameInv
<1>4. CASE link # Nobody /\ key = link
  BY <1>2, <1>4 DEF NameInv
<1>5. CASE link # Nobody /\ key # link
  <2>1. NotYetUp(queue, sent) \/ Asking(queue, sent) \/ Answering(queue)
    BY <1>5 DEF NameInv
  <2>2. /\ NotYetUp(queue, sent) => NotYetUp(queue', sent) /\ ~(Pops(queue, queue') /\ queue[1].what \in Frames)
        /\ Asking(queue, sent) => Asking(queue', sent)
        /\ Answering(queue) => Answering(queue')
    BY <1>1, NamingShifts
  <2>3. CASE UNCHANGED sent
    BY <1>2, <1>5, <2>1, <2>2, <2>3 DEF NameInv
  <2>4. ASSUME NEW t, Says(t) PROVE NameInv'
    <3>1. sent' = sent \o t /\ t \in Talk
      BY <1>5, <2>4 DEF Says, Sends
    <3>2. /\ NotYetUp(queue', sent) /\ Asked(t) = {} => NotYetUp(queue', sent \o t)
          /\ Asking(queue', sent) => Asking(queue', sent \o t)
      BY <1>1, <3>1, NamingSays
    <3>3. NotYetUp(queue', sent') \/ Asking(queue', sent') \/ Answering(queue')
      BY <2>1, <2>2, <2>4, <3>1, <3>2 DEF Says
    <3> QED
      BY <1>2, <1>5, <3>3 DEF NameInv
  <2> QED
    BY <2>3, <2>4
<1> QED
  BY <1>3, <1>4, <1>5

(* The window.                                                             *)
LEMMA NamesHandled ==
  ASSUME TypeOK, LinkInv, NameInv, Window
  PROVE  NameInv'
<1> USE DEF lists, store, flags, timers, linkVars, radioVars
<1> DEFINE x == Item(1, "waiting", Nobody)
<1>0. x.what = "waiting" /\ x.hop = 1 /\ queue \in Seq(Items) /\ sent \in Talk
  BY ItemFields, QueueTyped DEF TypeOK, Talk
<1> HIDE DEF x
<1>1. ASSUME NEW what, Handles(what), what \notin {"connected", "self_info"}, UNCHANGED <<link, key, raw, ready>>,
             UNCHANGED sent \/ \E t \in Talk : Sends(t) /\ (Asked(t) = {} \/ what \in Frames)
      PROVE  NameInv'
  <2>1. Pops(queue, queue') /\ queue[1].what = what
    BY <1>1, HandlesPops
  <2>2. UNCHANGED sent \/ \E t : Says(t)
    BY <1>1, <2>1 DEF Says
  <2>3. Shifts(queue, queue', x)
    BY <2>1 DEF Shifts
  <2> QED
    BY <1>0, <1>1, <2>1, <2>2, <2>3, NamesKept
<1>2. /\ <<"app_start">> \in Talk /\ InitCommands \in Talk /\ <<"sync_next">> \in Talk
      /\ <<IF since = 0 THEN "get_all" ELSE "get_new">> \in Talk
      /\ Asked(<<"app_start">>) = {} /\ Asked(InitCommands) = {}
      /\ Asked(<<IF since = 0 THEN "get_all" ELSE "get_new">>) = {}
  <2>1. /\ <<"app_start">> \in Talk /\ InitCommands \in Talk /\ <<"sync_next">> \in Talk
        /\ <<IF since = 0 THEN "get_all" ELSE "get_new">> \in Talk
    BY CommandSeqs DEF Talk
  <2>2. Asked(<<"app_start">>) = {} /\ Asked(InitCommands) = {}
    BY DEF Asked, InitCommands
  <2>3. Asked(<<IF since = 0 THEN "get_all" ELSE "get_new">>) = {}
    BY DEF Asked
  <2> QED
    BY <2>1, <2>2, <2>3
<1>3. CASE ReceiveFrame
  <2>1. Turns(queue, queue') /\ ~Pops(queue, queue')
    BY <1>3 DEF ReceiveFrame, Turns, Pops
  <2> QED
    BY <1>0, <1>3, <2>1, NamesKept DEF ReceiveFrame, Shifts
<1>4. CASE HandleConnected
  <2>1. Pops(queue, queue') /\ queue[1].what = "connected" /\ UNCHANGED <<link, key, raw, ready>>
    BY <1>4, HandlesPops DEF HandleConnected
  <2>2. Sends(<<"app_start">>)
    BY <1>4 DEF HandleConnected
  <2>3. Shifts(queue, queue', x)
    BY <2>1 DEF Shifts
  <2>4. \A i \in DOMAIN queue' : queue'[i].what # "handshake"
    BY <1>0, <2>3, NoHandshake
  <2>5. CASE link = Nobody
    BY <2>1, <2>2, <2>4, <2>5 DEF NameInv, Sends
  <2>6. CASE link # Nobody
    <3>1. PICK t : t = <<"app_start">>
      OBVIOUS
    <3>2. sent' = sent \o t /\ t \in Talk
      BY <1>2, <2>2, <2>6, <3>1 DEF Sends
    <3>3. /\ NotYetUp(queue, sent) \/ Asking(queue, sent) => Letters(queue') = {}
          /\ Asking(queue, sent) => Asking(queue', sent)
          /\ Answering(queue) => Answering(queue')
      BY <1>0, <2>1, <2>3, NamingShifts DEF NotYetUp, Asking
    <3>4. /\ Asking(queue', sent) => Asking(queue', sent \o t)
          /\ Letters(queue') = {} /\ Asked(sent) = {} => Asking(queue', sent \o t)
      BY <1>0, <3>1, <3>2, NamingSays
    <3>5. key = link \/ Asking(queue', sent') \/ Answering(queue')
      BY <2>6, <3>2, <3>3, <3>4 DEF NameInv, NotYetUp
    <3> QED
      BY <2>1, <2>4, <2>6, <3>5 DEF NameInv
  <2> QED
    BY <2>5, <2>6
<1>5. CASE HandleDisconnected
  <2>1. link = Nobody /\ UNCHANGED <<link, raw, ready, sent>>
    BY <1>5, HeadFits DEF HandleDisconnected
  <2>2. Shifts(queue, queue', x)
    BY <1>5, HandlesPops DEF HandleDisconnected, Shifts
  <2>3. \A i \in DOMAIN queue' : queue'[i].what # "handshake"
    BY <1>0, <2>2, NoHandshake
  <2> QED
    BY <2>1, <2>3 DEF NameInv
<1>6. CASE HandleHandshake
  BY <1>6, HandlesPops DEF HandleHandshake, NameInv
<1>7. CASE HandleSelfInfo
  <2>1. link # Nobody /\ key' = link /\ UNCHANGED <<link, raw, ready, sent>>
    BY <1>7, HeadFits DEF HandleSelfInfo, SendsNothing, Frames
  <2>2. Shifts(queue, queue', x)
    BY <1>7, HandlesPops DEF HandleSelfInfo, Shifts
  <2>3. \A i \in DOMAIN queue' : queue'[i].what # "handshake"
    BY <1>0, <2>2, NoHandshake
  <2> QED
    BY <2>1, <2>3 DEF NameInv
<1>8. CASE HandleInit
  BY <1>1, <1>2, <1>8 DEF HandleInit, SendsNothing
<1>9. CASE HandleExportContact
  BY <1>1, <1>9 DEF HandleExportContact, SendsNothing
<1>10. CASE HandleContactsStart
  BY <1>1, <1>10 DEF HandleContactsStart, SendsNothing
<1>11. CASE HandleContact
  BY <1>1, <1>11 DEF HandleContact, SendsNothing
<1>12. CASE HandleContactsEnd
  BY <1>1, <1>2, <1>12 DEF HandleContactsEnd, Frames
<1>13. CASE HandleMsg
  BY <1>1, <1>13 DEF HandleMsg, SendsNothing
<1>14. CASE HandleNoMore
  BY <1>1, <1>14 DEF HandleNoMore
<1>15. CASE HandleMsgWaiting
  BY <1>1, <1>2, <1>15 DEF HandleMsgWaiting, Frames
<1>16. CASE HandlePathUpdated
  BY <1>1, <1>2, <1>16 DEF HandlePathUpdated, GetContacts, SendsNothing
<1> QED
  BY <1>3, <1>4, <1>5, <1>6, <1>7, <1>8, <1>9, <1>10, <1>11, <1>12, <1>13, <1>14, <1>15, <1>16 DEF Window

(* The radio, and all others.                                              *)
LEMMA NamesServed ==
  ASSUME TypeOK, NameInv, Radio
  PROVE  NameInv'
<1> USE DEF lists, store, flags, timers, linkVars, radioVars
<1>0. queue \in Seq(Items) /\ sent \in Talk /\ ~raw /\ (link # Nobody => ready)
  BY QueueTyped DEF TypeOK, Talk, NameInv
<1>1. ASSUME NEW what, NEW who, Answered(what, who)
      PROVE  /\ Gets(queue, queue', Item(1, what, who)) /\ Shifts(queue, queue', Item(1, what, who))
             /\ Item(1, what, who).hop = 1 /\ Item(1, what, who).what = what
  BY <1>0, <1>1, ItemFields DEF Answered, Shifts
<1>2. ASSUME NEW q, NEW c \in Commands, TakesCommand(c), link # Nobody, key # link
      PROVE  /\ sent # <<>> /\ Head(sent) = c /\ sent' = Tail(sent)
             /\ NotYetUp(q, sent) => NotYetUp(q, sent') /\ c # "sync_next"
             /\ Asking(q, sent) /\ c # "app_start" => Asking(q, sent') /\ c # "sync_next"
  BY <1>0, <1>2, NamingServed DEF TakesCommand
<1>3. CASE RadioBoots \/ RadioDrops
  BY <1>0, <1>3 DEF RadioBoots, RadioDrops, TakesCommand
<1>4. ASSUME NEW x, Shifts(queue, queue', x), ~Pops(queue, queue'), x.hop = 1, x.what \notin {"msg", "handshake"},
             NEW c \in Commands, c # "app_start", TakesCommand(c), UNCHANGED <<link, key, raw, ready>>
      PROVE  NameInv'
  <2>1. \A i \in DOMAIN queue' : queue'[i].what # "handshake"
    BY <1>4, NoHandshake
  <2>2. link # Nobody
    BY <1>4 DEF TakesCommand
  <2>3. CASE key = link
    BY <1>4, <2>1, <2>2, <2>3 DEF NameInv
  <2>4. CASE key # link
    <3>1. /\ NotYetUp(queue, sent') => NotYetUp(queue', sent')
          /\ Asking(queue, sent') => Asking(queue', sent')
          /\ Answering(queue) => Answering(queue')
      BY <1>0, <1>4, NamingShifts
    <3>2. NotYetUp(queue', sent') \/ Asking(queue', sent') \/ Answering(queue')
      BY <1>2, <1>4, <2>2, <2>4, <3>1 DEF NameInv
    <3> QED
      BY <1>4, <2>1, <2>2, <3>2 DEF NameInv
  <2> QED
    BY <2>3, <2>4
<1>5. \A what, who : ~(Pops(queue, queue') /\ (queue' = queue \/ Gets(queue, queue', Item(1, what, who))))
  <2>1. \A y : Gets(queue, queue', y) => Len(queue') = Len(queue) + 1
    BY <1>0 DEF Gets
  <2>2. Pops(queue, queue') => Len(queue') = Len(queue) - 1
    BY <1>0 DEF Pops
  <2>3. Len(queue) \in Nat
    BY <1>0
  <2> QED
    BY <2>1, <2>2, <2>3
<1>6. CASE RadioIntroduces
  <2>1. UNCHANGED <<link, key, raw, ready>>
    BY <1>6 DEF RadioIntroduces
  <2>2. CASE TakesCommand("export_self") /\ Answers("export", link)
    <3>1. link \in Nat
      BY CompanionsAssumption DEF TypeOK
    <3>2. Answered("export", link)
      BY <2>2, <3>1, AnswersGets DEF Answered, Frames
    <3> QED
      BY <1>1, <1>4, <1>5, <2>1, <2>2, <3>2 DEF Commands
  <2>3. CASE TakesCommand("app_start") /\ Answers("self_info", link)
    <3>1. link \in Nat /\ link # Nobody
      BY <2>3, CompanionsAssumption DEF TypeOK, TakesCommand
    <3>2. Answered("self_info", link)
      BY <2>3, <3>1, AnswersGets DEF Answered, Frames
    <3>3. PICK x : x = Item(1, "self_info", link)
      OBVIOUS
    <3>4. Gets(queue, queue', x) /\ Shifts(queue, queue', x) /\ x.hop = 1 /\ x.what = "self_info"
      BY <1>1, <3>2, <3>3
    <3>5. ~Pops(queue, queue')
      BY <1>5, <3>3, <3>4
    <3>6. \A i \in DOMAIN queue' : queue'[i].what # "handshake"
      BY <3>4, NoHandshake
    <3>7. CASE key = link
      BY <2>1, <3>1, <3>6, <3>7 DEF NameInv
    <3>8. CASE key # link
      <4>1. /\ NotYetUp(queue, sent') => NotYetUp(queue', sent')
            /\ Answering(queue) => Answering(queue')
            /\ Letters(queue) = {} => Letters(queue') = {}
        BY <1>0, <3>4, <3>5, NamingShifts
      <4>2. NotYetUp(queue, sent) => NotYetUp(queue, sent')
        BY <1>2, <2>3, <3>1, <3>8 DEF Commands
      <4>3. Asking(queue, sent) => Answering(queue')
        <5>1. /\ DOMAIN queue' = DOMAIN queue \cup {Len(queue) + 1}
              /\ queue'[Len(queue) + 1] = x /\ \A i \in DOMAIN queue : queue'[i] = queue[i]
          BY <1>0, <3>4, GetsFacts
        <5> QED
          BY <4>1, <5>1, <3>4 DEF Asking, Answering
      <4>4. NotYetUp(queue', sent') \/ Asking(queue', sent') \/ Answering(queue')
        BY <3>1, <3>8, <4>1, <4>2, <4>3 DEF NameInv
      <4> QED
        BY <2>1, <3>1, <3>6, <4>4 DEF NameInv
    <3> QED
      BY <3>7, <3>8
  <2> QED
    BY <1>6, <2>2, <2>3 DEF RadioIntroduces
<1>7. CASE RadioStartsListing
  <2>1. UNCHANGED <<link, key, raw, ready>> /\ \E c \in {"get_all", "get_new"} : TakesCommand(c)
    BY <1>7 DEF RadioStartsListing
  <2>2. PICK c \in Commands : c # "app_start" /\ TakesCommand(c)
    BY <2>1 DEF Commands
  <2>3. CASE queue' = queue
    <3>1. PICK x : x = Item(1, "start", Nobody)
      OBVIOUS
    <3>2. x.hop = 1 /\ x.what = "start" /\ Shifts(queue, queue', x) /\ ~Pops(queue, queue')
      BY <1>5, <2>3, <3>1, ItemFields DEF Shifts
    <3> QED
      BY <1>4, <2>1, <2>2, <3>2
  <2>4. CASE Answered("start", Nobody)
    BY <1>1, <1>4, <1>5, <2>1, <2>2, <2>4
  <2> QED
    BY <1>7, <2>3, <2>4, StartPosts
<1>8. CASE RadioHandsOver
  <2>1. UNCHANGED <<link, key, raw, ready>> /\ TakesCommand("sync_next") /\ link # Nobody
    BY <1>8 DEF RadioHandsOver, TakesCommand
  <2>2. CASE Answered("no_more", Nobody)
    BY <1>1, <1>4, <1>5, <2>1, <2>2 DEF Commands
  <2>3. ASSUME NEW m, Answered("msg", m) PROVE NameInv'
    <3>1. PICK x : x = Item(1, "msg", m)
      OBVIOUS
    <3>2. Gets(queue, queue', x) /\ Shifts(queue, queue', x) /\ x.hop = 1 /\ x.what = "msg"
      BY <1>1, <2>3, <3>1
    <3>3. ~Pops(queue, queue') /\ \A i \in DOMAIN queue' : queue'[i].what # "handshake"
      BY <1>5, <3>1, <3>2, NoHandshake
    <3>4. key # link => Answering(queue')
      <4>1. key # link => ~NotYetUp(queue, sent) /\ ~Asking(queue, sent)
        BY <1>2, <2>1 DEF Commands
      <4> QED
        BY <1>0, <2>1, <3>2, <3>3, <4>1, NamingShifts DEF NameInv
    <3> QED
      BY <2>1, <3>3, <3>4 DEF NameInv
  <2> QED
    BY <1>8, <2>2, <2>3, HandPosts
<1>9. CASE RadioLists
  <2>1. UNCHANGED <<link, key, raw, ready, sent>>
    BY <1>9 DEF RadioLists
  <2>2. \E what \in {"contact", "end"} : \E who : Answered(what, who)
    BY <1>9, ListPosts
  <2>3. PICK x : Shifts(queue, queue', x) /\ x.hop = 1 /\ x.what \in {"contact", "end"} /\ ~Pops(queue, queue')
    BY <1>1, <1>5, <2>2
  <2> QED
    BY <2>1, <2>3, NamesKept
<1> QED
  BY <1>3, <1>6, <1>7, <1>8, <1>9 DEF Radio, RadioServes

LEMMA NameStep ==
  ASSUME BetweenFrames, UpInTime, Types, LinkInv, NameInv, Next
  PROVE  NameInv'
<1> USE DEF lists, store, flags, timers, linkVars, radioVars
<1>0. TypeOK /\ queue \in Seq(Items) /\ sent \in Talk
  BY QueueTyped DEF Types, TypeOK, Talk
<1>1. ASSUME NEW x, queue' = queue \/ Gets(queue, queue', x), x.what \in Frames => x.hop = 1,
             x.what \notin {"msg", "handshake"}, UNCHANGED <<link, key, raw, ready>>,
             UNCHANGED sent \/ \E t : Says(t)
      PROVE  NameInv'
  <2>1. Shifts(queue, queue', x)
    BY <1>1 DEF Shifts
  <2>2. ~Pops(queue, queue')
    <3>1. Gets(queue, queue', x) => Len(queue') = Len(queue) + 1
      BY <1>0 DEF Gets
    <3>2. Pops(queue, queue') => Len(queue') = Len(queue) - 1
      BY <1>0 DEF Pops
    <3>3. Len(queue) \in Nat
      BY <1>0
    <3> QED
      BY <1>1, <3>1, <3>2, <3>3
  <2> QED
    BY <1>0, <1>1, <2>1, <2>2, NamesKept
<1>2. CASE UserSync
  <2>1. PICK t \in Talk : t = <<IF since = 0 THEN "get_all" ELSE "get_new">>
    BY CommandSeqs DEF Talk
  <2>2. Asked(t) = {}
    BY <2>1 DEF Asked
  <2>3. Says(t)
    BY <1>2, <2>1, <2>2 DEF UserSync, GetContacts, Says
  <2>4. PICK x : x.what = "init"
    BY ItemFields
  <2> QED
    BY <1>1, <1>2, <2>3, <2>4 DEF UserSync, Frames
<1>3. CASE TickInit
  <2>1. Gets(queue, queue', Item(2, "init", Nobody))
    BY <1>0, <1>3, PostsGets DEF TickInit, Notices
  <2> QED
    BY <1>1, <1>3, <2>1, ItemFields DEF TickInit, Frames
<1>4. CASE TickHandshake
  BY <1>4 DEF TickHandshake, UpInTime
<1>5. CASE PathChanges
  <2>1. Gets(queue, queue', Item(1, "path", Nobody))
    BY <1>0, <1>5, AnswersGets DEF PathChanges, NameInv, Frames
  <2> QED
    BY <1>1, <1>5, <2>1, ItemFields DEF PathChanges
<1>6. ASSUME NEW c \in Companions, MessageArrives(c) PROVE NameInv'
  <2>1. PICK x : x = Item(1, "waiting", Nobody)
    OBVIOUS
  <2>2. queue' = queue \/ Gets(queue, queue', x)
    BY <1>0, <1>6, <2>1, ArrivePosts
  <2>3. x.hop = 1 /\ x.what = "waiting"
    BY <2>1, ItemFields
  <2>4. UNCHANGED <<link, key, raw, ready, sent>>
    BY <1>6 DEF MessageArrives
  <2> QED
    BY <1>1, <2>2, <2>3, <2>4
<1>7. CASE LinkDown
  <2>1. Gets(queue, queue', Item(2, "disconnected", Nobody)) /\ Item(2, "disconnected", Nobody).what = "disconnected"
    BY <1>0, <1>7, LinkPosts, ItemFields
  <2>2. \A i \in DOMAIN queue' : queue'[i].what # "handshake"
    BY <1>0, <2>1, NoHandshake DEF Shifts
  <2> QED
    BY <1>7, <2>2 DEF LinkDown, NameInv
<1>8. CASE LinkUp
  <2>1. PICK x : x = Item(2, "connected", Nobody)
    OBVIOUS
  <2>2. Gets(queue, queue', x) /\ x.what = "connected"
    BY <1>0, <1>8, <2>1, LinkPosts, ItemFields
  <2>3. \A i \in DOMAIN queue' : queue'[i].what # "handshake"
    BY <1>0, <2>2, NoHandshake DEF Shifts
  <2>4. link = Nobody /\ sent = <<>> /\ UNCHANGED <<raw, sent>> /\ ready' = TRUE /\ ~raw
    BY <1>8 DEF LinkUp, UpInTime, NameInv
  <2>5. \A i \in DOMAIN queue : queue[i].what \notin Frames
    BY <2>4 DEF LinkInv, FramesFit, Fits
  <2>6. /\ DOMAIN queue' = DOMAIN queue \cup {Len(queue) + 1}
        /\ queue'[Len(queue) + 1] = x /\ \A i \in DOMAIN queue : queue'[i] = queue[i]
    BY <1>0, <2>2, GetsFacts
  <2>7. \A i \in DOMAIN queue' : queue'[i].what \notin Frames
    BY <2>2, <2>5, <2>6 DEF Frames
  <2>8. NotYetUp(queue', sent')
    BY <2>2, <2>4, <2>6, <2>7 DEF NotYetUp, Asked, Letters, Frames
  <2> QED
    BY <2>3, <2>4, <2>8 DEF NameInv
<1> QED
  BY <1>0, <1>2, <1>3, <1>4, <1>5, <1>6, <1>7, <1>8, NamesHandled, NamesServed DEF Next, Timers, Environment
-----------------------------------------------------------------------------
(* Rows and histories are of one companion.                                *)

(* A message that is handled finds its companion named, or comes from a    *)
(* radio that booted slowly.                                               *)
LEMMA NamedFirst ==
  ASSUME TypeOK, QueueInv, LinkInv, UpInTime => NameInv, HandleMsg
  PROVE  /\ home[Subject].radio = link /\ link # Nobody
         /\ key = link \/ (key = Nobody /\ ~UpInTime)
<1>1. home[Subject].radio = link /\ link # Nobody /\ key \in {Nobody, link}
  BY HeadFits DEF HandleMsg, Frames, LinkInv
<1>2. Pops(queue, queue') /\ queue[1].what = "msg" /\ 1 \in Letters(queue)
  BY HandlesPops DEF HandleMsg, Letters
<1>3. HeadFirst(queue)
  BY <1>2, QueueTyped, PopsTaken DEF Taken, HeadFirst
<1>4. Letters(queue) # {} /\ ~Answering(queue)
  BY <1>2, <1>3 DEF Answering, HeadFirst
<1>5. UpInTime => key = link
  BY <1>1, <1>4 DEF NameInv, NotYetUp, Asking
<1> QED
  BY <1>1, <1>5

LEMMA FiledStays ==
  ASSUME Types, OnceInv, LinkInv, UpInTime => NameInv, FiledRight, Next
  PROVE  FiledRight'
<1> USE DEF lists, store, flags, timers, linkVars, radioVars
<1>1. TypeOK /\ QueueInv
  BY DEF Types
<1>2. ASSUME db \subseteq db', NEW row \in db
      PROVE  row[1] = home'[row[3]].radio \/ (row[1] = Nobody /\ Unnamed(row[3])')
  <2>1. row[3] \in Msgs
    BY <1>1, <1>2 DEF TypeOK
  <2>2. home[row[3]].radio # Nobody
    BY <1>2, <2>1 DEF OnceInv, Saved
  <2>3. home'[row[3]] = home[row[3]]
    BY <1>1, <2>1, <2>2, HomesStay DEF HomeStays
  <2>4. Unnamed(row[3]) => Unnamed(row[3])'
    BY <1>2 DEF Unnamed
  <2> QED
    BY <1>2, <2>3, <2>4 DEF FiledRight
<1>3. CASE db' = db
  BY <1>2, <1>3 DEF FiledRight
<1>4. CASE HandleMsg
  <2>1. PICK by, m : by = home[Subject].by /\ m = Subject
    OBVIOUS
  <2>2. db' = db \cup {<<key, by, m>>} /\ home' = home
    BY <1>1, <1>4, <2>1, MsgShows DEF HandleMsg
  <2>3. home[m].radio = link /\ (key = link \/ (key = Nobody /\ ~UpInTime))
    BY <1>1, <1>4, <2>1, NamedFirst
  <2>4. by \in Contacts
    <3>1. db' \subseteq (Companions \cup {Nobody}) \X Contacts \X Msgs
      BY TypesStep DEF Types, TypeOK
    <3>2. <<key, by, m>> \in db'
      BY <2>2
    <3> QED
      BY <3>1, <3>2
  <2>5. key = Nobody /\ ~UpInTime => Unnamed(m)'
    BY <2>2, <2>4 DEF Unnamed, UpInTime
  <2>6. ASSUME NEW row \in db'
        PROVE  row[1] = home'[row[3]].radio \/ (row[1] = Nobody /\ Unnamed(row[3])')
    <3>1. CASE row \in db
      BY <1>2, <2>2, <3>1
    <3>2. CASE row = <<key, by, m>>
      <4>1. row[1] = key /\ row[3] = m
        BY <3>2
      <4> QED
        BY <2>2, <2>3, <2>5, <4>1
    <3> QED
      BY <2>2, <2>6, <3>1, <3>2
  <2> QED
    BY <2>6 DEF FiledRight
<1>5. CASE \/ HandleSelfInfo \/ HandleDisconnected \/ HandleContactsStart \/ HandleContact \/ HandleContactsEnd
           \/ LinkUp \/ LinkDown \/ RadioStartsListing \/ RadioLists \/ RadioHandsOver
  BY <1>3, <1>5 DEF HandleSelfInfo, HandleDisconnected, HandleContactsStart, HandleContact, HandleContactsEnd,
                    LinkUp, LinkDown, RadioStartsListing, RadioLists, RadioHandsOver
<1>6. ASSUME NEW c \in Companions, MessageArrives(c) PROVE FiledRight'
  BY <1>3, <1>6 DEF MessageArrives
<1>7. CASE Quiet
  BY <1>3, <1>7 DEF Quiet
<1> QED
  BY <1>1, <1>4, <1>5, <1>6, <1>7, NextCases DEF Special

(* Where the messages of the histories come from: an earlier history, the  *)
(* radio, or the rows that are loaded at the end of a listing.             *)
InHist(s, m) == \E i \in DOMAIN s : \E j \in DOMAIN s[i].hist : s[i].hist[j] = m
Held(m) == InHist(list, m) \/ InHist(old, m)

LEMMA HeldIs ==
  /\ HistoriesApart <=> (link # Nobody => \A m : Held(m) => home[m].radio = link \/ Unnamed(m))
  /\ HistoriesApart' <=> (link' # Nobody => \A m : Held(m)' => home'[m].radio = link' \/ Unnamed(m)')
BY DEF HistoriesApart, Held, InHist, ToSet

LEMMA HeldFrom ==
  ASSUME Types, Next
  PROVE  \A m : Held(m)' => \/ Held(m)
                            \/ HandleMsg /\ m = Subject
                            \/ HandleContactsEnd /\ \E c \in Contacts : <<key, c, m>> \in db
<1> USE DEF lists, store, flags, timers, linkVars, radioVars
<1> SUFFICES ASSUME NEW m, Held(m)', ~Held(m)
             PROVE  \/ HandleMsg /\ m = Subject
                    \/ HandleContactsEnd /\ \E c \in Contacts : <<key, c, m>> \in db
  OBVIOUS
<1>0. TypeOK /\ QueueInv /\ list \in Seq(Entries) /\ old \in Seq(Entries)
  BY DEF Types, TypeOK
<1>1. CASE UNCHANGED <<list, old>>
  BY <1>1 DEF Held, InHist
<1>2. CASE HandleDisconnected
  BY <1>2 DEF HandleDisconnected, ForgetCompanion, Held, InHist
<1>3. CASE HandleContactsStart
  BY <1>3 DEF HandleContactsStart, Held, InHist
<1>4. CASE HandleContact
  <2>1. PICK c \in Contacts : Returns(c)
    BY <1>0, <1>4, SubjectTyped DEF HandleContact
  <2>2. /\ DOMAIN list' = DOMAIN list \cup {Len(list) + 1}
        /\ \A i \in DOMAIN list : list'[i] = list[i]
        /\ \/ list'[Len(list) + 1].hist = <<>>
           \/ \E i \in DOMAIN old : list'[Len(list) + 1] = old[i]
        /\ \A j \in DOMAIN old' : \E i \in DOMAIN old : old'[j] = old[i]
    BY <1>0, <2>1, ReturnsFacts
  <2>3. ~InHist(list', m)
    <3>1. DOMAIN <<>> = {}
      OBVIOUS
    <3> QED
      BY <2>2, <3>1 DEF Held, InHist
  <2>4. ~InHist(old', m)
    BY <2>2 DEF Held, InHist
  <2> QED
    BY <2>3, <2>4 DEF Held, InHist
<1>5. CASE HandleContactsEnd
  <2>1. PICK s : s = list \o old
    OBVIOUS
  <2>2. list' = WithHistories(s) /\ old' = <<>>
    BY <1>5, <2>1 DEF HandleContactsEnd
  <2>3. /\ s \in Seq(Entries)
        /\ DOMAIN WithHistories(s) = DOMAIN s
        /\ HasHistory(s) => WithHistories(s) = s
        /\ ~HasHistory(s) => \A i \in DOMAIN s : WithHistories(s)[i].hist = Rows(key, s[i].who)
        /\ \A i \in DOMAIN s : \/ i \in DOMAIN list /\ s[i] = list[i]
                               \/ \E j \in DOMAIN old : s[i] = old[j]
    BY <1>0, <2>1, EndFacts
  <2>4. ~InHist(s, m) /\ InHist(WithHistories(s), m)
    BY <2>2, <2>3 DEF Held, InHist
  <2>5. PICK i \in DOMAIN s : \E j \in DOMAIN Rows(key, s[i].who) : Rows(key, s[i].who)[j] = m
    BY <2>3, <2>4 DEF InHist
  <2>6. <<key, s[i].who, m>> \in db
    BY <2>5, RowsFacts
  <2>7. s[i].who \in Contacts
    <3>1. s[i] \in Entries
      BY <2>3
    <3> QED
      BY <3>1 DEF Entries
  <2> QED
    BY <1>5, <2>6, <2>7
<1>6. CASE HandleMsg
  <2>1. PICK n \in Msgs : n = Subject
    BY <1>0, <1>6, MsgShows
  <2>2. \E by : Shows(list, list', by, n) /\ old' = old
    BY <1>0, <1>6, <2>1, MsgShows
  <2>3. /\ DOMAIN list' = DOMAIN list /\ old' = old
        /\ \A i \in DOMAIN list : list'[i].hist = list[i].hist \/ list'[i].hist = Append(list[i].hist, n)
    BY <1>0, <2>2, ShowsFacts
  <2>4. PICK i \in DOMAIN list : \E j \in DOMAIN list'[i].hist : list'[i].hist[j] = m
    BY <2>3 DEF Held, InHist
  <2>5. PICK h : h = list[i].hist
    OBVIOUS
  <2>6. h \in Seq(Msgs) /\ \A j \in DOMAIN h : h[j] # m
    <3>1. list[i] \in Entries
      BY <1>0
    <3>2. h \in Seq(Msgs)
      BY <2>5, <3>1 DEF Entries
    <3> QED
      BY <2>5, <3>2 DEF Held, InHist
  <2>7. \E j \in DOMAIN Append(h, n) : Append(h, n)[j] = m
    BY <2>3, <2>4, <2>5, <2>6
  <2>8. m = n
    BY <2>6, <2>7
  <2> QED
    BY <1>6, <2>1, <2>8
<1>7. CASE Quiet
  BY <1>1, <1>7 DEF Quiet
<1>8. CASE \/ HandleSelfInfo \/ LinkUp \/ LinkDown \/ RadioStartsListing \/ RadioLists
           \/ RadioHandsOver \/ \E c \in Companions : MessageArrives(c)
  <2>1. UNCHANGED <<list, old>>
    BY <1>8 DEF HandleSelfInfo, LinkUp, LinkDown, RadioStartsListing, RadioLists, RadioHandsOver,
      MessageArrives
  <2> QED
    BY <2>1, <1>1
<1> QED
  BY <1>0, <1>2, <1>3, <1>4, <1>5, <1>6, <1>7, <1>8, NextCases DEF Special

LEMMA LinkSteps ==
  ASSUME TypeOK, Next
  PROVE  link' = link \/ LinkUp \/ LinkDown
<1> USE DEF lists, store, flags, timers, linkVars, radioVars
<1>1. CASE Quiet
  BY <1>1 DEF Quiet
<1>2. CASE \/ HandleSelfInfo \/ HandleDisconnected \/ HandleMsg \/ HandleContactsStart \/ HandleContact
           \/ HandleContactsEnd \/ RadioStartsListing \/ RadioLists \/ RadioHandsOver
           \/ \E c \in Companions : MessageArrives(c)
  BY <1>2 DEF HandleSelfInfo, HandleDisconnected, HandleMsg, HandleContactsStart, HandleContact,
    HandleContactsEnd, RadioStartsListing, RadioLists, RadioHandsOver, MessageArrives
<1> QED
  BY <1>1, <1>2, NextCases DEF Special

LEMMA RowsGrow ==
  ASSUME TypeOK, Next
  PROVE  db \subseteq db'
<1> USE DEF lists, store, flags, timers, linkVars, radioVars
<1>1. CASE Quiet
  BY <1>1 DEF Quiet
<1>2. CASE Special
  BY <1>2 DEF Special, HandleSelfInfo, HandleDisconnected, HandleMsg, HandleContactsStart, HandleContact,
    HandleContactsEnd, LinkUp, LinkDown, RadioStartsListing, RadioLists, RadioHandsOver, MessageArrives
<1> QED
  BY <1>1, <1>2, NextCases

LEMMA ApartStays ==
  ASSUME IInv, LinkInv, UpInTime => NameInv, FiledRight, HistoriesApart, Next
  PROVE  HistoriesApart'
<1>0. TypeOK /\ QueueInv /\ Types
  BY DEF IInv, Types
<1>1. \A m : Unnamed(m) => Unnamed(m)'
  BY <1>0, RowsGrow DEF Unnamed
<1>2. \A m : Held(m) => m \in Msgs /\ home[m].radio # Nobody
  <2>1. \A m : Held(m) => Saved(db, m)
    BY DEF IInv, ShownInv, HistsOK, Held, InHist
  <2>2. \A m : Saved(db, m) => m \in Msgs
    BY <1>0 DEF TypeOK, Saved
  <2> QED
    BY <2>1, <2>2 DEF IInv, OnceInv
<1>3. HomeStays
  BY <1>0, HomesStay
<1>4. CASE link' = Nobody
  BY <1>4 DEF HistoriesApart
<1>5. CASE LinkUp
  <2>1. list' = <<>> /\ old' = <<>>
    BY <1>5 DEF LinkUp, LinkInv, Forgotten, Ending, lists
  <2> QED
    BY <2>1 DEF HistoriesApart, ToSet
<1>6. CASE link' = link /\ link # Nobody
  <2> SUFFICES ASSUME NEW m, Held(m)' PROVE home'[m].radio = link \/ Unnamed(m)'
    BY <1>6, HeldIs
  <2>1. CASE Held(m)
    <3>1. home[m].radio = link \/ Unnamed(m)
      BY <1>6, <2>1, HeldIs
    <3> QED
      BY <1>1, <1>2, <1>3, <2>1, <3>1 DEF HomeStays
  <2>2. CASE HandleMsg /\ m = Subject
    <3>1. home[m].radio = link /\ home' = home
      BY <1>0, <2>2, NamedFirst DEF HandleMsg, radioVars
    <3> QED
      BY <3>1
  <2>3. ASSUME HandleContactsEnd, NEW c \in Contacts, <<key, c, m>> \in db
        PROVE  home'[m].radio = link \/ Unnamed(m)'
    <3>1. home' = home
      BY <2>3 DEF HandleContactsEnd, radioVars
    <3>2. key \in {Nobody, link}
      BY <1>6 DEF LinkInv
    <3>3. <<key, c, m>>[1] = key /\ <<key, c, m>>[3] = m
      OBVIOUS
    <3>4. key = home[m].radio \/ (key = Nobody /\ Unnamed(m))
      BY <2>3, <3>3 DEF FiledRight
    <3>5. m \in Msgs /\ home[m].radio # Nobody
      <4>1. Saved(db, m)
        BY <2>3, <3>3 DEF Saved
      <4>2. m \in Msgs
        BY <1>0, <2>3 DEF TypeOK
      <4> QED
        BY <4>1, <4>2 DEF IInv, OnceInv
    <3> QED
      BY <1>1, <3>1, <3>2, <3>4, <3>5
  <2> QED
    BY <1>0, <2>1, <2>2, <2>3, HeldFrom
<1> QED
  BY <1>0, <1>4, <1>5, <1>6, LinkSteps DEF LinkDown

LEMMA CleanHolds ==
  ASSUME BetweenFrames
  PROVE  Spec => [](IInv /\ CleanInv)
<1>1. Init => CleanInv
  <2> SUFFICES ASSUME Init PROVE CleanInv
    OBVIOUS
  <2>1. /\ queue = <<>> /\ list = <<>> /\ old = <<>> /\ dump = {} /\ db = {} /\ sent = <<>>
        /\ ~listing /\ ~raw /\ link = Nobody /\ key = Nobody
    BY DEF Init
  <2>2. LinkInv
    BY <2>1 DEF LinkInv, FramesFit, Forgotten
  <2>3. SyncInv
    <3>1. Lists(queue) = {}
      BY <2>1 DEF Lists
    <3>2. OrderOK(queue) /\ (\A l, p : ListOK(queue, l, p)) /\ (\A l : DumpOK(queue, {}, l))
      BY <3>1, NoneListed
    <3> QED
      BY <2>1, <3>2 DEF SyncInv
  <2>4. ListsInv /\ NameInv /\ FiledRight /\ HistoriesApart
    BY <2>1 DEF ListsInv, Apart, NameInv, FiledRight, HistoriesApart
  <2> QED
    BY <2>2, <2>3, <2>4 DEF CleanInv
<1>2. IInv /\ CleanInv /\ [Next]_vars => CleanInv'
  <2> SUFFICES ASSUME IInv, CleanInv, [Next]_vars PROVE CleanInv'
    OBVIOUS
  <2>1. CASE Next
    <3>1. LinkInv' /\ SyncInv' /\ ListsInv' /\ FiledRight' /\ HistoriesApart'
      BY <2>1, LinkStays, SyncStays, ListsStay, FiledStays, ApartStays DEF IInv, CleanInv
    <3>2. UpInTime => NameInv'
      BY <2>1, NameStep DEF IInv, CleanInv
    <3> QED
      BY <3>1, <3>2 DEF CleanInv, UpInTime
  <2>2. CASE UNCHANGED vars
    <3> USE DEF vars, flags, timers, lists, store, linkVars, radioVars
    <3>1. LinkInv'
      BY <2>2 DEF CleanInv, LinkInv, FramesFit, Forgotten, Ending
    <3>2. SyncInv'
      BY <2>2 DEF CleanInv, SyncInv
    <3>3. ListsInv' /\ FiledRight' /\ HistoriesApart'
      BY <2>2 DEF CleanInv, ListsInv, FiledRight, HistoriesApart, Unnamed
    <3>4. UpInTime => NameInv'
      BY <2>2 DEF CleanInv, NameInv
    <3> QED
      BY <3>1, <3>2, <3>3, <3>4 DEF CleanInv, UpInTime
  <2> QED
    BY <2>1, <2>2
<1> QED
  BY <1>1, <1>2, IInvHolds, PTL DEF Spec

(* When the link goes down between frames only, every row is filed under   *)
(* the radio its message came from, every message in the histories of the  *)
(* window came from the companion that is connected, and the list holds    *)
(* that companion's contacts, each once; whatever syncs are started,       *)
(* refused or cut off and whichever companion was there before             *)
(* (MainWindow::_OnDisconnected, _HandleSelfInfo, _HandleContactMsgRecv,   *)
(* _HandleContactsEnd).  Excepted are, with radios that boot slowly, the   *)
(* messages that were filed before such a radio had said who it was.       *)
THEOREM CompanionsStayApart ==
  ASSUME BetweenFrames
  PROVE  Spec => []CompanionsApart
<1>1. IInv /\ CleanInv => CompanionsApart
  <2> SUFFICES ASSUME CleanInv, up, link # Nobody PROVE CleanList
    BY DEF CompanionsApart, CleanList, CleanInv
  <2>1. \A i \in DOMAIN list : list[i].who \in Knows[link]
    BY DEF CleanInv, LinkInv, Whose
  <2>2. \A i, j \in DOMAIN list : list[i].who = list[j].who => i = j
    BY DEF CleanInv, ListsInv, Apart
  <2> QED
    BY <2>1, <2>2 DEF CleanList
<1> QED
  BY <1>1, CleanHolds, PTL

(* With radios that are up in time, and a link that goes down between      *)
(* frames only, there is no exception: a companion's histories are its own *)
(* (MANUAL.md 953, 959).                                                   *)
Isolated ==
  /\ \A row \in db : row[1] = home[row[3]].radio
  /\ link # Nobody => \A e \in ToSet(list) \cup ToSet(old) : \A m \in ToSet(e.hist) : home[m].radio = link

THEOREM HistoriesIsolated ==
  ASSUME BetweenFrames, UpInTime
  PROVE  Spec => []Isolated
<1>1. CompanionsApart => Isolated
  BY DEF UpInTime, CompanionsApart, FiledRight, HistoriesApart, Unnamed, Isolated
<1> QED
  BY <1>1, CompanionsStayApart, PTL

(* Every history of a listed or parked contact has its message later on.   *)
LEMMA KeepsShown ==
  ASSUME \A i \in DOMAIN list : \A k \in DOMAIN list[i].hist :
           \E f \in ToSet(list') \cup ToSet(old') : f.who = list[i].who /\ list[i].hist[k] \in ToSet(f.hist),
         \A i \in DOMAIN old : \A k \in DOMAIN old[i].hist :
           \E f \in ToSet(list') \cup ToSet(old') : f.who = old[i].who /\ old[i].hist[k] \in ToSet(f.hist)
  PROVE  Shown \subseteq Shown'
<1> SUFFICES ASSUME NEW x \in Shown PROVE x \in Shown'
  OBVIOUS
<1>1. PICK e \in ToSet(list) \cup ToSet(old) : e.who = x[1] /\ x[2] \in ToSet(e.hist)
  BY DEF Shown
<1>2. PICK k \in DOMAIN e.hist : x[2] = e.hist[k]
  BY <1>1 DEF ToSet
<1>3. \E f \in ToSet(list') \cup ToSet(old') : f.who = x[1] /\ x[2] \in ToSet(f.hist)
  <2>1. CASE e \in ToSet(list)
    <3>1. PICK i \in DOMAIN list : e = list[i]
      BY <2>1 DEF ToSet
    <3> QED
      BY <1>1, <1>2, <3>1
  <2>2. CASE e \in ToSet(old)
    <3>1. PICK i \in DOMAIN old : e = old[i]
      BY <2>2 DEF ToSet
    <3> QED
      BY <1>1, <1>2, <3>1
  <2> QED
    BY <2>1, <2>2
<1> QED
  BY <1>3 DEF Shown

LEMMA HistoryStep ==
  ASSUME Types, SyncInv, Next, up'
  PROVE  Shown \subseteq Shown'
<1> USE DEF lists, store, flags, timers, linkVars, radioVars
<1>1. TypeOK /\ QueueInv /\ queue \in Seq(Items) /\ list \in Seq(Entries) /\ old \in Seq(Entries)
  BY QueueTyped DEF Types, TypeOK
<1>2. CASE UNCHANGED <<list, old>>
  BY <1>2 DEF Shown
<1>3. CASE HandleDisconnected
  BY <1>3 DEF HandleDisconnected
<1>4. CASE HandleMsg
  <2>1. PICK by : by = home[Subject].by
    OBVIOUS
  <2>2. PICK m \in Msgs : m = Subject
    BY <1>1, <1>4, MsgShows
  <2>3. Shows(list, list', by, m) /\ old' = old
    BY <1>1, <1>4, <2>1, <2>2, MsgShows
  <2>4. /\ DOMAIN list' = DOMAIN list
        /\ \A i \in DOMAIN list : /\ list'[i].who = list[i].who
                                  /\ list'[i].hist = list[i].hist \/ list'[i].hist = Append(list[i].hist, m)
    BY <1>1, <2>3, ShowsFacts
  <2>5. ASSUME NEW i \in DOMAIN list, NEW k \in DOMAIN list[i].hist
        PROVE  \E f \in ToSet(list') \cup ToSet(old') : f.who = list[i].who /\ list[i].hist[k] \in ToSet(f.hist)
    <3>1. list'[i] \in ToSet(list')
      BY <2>4, <2>5 DEF ToSet
    <3>2. list[i].hist[k] \in ToSet(list'[i].hist)
      <4>1. list[i].hist \in Seq(Msgs)
        <5>1. list[i] \in Entries
          BY <1>1, <2>5
        <5> QED
          BY <5>1 DEF Entries
      <4>2. PICK h \in Seq(Msgs) : h = list[i].hist
        BY <4>1
      <4>3. k \in DOMAIN h /\ k \in DOMAIN Append(h, m) /\ Append(h, m)[k] = h[k]
        BY <2>5, <4>2
      <4>4. h[k] \in ToSet(h) /\ h[k] \in ToSet(Append(h, m))
        BY <4>3 DEF ToSet
      <4> QED
        BY <2>4, <4>2, <4>4
    <3> QED
      BY <2>4, <3>1, <3>2
  <2>6. ASSUME NEW i \in DOMAIN old, NEW k \in DOMAIN old[i].hist
        PROVE  \E f \in ToSet(list') \cup ToSet(old') : f.who = old[i].who /\ old[i].hist[k] \in ToSet(f.hist)
    BY <2>3, <2>6 DEF ToSet
  <2> QED
    BY <2>5, <2>6, KeepsShown
<1>5. CASE HandleContactsStart
  <2>1. 1 \in Starts(queue) /\ Pops(queue, queue') /\ old' = list /\ list' = <<>>
    BY <1>1, <1>5, HandlesPops DEF HandleContactsStart, Starts
  <2>2. PICK P : Taken(queue, queue', P)
    BY <1>1, <2>1, PopsTaken
  <2>3. old = <<>>
    BY <2>1, <2>2, TakeStart DEF SyncInv
  <2> QED
    BY <2>1, <2>3 DEF Shown, ToSet
<1>6. CASE HandleContact
  <2>1. PICK c \in Contacts : c = Subject
    BY <1>1, <1>6, SubjectTyped DEF HandleContact
  <2>2. Returns(c)
    BY <1>6, <2>1 DEF HandleContact
  <2>3. /\ DOMAIN list' = DOMAIN list \cup {Len(list) + 1}
        /\ \A i \in DOMAIN list : list'[i] = list[i]
        /\ \A i \in DOMAIN old : \/ list'[Len(list) + 1] = old[i]
                                 \/ \E j \in DOMAIN old' : old'[j] = old[i]
    BY <1>1, <2>2, ReturnsFacts
  <2>4. \A i \in DOMAIN list : list[i] \in ToSet(list')
    BY <2>3 DEF ToSet
  <2>5. \A i \in DOMAIN old : old[i] \in ToSet(list') \cup ToSet(old')
    BY <2>3 DEF ToSet
  <2>6. \A h : \A k \in DOMAIN h : h[k] \in ToSet(h)
    BY DEF ToSet
  <2> QED
    BY <2>4, <2>5, <2>6, KeepsShown
<1>7. CASE HandleContactsEnd
  <2>1. PICK s : s = list \o old
    OBVIOUS
  <2>2. list' = WithHistories(s) /\ old' = <<>>
    BY <1>7, <2>1 DEF HandleContactsEnd
  <2>3. /\ DOMAIN WithHistories(s) = DOMAIN s
        /\ HasHistory(s) => WithHistories(s) = s
        /\ ~HasHistory(s) => \A i \in DOMAIN s : s[i].hist = <<>>
        /\ \A i \in DOMAIN list : i \in DOMAIN s /\ s[i] = list[i]
        /\ \A j \in DOMAIN old : Len(list) + j \in DOMAIN s /\ s[Len(list) + j] = old[j]
    BY <1>1, <2>1, EndFacts
  <2>4. CASE HasHistory(s)
    <3>1. \A i \in DOMAIN list : list[i] \in ToSet(list')
      BY <2>2, <2>3, <2>4 DEF ToSet
    <3>2. \A i \in DOMAIN old : old[i] \in ToSet(list')
      BY <2>2, <2>3, <2>4 DEF ToSet
    <3>3. \A h : \A k \in DOMAIN h : h[k] \in ToSet(h)
      BY DEF ToSet
    <3> QED
      BY <3>1, <3>2, <3>3, KeepsShown
  <2>5. CASE ~HasHistory(s)
    <3>1. (\A i \in DOMAIN list : list[i].hist = <<>>) /\ (\A i \in DOMAIN old : old[i].hist = <<>>)
      BY <2>3, <2>5
    <3> QED
      BY <3>1, KeepsShown
  <2> QED
    BY <2>4, <2>5
<1>8. CASE HandleSelfInfo \/ LinkUp \/ LinkDown \/ RadioStartsListing \/ RadioLists \/ RadioHandsOver
  BY <1>2, <1>8 DEF HandleSelfInfo, LinkUp, LinkDown, RadioStartsListing, RadioLists, RadioHandsOver
<1>9. ASSUME NEW c \in Companions, MessageArrives(c) PROVE Shown \subseteq Shown'
  BY <1>2, <1>9 DEF MessageArrives
<1>10. CASE Quiet
  BY <1>2, <1>10 DEF Quiet
<1> QED
  BY <1>1, <1>3, <1>4, <1>5, <1>6, <1>7, <1>8, <1>9, <1>10, NextCases DEF Special

(* No sync loses what is shown, when the link goes down between frames: a  *)
(* second start of contacts never finds any parked, for the radio refuses  *)
(* to start a listing during one and an end comes between two starts       *)
(* (MainWindow::_HandleContactsStart, _HandleContact, _HandleContactsEnd). *)
THEOREM HistoryIsKept ==
  ASSUME BetweenFrames
  PROVE  Spec => HistoryKept
<1>1. IInv /\ CleanInv /\ [Next]_vars => [up' => Shown \subseteq Shown']_vars
  BY HistoryStep DEF IInv, CleanInv
<1> QED
  BY <1>1, CleanHolds, PTL DEF Spec, HistoryKept
=============================================================================
