---------------------------- MODULE Channels_proofs ----------------------------
(***************************************************************************)
(* What holds of Channels for every number of slots, every set of names    *)
(* and every bound: its types, that the list is what the radio holds, that *)
(* the messages in memory are those stored, that the screen is that of the *)
(* channel shown, that an enumeration has an answer to come, and that a    *)
(* new channel replaces no other.                                          *)
(***************************************************************************)
EXTENDS Channels, FiniteSetTheorems, SequenceTheorems, WellFoundedInduction, TLAPS

-----------------------------------------------------------------------------
(* The inductive invariant.                                                *)

(* The next slot to ask for exists; no message comes after the last.       *)
Bounded == (enumerating => index < NSlots) /\ Len(at) <= NMsgs
Types == TypeOK /\ Bounded

(* Message m went through that slot.                                       *)
InSlot(m, slot, a) == m \in 1 .. Len(a) /\ a[m] = slot

(* What is filed under a slot went through it, and a message on its way is *)
(* not stored yet.                                                         *)
IsMessage(q, i) == i \in DOMAIN q /\ q[i].what = "message"
MemoryInv == \A i \in DOMAIN channels : \A j \in DOMAIN channels[i].msgs :
               InSlot(channels[i].msgs[j], channels[i].slot, at)
StoreInv == \A row \in db : InSlot(row[2], row[1], at)
InboxInv ==
  /\ \A i \in DOMAIN inbox : IsMessage(inbox, i) =>
       InSlot(inbox[i].id, inbox[i].slot, at) /\ \A row \in db : row[2] # inbox[i].id
  /\ \A i, j \in DOMAIN inbox :
       IsMessage(inbox, i) /\ IsMessage(inbox, j) /\ inbox[i].id = inbox[j].id => i = j
ViewInv == ~searching /\ shown # NoSlot => \A i \in DOMAIN view : InSlot(view[i], shown, at)
RowsInv == MemoryInv /\ StoreInv /\ InboxInv /\ ViewInv

(* What slot s of radio r holds when it has served the commands of u       *)
(* before the n-th.                                                        *)
IsSet(u, k, s) == u[k].what = "set" /\ u[k].slot = s
Holds(u, r, n, s, name) ==
  \/ /\ \A k \in DOMAIN u : k < n => ~IsSet(u, k, s)
     /\ r[s] = name
  \/ \E j \in DOMAIN u : /\ j < n /\ IsSet(u, j, s) /\ u[j].name = name
                         /\ \A k \in DOMAIN u : j < k /\ k < n => ~IsSet(u, k, s)

(* A channel made by the user finds its slot free.                         *)
SureInv == \A i \in DOMAIN up : up[i].what = "set" /\ up[i].sure => Holds(up, radio, i, up[i].slot, Empty)

(* A connected radio that is not known yet will say who it is.             *)
Introduces == (up # <<>> /\ up[1].what = "start") \/ \E i \in DOMAIN inbox : inbox[i].what = "self"
KnownInv == connected /\ ~known => Introduces

(* What the list says will hold once the commands are served, and so will  *)
(* what it leaves out, of the slots that were asked.                       *)
Listed == {channels[i].slot : i \in DOMAIN channels}
Will(u, r, s, name) == Holds(u, r, Len(u) + 1, s, name)
HoldsInv ==
  /\ \A i \in DOMAIN channels : Will(up, radio, channels[i].slot, channels[i].name)
  /\ \A s \in Slots \ Listed : (enumerating => s < index) => Will(up, radio, s, Empty)

(* One slot x is asked at a time; what is written behind the question, or  *)
(* behind its answer, is of listed slots, of which no answer is used.      *)
Has(q, W) == \E i \in DOMAIN q : q[i].what \in W
Asked(u, q, x, L) ==
  /\ ~Has(q, {"info"})
  /\ \E p \in DOMAIN u :
       /\ u[p].what = "get" /\ u[p].slot = x
       /\ \A k \in DOMAIN u : u[k].what = "get" => k = p
       /\ \A k \in DOMAIN u : k > p /\ u[k].what = "set" => u[k].slot \in L
Answered(u, q, x, L, r) ==
  /\ ~Has(u, {"get"})
  /\ \A k \in DOMAIN u : u[k].what = "set" => u[k].slot \in L
  /\ \E p \in DOMAIN q :
       /\ q[p].what = "info" /\ q[p].slot = x
       /\ \A k \in DOMAIN q : q[k].what = "info" => k = p
       /\ x \notin L => q[p].name = r[x]

(* Who it is, the radio says before it answers.                            *)
SelfFirst(q) == \A p \in DOMAIN q : q[p].what = "info" => \E k \in DOMAIN q : k < p /\ q[k].what = "self"

(* While nothing comes between.                                            *)
TurnInv ==
  enumerating => /\ Asked(up, inbox, index, Listed) \/ Answered(up, inbox, index, Listed, radio)
                 /\ ~known => SelfFirst(inbox)
RestInv == ~enumerating => ~Has(up, {"get"}) /\ ~Has(inbox, {"info"}) /\ known
CalmInv == calm => connected /\ max = NSlots /\ HoldsInv /\ TurnInv /\ RestInv

(* The messages of a list under way are not loaded yet, then they are.     *)
IsStored(ms, s, d) == IsInjective(ms) /\ \A m : m \in ToSet(ms) <=> <<s, m>> \in d
LoadInv == calm => \A i \in DOMAIN channels : channels[i].slot \notin doubt =>
             IF enumerating THEN channels[i].msgs = <<>> ELSE IsStored(channels[i].msgs, channels[i].slot, db)

IInv == /\ Types /\ EnumerationFed /\ SlotsDistinct
        /\ RowsInv /\ SureInv /\ KnownInv /\ CalmInv /\ LoadInv
-----------------------------------------------------------------------------
(* Sequences and rows.                                                     *)

LEMMA TailFacts ==
  ASSUME NEW S, NEW q \in Seq(S), q # <<>>
  PROVE  /\ Tail(q) \in Seq(S) /\ Len(q) \in Nat \ {0} /\ Len(Tail(q)) = Len(q) - 1
         /\ Head(q) = q[1] /\ q[1] \in S /\ 1 \in DOMAIN q
         /\ \A i \in DOMAIN Tail(q) : i + 1 \in DOMAIN q /\ i + 1 # 1 /\ Tail(q)[i] = q[i + 1]
         /\ \A k \in DOMAIN q : k # 1 => k - 1 \in DOMAIN Tail(q) /\ Tail(q)[k - 1] = q[k]
OBVIOUS

LEMMA AppendFacts ==
  ASSUME NEW S, NEW q \in Seq(S), NEW x \in S
  PROVE  /\ Append(q, x) \in Seq(S) /\ Len(q) \in Nat /\ Len(Append(q, x)) = Len(q) + 1
         /\ DOMAIN Append(q, x) = DOMAIN q \cup {Len(q) + 1} /\ Len(q) + 1 \notin DOMAIN q
         /\ Append(q, x)[Len(q) + 1] = x
         /\ \A i \in DOMAIN q : i <= Len(q) /\ Append(q, x)[i] = q[i]
OBVIOUS

LEMMA RemoveAtFacts ==
  ASSUME NEW S, NEW t \in Seq(S), NEW c \in DOMAIN t
  PROVE  /\ RemoveAt(t, c) \in Seq(S)
         /\ Len(RemoveAt(t, c)) = Len(t) - 1
         /\ \A i \in 1 .. Len(t) - 1 : RemoveAt(t, c)[i] = IF i < c THEN t[i] ELSE t[i + 1]
<1> DEFINE a == SubSeq(t, 1, c - 1)
           b == SubSeq(t, c + 1, Len(t))
<1>1. c \in 1 .. Len(t) /\ Len(t) \in Nat
  OBVIOUS
<1>2. a \in Seq(S) /\ Len(a) = c - 1 /\ \A i \in 1 .. c - 1 : a[i] = t[i]
  BY <1>1
<1>3. /\ b \in Seq(S) /\ Len(b) = Len(t) - c
      /\ \A i \in 1 .. Len(t) - c : b[i] = t[c + i]
  BY <1>1
<1> HIDE DEF a, b
<1>4. /\ a \o b \in Seq(S) /\ Len(a \o b) = Len(t) - 1
      /\ \A i \in 1 .. Len(t) - 1 : (a \o b)[i] = IF i < c THEN a[i] ELSE b[i - (c - 1)]
  <2>1. /\ a \o b \in Seq(S) /\ Len(a \o b) = Len(a) + Len(b)
        /\ \A i \in 1 .. Len(a) + Len(b) :
             (a \o b)[i] = IF i <= Len(a) THEN a[i] ELSE b[i - Len(a)]
    BY <1>2, <1>3, ConcatProperties
  <2>2. Len(a) + Len(b) = Len(t) - 1
    BY <1>1, <1>2, <1>3
  <2>3. \A i \in Int : i <= c - 1 <=> i < c
    BY <1>1
  <2> QED
    BY <2>1, <2>2, <2>3, <1>2
<1>5. \A i \in 1 .. Len(t) - 1 : i >= c => b[i - (c - 1)] = t[i + 1]
  <2> SUFFICES ASSUME NEW i \in 1 .. Len(t) - 1, i >= c PROVE b[i - (c - 1)] = t[i + 1]
    OBVIOUS
  <2>1. PICK n \in 1 .. Len(t) - c : n = i - (c - 1) /\ c + n = i + 1
    BY <1>1
  <2> QED
    BY <1>3, <2>1
<1>6. \A i \in 1 .. Len(t) - 1 : (a \o b)[i] = IF i < c THEN t[i] ELSE t[i + 1]
  BY <1>1, <1>2, <1>4, <1>5
<1> QED
  BY <1>4, <1>6 DEF RemoveAt, a, b

(* A set of numbers that is not empty has a lowest.                        *)
Below == {p \in Nat \X Nat : p[1] < p[2]}

LEMMA LowestExists ==
  ASSUME NEW S \in SUBSET Nat, S # {}
  PROVE  \E x \in S : \A y \in S : x <= y
<1>1. IsWellFoundedOn(Below, Nat)
  BY NatLessThanWellFounded DEF OpToRel, Below
<1>2. PICK x \in S : \A y \in S : ~ (<<y, x>> \in Below)
  BY <1>1, WFMin, Zenon
<1>3. \A y \in S : x <= y
  <2> SUFFICES ASSUME NEW y \in S, ~ (x <= y) PROVE FALSE
    OBVIOUS
  <2>1. <<y, x>> \in Below
    BY <1>2 DEF Below
  <2> QED
    BY <1>2, <2>1, Zenon
<1> QED
  BY <1>2, <1>3

(* A finite set of numbers can be counted in ascending order.              *)
Ascending(S) ==
  \E f \in [1 .. Cardinality(S) -> S] :
    \A i, j \in 1 .. Cardinality(S) : i < j => f[i] < f[j]

LEMMA AscendingAdd ==
  ASSUME NEW m \in Nat \ {0}, NEW S \in SUBSET (1 .. m), m \in S, Ascending(S \ {m})
  PROVE  Ascending(S)
<1> DEFINE T == S \ {m}
           n == Cardinality(T)
<1>1. IsFiniteSet(S)
  <2>1. IsFiniteSet(1 .. m)
    BY FS_Interval
  <2> QED
    BY <2>1, FS_Subset
<1>2. Cardinality(T) = Cardinality(S) - 1 /\ IsFiniteSet(T)
  BY <1>1, FS_RemoveElement
<1> HIDE DEF T
<1>3. n \in Nat /\ Cardinality(S) \in Nat
  BY <1>1, <1>2, FS_CardinalityType
<1>4. Cardinality(S) = n + 1
  <2>1. n = Cardinality(S) - 1
    BY <1>2
  <2> HIDE DEF n
  <2> QED
    BY <2>1, <1>3
<1>5. PICK f \in [1 .. n -> T] : \A i, j \in 1 .. n : i < j => f[i] < f[j]
  BY DEF Ascending, T
<1> HIDE DEF n
<1> DEFINE g == [i \in 1 .. n + 1 |-> IF i = n + 1 THEN m ELSE f[i]]
<1>6. \A i \in 1 .. n : f[i] \in S /\ f[i] \in 1 .. m /\ f[i] # m
  BY <1>5 DEF T
<1>7. \A i \in 1 .. n + 1 : g[i] = IF i = n + 1 THEN m ELSE f[i]
  OBVIOUS
<1>8. \A i \in 1 .. n : g[i] = f[i]
  BY <1>3, <1>7
<1>9. g[n + 1] = m
  BY <1>3, <1>7
<1>10. \A i \in 1 .. n + 1 : i \in 1 .. n \/ i = n + 1
  BY <1>3
<1>11. g \in [1 .. n + 1 -> S]
  BY <1>3, <1>6
<1> HIDE DEF g
<1>12. ASSUME NEW i \in 1 .. n + 1, NEW j \in 1 .. n + 1, i < j
       PROVE  g[i] < g[j]
  <2>1. i \in 1 .. n
    BY <1>3, <1>12
  <2>2. CASE j \in 1 .. n
    BY <2>1, <2>2, <1>5, <1>8, <1>12
  <2>3. CASE j = n + 1
    <3>1. g[i] = f[i] /\ g[j] = m /\ f[i] \in 1 .. m /\ f[i] # m
      BY <2>1, <2>3, <1>6, <1>8, <1>9
    <3> QED
      BY <3>1
  <2> QED
    BY <2>2, <2>3, <1>10
<1> QED
  BY <1>4, <1>11, <1>12 DEF Ascending

LEMMA AscendingExists ==
  ASSUME NEW n \in Nat, NEW S \in SUBSET (1 .. n)
  PROVE  Ascending(S)
<1> DEFINE Bad == {m \in Nat : \E R \in SUBSET (1 .. m) : ~Ascending(R)}
<1> SUFFICES ASSUME Bad # {} PROVE FALSE
  OBVIOUS
<1>1. PICK m \in Bad : \A y \in Bad : m <= y
  <2>1. Bad \in SUBSET Nat
    OBVIOUS
  <2> HIDE DEF Bad
  <2> QED
    BY <2>1, LowestExists
<1>2. m \in Nat
  OBVIOUS
<1>3. PICK R \in SUBSET (1 .. m) : ~Ascending(R)
  OBVIOUS
<1>4. CASE m = 0
  <2>1. R = {}
    BY <1>4
  <2>2. Cardinality(R) = 0
    BY <2>1, FS_EmptySet
  <2>3. [i \in 1 .. 0 |-> 0] \in [1 .. 0 -> R] /\ \A i \in 1 .. 0 : FALSE
    OBVIOUS
  <2>4. 1 .. Cardinality(R) = 1 .. 0
    BY <2>2
  <2>5. Ascending(R)
    BY <2>3, <2>4, Zenon DEF Ascending
  <2> QED
    BY <2>5, <1>3
<1>5. CASE m # 0
  <2>1. m - 1 \in Nat /\ ~(m <= m - 1)
    BY <1>2, <1>5
  <2>2. m - 1 \notin Bad
    BY <2>1, <1>1
  <2>3. \A Q \in SUBSET (1 .. (m - 1)) : Ascending(Q)
    BY <2>1, <2>2
  <2> HIDE DEF Bad
  <2>4. R \ {m} \in SUBSET (1 .. (m - 1))
    BY <1>2
  <2>5. m \in R
    <3>1. m \notin R => R \in SUBSET (1 .. (m - 1))
      BY <1>2
    <3> QED
      BY <3>1, <2>3, <1>3
  <2> QED
    BY <1>2, <1>5, <1>3, <2>3, <2>4, <2>5, AscendingAdd
<1> QED
  BY <1>4, <1>5

(* Rows that come oldest first are the rows, each once.                    *)
LEMMA OldestFacts ==
  ASSUME NEW n \in Nat, NEW S \in SUBSET (1 .. n)
  PROVE  Oldest(S) \in Seq(S) /\ ToSet(Oldest(S)) = S /\ IsInjective(Oldest(S))
<1>1. IsFiniteSet(S)
  <2>1. IsFiniteSet(1 .. n)
    BY FS_Interval
  <2> QED
    BY <2>1, FS_Subset
<1>2. PICK c \in Nat : c = Cardinality(S)
  BY <1>1, FS_CardinalityType
<1>3. \E f \in [1 .. c -> S] : \A i, j \in DOMAIN f : i < j => f[i] < f[j]
  BY <1>2, AscendingExists DEF Ascending
<1>4. PICK f : f = Oldest(S)
  OBVIOUS
<1>5. f \in [1 .. c -> S] /\ \A i, j \in DOMAIN f : i < j => f[i] < f[j]
  BY <1>2, <1>3, <1>4 DEF Oldest
<1>6. f \in Seq(S)
  BY <1>5, SeqDef
<1>7. IsInjective(f)
  <2> SUFFICES ASSUME NEW i \in 1 .. c, NEW j \in 1 .. c, f[i] = f[j], i # j PROVE FALSE
    BY <1>5 DEF IsInjective
  <2>1. f[i] \in S /\ f[j] \in S
    BY <1>5
  <2>2. f[i] \in Nat /\ f[j] \in Nat
    <3>1. \A x \in S : x \in Nat
      OBVIOUS
    <3> QED
      BY <2>1, <3>1
  <2>3. i < j \/ j < i
    BY <1>2
  <2>4. f[i] < f[j] \/ f[j] < f[i]
    BY <2>3, <1>5
  <2> QED
    BY <2>2, <2>4
<1>8. ToSet(f) = S
  <2>1. f \in Injection(1 .. c, S)
    BY <1>5, <1>7 DEF Injection
  <2>2. Cardinality(1 .. c) = c
    BY FS_Interval
  <2>3. f \in Surjection(1 .. c, S)
    BY <1>1, <1>2, <2>1, <2>2, FS_Injection
  <2> QED
    BY <1>5, <2>3 DEF Surjection, ToSet
<1> QED
  BY <1>4, <1>6, <1>7, <1>8
-----------------------------------------------------------------------------
(* Frames and lists.                                                       *)

Recs == [slot : Slots, name : Names, msgs : Seq(Rows \ {NoResult})]

LEMMA ConstantFacts ==
  /\ NSlots \in Nat \ {0} /\ NMsgs \in Nat /\ NEvents \in Nat
  /\ 0 \in Slots /\ NoSlot \notin Slots /\ NoResult \in Rows
  /\ Rows \ {NoResult} = 1 .. NMsgs
BY SizesAssumption, BoundsAssumption DEF Slots, NoSlot, NoResult, Rows

LEMMA Fields ==
  /\ \A what, slot, name : LET f == Frame(what, slot, name) IN
       f.what = what /\ f.slot = slot /\ f.name = name /\ f.sure = FALSE /\ f.id = 0
  /\ \A slot, m : Message(slot, m).what = "message" /\ Message(slot, m).slot = slot /\ Message(slot, m).id = m
  /\ \A slot, name, s : LET f == [Set(slot, name) EXCEPT !.sure = s] IN
       f.what = "set" /\ f.slot = slot /\ f.name = name /\ f.sure = s
BY DEF Frame, Message, Set

LEMMA FramesTyped ==
  /\ \A what \in {"start", "query", "self", "device", "error"} :
       Ask(what) \in Frames /\ Ask(what).what = what
  /\ \A slot \in Slots : Get(slot) \in Frames /\ Get(slot).what = "get" /\ Get(slot).slot = slot
  /\ \A slot \in Slots, name \in Names \cup {Empty} :
       /\ Set(slot, name) \in Frames /\ Set(slot, name).what = "set"
       /\ Set(slot, name).slot = slot /\ Set(slot, name).name = name /\ Set(slot, name).sure = FALSE
       /\ Frame("info", slot, name) \in Frames
       /\ \A s \in BOOLEAN : [Set(slot, name) EXCEPT !.sure = s] \in Frames
  /\ \A slot \in Slots, m \in Rows : Message(slot, m) \in Frames
<1>1. \A what \in {"start", "query", "get", "set", "self", "device", "info", "error", "message"},
         slot \in Slots, name \in Names \cup {Empty} : Frame(what, slot, name) \in Frames
  BY BoundsAssumption DEF Frame, Frames
<1>2. \A what \in {"start", "query", "self", "device", "error"} :
        Ask(what) \in Frames /\ Ask(what).what = what
  BY <1>1, ConstantFacts, Fields DEF Ask
<1>3. \A slot \in Slots : Get(slot) \in Frames /\ Get(slot).what = "get" /\ Get(slot).slot = slot
  BY <1>1, Fields DEF Get
<1>4. ASSUME NEW slot \in Slots, NEW name \in Names \cup {Empty}
      PROVE  /\ Set(slot, name) \in Frames /\ Set(slot, name).what = "set"
             /\ Set(slot, name).slot = slot /\ Set(slot, name).name = name /\ Set(slot, name).sure = FALSE
             /\ Frame("info", slot, name) \in Frames
  BY <1>1, Fields DEF Set
<1>5. ASSUME NEW slot \in Slots, NEW name \in Names \cup {Empty}, NEW s \in BOOLEAN
      PROVE  [Set(slot, name) EXCEPT !.sure = s] \in Frames
  BY BoundsAssumption DEF Set, Frame, Frames
<1>6. \A slot \in Slots, m \in Rows : Message(slot, m) \in Frames
  BY DEF Message, Frame, Frames, Rows
<1>7. \A slot \in Slots, name \in Names \cup {Empty} :
        /\ Set(slot, name) \in Frames /\ Set(slot, name).what = "set"
        /\ Set(slot, name).slot = slot /\ Set(slot, name).name = name /\ Set(slot, name).sure = FALSE
        /\ Frame("info", slot, name) \in Frames
        /\ \A s \in BOOLEAN : [Set(slot, name) EXCEPT !.sure = s] \in Frames
  BY <1>4, <1>5, Zenon
<1> QED
  BY <1>2, <1>3, <1>6, <1>7, Zenon

LEMMA FrameParts ==
  ASSUME NEW f \in Frames
  PROVE  f.slot \in Slots /\ f.name \in Names \cup {Empty} /\ f.id \in Rows
BY DEF Frames, Rows

LEMMA Sends ==
  ASSUME up \in Seq(Frames), NEW f \in Frames
  PROVE  /\ Send(<<f>>) => up' = IF connected THEN Append(up, f) ELSE up
         /\ \A g \in Frames : Send(<<f, g>>) => up' = IF connected THEN Append(Append(up, f), g) ELSE up
BY DEF Send

(* What a slot will hold, when a command is served or sent.                *)
LEMMA HoldsServed ==
  ASSUME NEW u \in Seq(Frames), u # <<>>, NEW r \in [Slots -> Names \cup {Empty}],
         NEW n \in Nat, n > 1, NEW s \in Slots, NEW name, Holds(u, r, n, s, name),
         NEW r2, r2 = IF u[1].what = "set" THEN [r EXCEPT ![u[1].slot] = u[1].name] ELSE r
  PROVE  Holds(Tail(u), r2, n - 1, s, name)
<1> DEFINE t == Tail(u)
<1>1. /\ \A k \in DOMAIN t : k + 1 \in DOMAIN u /\ t[k] = u[k + 1]
      /\ \A k \in DOMAIN u : k # 1 => k - 1 \in DOMAIN t /\ t[k - 1] = u[k]
      /\ 1 \in DOMAIN u /\ u[1] \in Frames /\ DOMAIN t \subseteq Nat \ {0} /\ DOMAIN u \subseteq Nat \ {0}
  BY TailFacts
<1> HIDE DEF t
<1>2. u[1].slot \in Slots
  BY <1>1, FrameParts
<1>3. CASE (\A k \in DOMAIN u : k < n => ~IsSet(u, k, s)) /\ r[s] = name
  <2>1. ~IsSet(u, 1, s)
    BY <1>1, <1>3
  <2>2. r2[s] = name
    BY <2>1, <1>2, <1>3 DEF IsSet
  <2>3. \A k \in DOMAIN t : k < n - 1 => ~IsSet(t, k, s)
    BY <1>1, <1>3 DEF IsSet
  <2> QED
    BY <2>2, <2>3 DEF Holds, t
<1>4. ASSUME NEW j \in DOMAIN u, j < n, IsSet(u, j, s), u[j].name = name,
             \A k \in DOMAIN u : j < k /\ k < n => ~IsSet(u, k, s)
      PROVE  Holds(t, r2, n - 1, s, name)
  <2>1. CASE j = 1
    <3>1. r2[s] = name
      BY <2>1, <1>2, <1>4 DEF IsSet
    <3>2. \A k \in DOMAIN t : k < n - 1 => ~IsSet(t, k, s)
      <4> SUFFICES ASSUME NEW k \in DOMAIN t, k < n - 1 PROVE ~IsSet(t, k, s)
        OBVIOUS
      <4>1. k + 1 \in DOMAIN u /\ 1 < k + 1 /\ k + 1 < n /\ t[k] = u[k + 1]
        BY <1>1
      <4> QED
        BY <4>1, <2>1, <1>4 DEF IsSet
    <3> QED
      BY <3>1, <3>2 DEF Holds
  <2>2. CASE j # 1
    <3>1. j - 1 \in DOMAIN t /\ t[j - 1] = u[j] /\ j - 1 < n - 1
      BY <2>2, <1>1, <1>4
    <3>2. IsSet(t, j - 1, s) /\ t[j - 1].name = name
      BY <3>1, <1>4 DEF IsSet
    <3>3. \A k \in DOMAIN t : j - 1 < k /\ k < n - 1 => ~IsSet(t, k, s)
      <4> SUFFICES ASSUME NEW k \in DOMAIN t, j - 1 < k, k < n - 1 PROVE ~IsSet(t, k, s)
        OBVIOUS
      <4>1. k + 1 \in DOMAIN u /\ j < k + 1 /\ k + 1 < n /\ t[k] = u[k + 1]
        BY <1>1
      <4> QED
        BY <4>1, <1>4 DEF IsSet
    <3> QED
      BY <3>1, <3>2, <3>3 DEF Holds
  <2> QED
    BY <2>1, <2>2
<1> QED
  BY <1>3, <1>4 DEF Holds, t

LEMMA HoldsSent ==
  ASSUME NEW u \in Seq(Frames), NEW r, NEW f \in Frames, NEW s, NEW name
  PROVE  /\ \A n \in 1 .. Len(u) + 1 : Holds(u, r, n, s, name) => Holds(Append(u, f), r, n, s, name)
         /\ Holds(u, r, Len(u) + 1, s, name) /\ ~(f.what = "set" /\ f.slot = s)
              => Holds(Append(u, f), r, Len(Append(u, f)) + 1, s, name)
         /\ f.what = "set" /\ f.slot = s => Holds(Append(u, f), r, Len(Append(u, f)) + 1, s, f.name)
<1> DEFINE v == Append(u, f)
           e == Len(u) + 1
<1>1. /\ DOMAIN v = DOMAIN u \cup {e} /\ v[e] = f /\ Len(v) = e /\ e \in Nat
      /\ \A i \in DOMAIN u : i < e /\ i \in Nat /\ v[i] = u[i]
  BY AppendFacts
<1> HIDE DEF v, e
<1>2. \A k \in DOMAIN u : IsSet(v, k, s) <=> IsSet(u, k, s)
  BY <1>1 DEF IsSet
<1>3. ASSUME NEW n \in 1 .. e, Holds(u, r, n, s, name) PROVE Holds(v, r, n, s, name)
  <2>1. \A k \in DOMAIN v : k < n => k \in DOMAIN u
    BY <1>1
  <2>2. CASE (\A k \in DOMAIN u : k < n => ~IsSet(u, k, s)) /\ r[s] = name
    BY <2>1, <2>2, <1>2 DEF Holds
  <2>3. ASSUME NEW j \in DOMAIN u, j < n, IsSet(u, j, s), u[j].name = name,
               \A k \in DOMAIN u : j < k /\ k < n => ~IsSet(u, k, s)
        PROVE  Holds(v, r, n, s, name)
    <3>1. j \in DOMAIN v /\ IsSet(v, j, s) /\ v[j].name = name
      BY <2>3, <1>1, <1>2
    <3>2. \A k \in DOMAIN v : j < k /\ k < n => ~IsSet(v, k, s)
      BY <2>1, <2>3, <1>2
    <3> QED
      BY <2>3, <3>1, <3>2 DEF Holds
  <2> QED
    BY <1>3, <2>2, <2>3 DEF Holds
<1>4. ASSUME Holds(u, r, e, s, name), ~(f.what = "set" /\ f.slot = s) PROVE Holds(v, r, e + 1, s, name)
  <2>1. ~IsSet(v, e, s)
    BY <1>1, <1>4 DEF IsSet
  <2>2. CASE (\A k \in DOMAIN u : k < e => ~IsSet(u, k, s)) /\ r[s] = name
    BY <2>1, <2>2, <1>1, <1>2 DEF Holds
  <2>3. ASSUME NEW j \in DOMAIN u, IsSet(u, j, s), u[j].name = name,
               \A k \in DOMAIN u : j < k /\ k < e => ~IsSet(u, k, s)
        PROVE  Holds(v, r, e + 1, s, name)
    <3>1. j \in DOMAIN v /\ IsSet(v, j, s) /\ v[j].name = name /\ j < e + 1
      BY <2>3, <1>1, <1>2
    <3>2. \A k \in DOMAIN v : j < k => ~IsSet(v, k, s)
      BY <2>1, <2>3, <1>1, <1>2
    <3> QED
      BY <3>1, <3>2 DEF Holds
  <2> QED
    BY <1>4, <2>2, <2>3 DEF Holds
<1>5. ASSUME f.what = "set", f.slot = s PROVE Holds(v, r, e + 1, s, f.name)
  <2>1. e \in DOMAIN v /\ IsSet(v, e, s) /\ v[e].name = f.name /\ e < e + 1
    BY <1>1, <1>5 DEF IsSet
  <2>2. \A k \in DOMAIN v : ~(e < k)
    BY <1>1
  <2> QED
    BY <2>1, <2>2 DEF Holds
<1> QED
  BY <1>1, <1>3, <1>4, <1>5 DEF v, e

LEMMA ChannelTyped ==
  ASSUME NEW s \in Slots, NEW n \in Names
  PROVE  /\ Channel(s, n) \in Recs
         /\ Channel(s, n).slot = s /\ Channel(s, n).name = n /\ Channel(s, n).msgs = <<>>
BY DEF Channel, Recs

LEMMA RecParts ==
  ASSUME NEW c \in Recs
  PROVE  c.slot \in Slots /\ c.name \in Names /\ c.msgs \in Seq(Rows \ {NoResult})
BY DEF Recs

LEMMA PlaceFacts ==
  ASSUME NEW s, IsListed(s)
  PROVE  Place(s) \in DOMAIN channels /\ channels[Place(s)].slot = s
BY DEF IsListed, Place

Edited(t, p, y) == [t EXCEPT ![p].msgs = y]

LEMMA EditFacts ==
  ASSUME NEW t \in Seq(Recs), NEW p \in DOMAIN t, NEW y \in Seq(Rows \ {NoResult}),
         NEW r, r = Edited(t, p, y)
  PROVE  /\ r \in Seq(Recs) /\ DOMAIN r = DOMAIN t
         /\ \A i \in DOMAIN t : r[i].slot = t[i].slot /\ r[i].name = t[i].name
         /\ r[p].msgs = y
         /\ \A i \in DOMAIN t : i # p => r[i] = t[i]
<1>1. t \in [1 .. Len(t) -> Recs] /\ p \in 1 .. Len(t) /\ Len(t) \in Nat
  OBVIOUS
<1>2. t[p] \in Recs /\ [t[p] EXCEPT !.msgs = y] \in Recs
  BY <1>1 DEF Recs
<1>3. PICK e \in Recs : e = [t[p] EXCEPT !.msgs = y]
  BY <1>2
<1>4. e.slot = t[p].slot /\ e.name = t[p].name /\ e.msgs = y
  BY <1>2, <1>3 DEF Recs
<1>5. r = [t EXCEPT ![p] = e]
  BY <1>3 DEF Edited
<1>6. r \in [1 .. Len(t) -> Recs] /\ r[p] = e /\ \A i \in 1 .. Len(t) : i # p => r[i] = t[i]
  BY <1>1, <1>5
<1>7. r \in Seq(Recs) /\ DOMAIN r = DOMAIN t
  BY <1>1, <1>6, SeqDef
<1>8. \A i \in DOMAIN t : r[i].slot = t[i].slot /\ r[i].name = t[i].name
  <2> SUFFICES ASSUME NEW i \in DOMAIN t PROVE r[i].slot = t[i].slot /\ r[i].name = t[i].name
    OBVIOUS
  <2>1. CASE i = p
    BY <2>1, <1>4, <1>6
  <2>2. CASE i # p
    BY <2>2, <1>6
  <2> QED
    BY <2>1, <2>2
<1> QED
  BY <1>4, <1>6, <1>7, <1>8

(* What a step makes of the list t: the same channels, one more, one less. *)
Same(t, r) ==
  DOMAIN r = DOMAIN t /\ \A i \in DOMAIN t : r[i].slot = t[i].slot /\ r[i].name = t[i].name
Gains(t, r, s, n) ==
  /\ DOMAIN r = DOMAIN t \cup {Len(t) + 1} /\ Len(t) + 1 \notin DOMAIN t
  /\ \A i \in DOMAIN t : r[i].slot = t[i].slot /\ r[i].name = t[i].name
  /\ r[Len(t) + 1].slot = s /\ r[Len(t) + 1].name = n
Loses(t, r, p) ==
  \E Q \in [DOMAIN r -> DOMAIN t] :
    /\ \A j \in DOMAIN r : r[j] = t[Q[j]] /\ Q[j] # p
    /\ \A i, j \in DOMAIN r : Q[i] = Q[j] => i = j
    /\ \A i \in DOMAIN t : i # p => \E j \in DOMAIN r : Q[j] = i

LEMMA DropFacts ==
  ASSUME NEW S, NEW t \in Seq(S), NEW p \in DOMAIN t, NEW r, r = RemoveAt(t, p)
  PROVE  r \in Seq(S) /\ Loses(t, r, p)
<1> DEFINE Q == [j \in DOMAIN r |-> IF j < p THEN j ELSE j + 1]
<1>1. /\ r \in Seq(S) /\ Len(r) = Len(t) - 1 /\ Len(t) \in Nat /\ p \in 1 .. Len(t)
      /\ \A i \in 1 .. Len(t) - 1 : r[i] = IF i < p THEN t[i] ELSE t[i + 1]
  BY RemoveAtFacts
<1>2. DOMAIN r = 1 .. Len(t) - 1 /\ DOMAIN t = 1 .. Len(t)
  BY <1>1
<1>3. \A j \in 1 .. Len(t) - 1 : Q[j] = IF j < p THEN j ELSE j + 1
  BY <1>2
<1>4. Q \in [DOMAIN r -> DOMAIN t]
  BY <1>1, <1>2
<1> HIDE DEF Q
<1>5. \A j \in DOMAIN r : r[j] = t[Q[j]] /\ Q[j] # p
  <2> SUFFICES ASSUME NEW j \in 1 .. Len(t) - 1 PROVE r[j] = t[Q[j]] /\ Q[j] # p
    BY <1>2
  <2>1. CASE j < p
    BY <2>1, <1>1, <1>3
  <2>2. CASE ~(j < p)
    BY <2>2, <1>1, <1>3
  <2> QED
    BY <2>1, <2>2
<1>6. \A i, j \in DOMAIN r : Q[i] = Q[j] => i = j
  <2> SUFFICES ASSUME NEW i \in 1 .. Len(t) - 1, NEW j \in 1 .. Len(t) - 1, Q[i] = Q[j] PROVE i = j
    BY <1>2
  <2>1. (IF i < p THEN i ELSE i + 1) = (IF j < p THEN j ELSE j + 1)
    BY <1>3
  <2> QED
    BY <2>1, <1>1
<1>7. ASSUME NEW i \in DOMAIN t, i # p PROVE \E j \in DOMAIN r : Q[j] = i
  <2>1. CASE i < p
    BY <2>1, <1>1, <1>2, <1>3
  <2>2. CASE i > p
    <3>1. i - 1 \in 1 .. Len(t) - 1 /\ ~(i - 1 < p) /\ (i - 1) + 1 = i
      BY <2>2, <1>1, <1>2
    <3>2. Q[i - 1] = i
      BY <3>1, <1>3
    <3> QED
      BY <3>1, <3>2, <1>2
  <2> QED
    BY <1>1, <1>2, <1>7, <2>1, <2>2
<1> QED
  BY <1>1, <1>4, <1>5, <1>6, <1>7 DEF Loses

LEMMA StoredFacts ==
  ASSUME TypeOK, Bounded, NEW s
  PROVE  /\ Len(at) \in Nat /\ StoredOf(s) \in SUBSET (1 .. Len(at)) /\ StoredOf(s) \subseteq Rows \ {NoResult}
         /\ Oldest(StoredOf(s)) \in Seq(StoredOf(s)) /\ ToSet(Oldest(StoredOf(s))) = StoredOf(s)
         /\ IsInjective(Oldest(StoredOf(s)))
<1>1. Len(at) \in Nat /\ StoredOf(s) \in SUBSET (1 .. Len(at))
  BY DEF TypeOK, StoredOf
<1>2. StoredOf(s) \subseteq Rows \ {NoResult}
  <2>1. \A m \in 1 .. Len(at) : m \in 1 .. NMsgs
    BY <1>1, ConstantFacts DEF Bounded
  <2> QED
    BY <2>1, <1>1, ConstantFacts
<1>3. PICK S : S = StoredOf(s)
  OBVIOUS
<1>4. Oldest(S) \in Seq(S) /\ ToSet(Oldest(S)) = S /\ IsInjective(Oldest(S))
  BY <1>1, <1>3, OldestFacts
<1> QED
  BY <1>1, <1>2, <1>3, <1>4

LEMMA LoadFacts ==
  ASSUME TypeOK, Bounded, NEW s, NEW m \in Seq(Rows \ {NoResult})
  PROVE  /\ LoadMessages(s, m) \in Seq(Rows \ {NoResult})
         /\ ToSet(LoadMessages(s, m)) \subseteq ToSet(m) \cup StoredOf(s)
         /\ known /\ m = <<>> => /\ ToSet(LoadMessages(s, m)) = StoredOf(s)
                                 /\ IsInjective(LoadMessages(s, m))
<1>1. CASE ~known
  <2>1. LoadMessages(s, m) = m
    BY <1>1 DEF LoadMessages
  <2> QED
    BY <2>1, <1>1
<1>2. CASE known
  <2>1. PICK o : o = Oldest(StoredOf(s))
    OBVIOUS
  <2>2. LoadMessages(s, m) = m \o o
    BY <1>2, <2>1 DEF LoadMessages
  <2>3. o \in Seq(StoredOf(s)) /\ ToSet(o) = StoredOf(s) /\ IsInjective(o) /\ StoredOf(s) \subseteq Rows \ {NoResult}
    BY <2>1, StoredFacts
  <2>4. o \in Seq(Rows \ {NoResult})
    BY <2>3
  <2>5. m \o o \in Seq(Rows \ {NoResult})
    BY <2>4
  <2>6. /\ Len(m \o o) = Len(m) + Len(o)
        /\ \A i \in 1 .. Len(m) + Len(o) : (m \o o)[i] = IF i <= Len(m) THEN m[i] ELSE o[i - Len(m)]
    BY <2>4, ConcatProperties
  <2>7. ToSet(m \o o) \subseteq ToSet(m) \cup ToSet(o)
    <3>1. ASSUME NEW i \in DOMAIN (m \o o) PROVE (m \o o)[i] \in ToSet(m) \cup ToSet(o)
      <4>1. i \in 1 .. Len(m) + Len(o) /\ Len(m) \in Nat /\ Len(o) \in Nat
        BY <2>4, <2>5, <2>6
      <4>2. CASE i <= Len(m)
        BY <4>1, <4>2, <2>6 DEF ToSet
      <4>3. CASE i > Len(m)
        <5>1. PICK k \in DOMAIN o : k = i - Len(m)
          BY <4>1, <4>3, <2>4
        <5> QED
          BY <4>1, <4>3, <5>1, <2>6 DEF ToSet
      <4> QED
        BY <4>1, <4>2, <4>3
    <3> QED
      BY <3>1 DEF ToSet
  <2>8. m = <<>> => m \o o = o
    BY <2>4
  <2> QED
    BY <2>2, <2>3, <2>5, <2>7, <2>8
<1> QED
  BY <1>1, <1>2

(* The list t with what is stored loaded into it.                          *)
Reloaded(t) == [i \in DOMAIN t |-> [t[i] EXCEPT !.msgs = LoadMessages(t[i].slot, @)]]

LEMMA LoadsFacts ==
  ASSUME TypeOK, Bounded, NEW t \in Seq(Recs),
         NEW r, r = Reloaded(t)
  PROVE  /\ r \in Seq(Recs) /\ DOMAIN r = DOMAIN t
         /\ \A i \in DOMAIN t : /\ r[i].slot = t[i].slot /\ r[i].name = t[i].name
                                /\ r[i].msgs = LoadMessages(t[i].slot, t[i].msgs)
<1> USE DEF Reloaded
<1>1. ASSUME NEW i \in DOMAIN t
      PROVE  /\ r[i] \in Recs /\ r[i].slot = t[i].slot /\ r[i].name = t[i].name
             /\ r[i].msgs = LoadMessages(t[i].slot, t[i].msgs)
  <2>1. t[i] \in Recs
    OBVIOUS
  <2>2. PICK y \in Seq(Rows \ {NoResult}) : y = LoadMessages(t[i].slot, t[i].msgs)
    BY <2>1, RecParts, LoadFacts
  <2>3. r[i] = [t[i] EXCEPT !.msgs = y]
    BY <2>2
  <2> QED
    BY <2>1, <2>2, <2>3 DEF Recs
<1>2. DOMAIN r = 1 .. Len(t) /\ Len(t) \in Nat
  OBVIOUS
<1>3. r \in [1 .. Len(t) -> Recs]
  <2>1. r = [i \in DOMAIN r |-> r[i]]
    OBVIOUS
  <2> QED
    BY <1>1, <1>2, <2>1
<1> QED
  BY <1>1, <1>2, <1>3, SeqDef
-----------------------------------------------------------------------------
(* The list.                                                               *)

LEMMA TypeFacts ==
  TypeOK => /\ channels \in Seq(Recs) /\ up \in Seq(Frames) /\ inbox \in Seq(Frames)
            /\ radio \in [Slots -> Names \cup {Empty}]
            /\ at \in Seq(Slots) /\ view \in Seq(Rows) /\ db \subseteq Slots \X (Rows \ {NoResult})
BY DEF TypeOK, Recs

LEMMA HandlesFacts ==
  ASSUME TypeOK, NEW what, Handles(what)
  PROVE  /\ inbox # <<>> /\ inbox' = Tail(inbox) /\ inbox' \in Seq(Frames)
         /\ Head(inbox) = inbox[1] /\ inbox[1] \in Frames /\ inbox[1].what = what /\ 1 \in DOMAIN inbox
         /\ Slot = inbox[1].slot /\ Slot \in Slots
         /\ \A i \in DOMAIN inbox' : i + 1 \in DOMAIN inbox /\ i + 1 # 1 /\ inbox'[i] = inbox[i + 1]
         /\ \A k \in DOMAIN inbox : k # 1 => k - 1 \in DOMAIN inbox' /\ inbox'[k - 1] = inbox[k]
<1>1. inbox # <<>> /\ inbox' = Tail(inbox) /\ Head(inbox).what = what /\ inbox \in Seq(Frames)
  BY TypeFacts DEF Handles
<1>2. /\ Tail(inbox) \in Seq(Frames)
      /\ Head(inbox) = inbox[1] /\ inbox[1] \in Frames /\ 1 \in DOMAIN inbox
      /\ \A i \in DOMAIN Tail(inbox) : i + 1 \in DOMAIN inbox /\ i + 1 # 1 /\ Tail(inbox)[i] = inbox[i + 1]
      /\ \A k \in DOMAIN inbox : k # 1 => k - 1 \in DOMAIN Tail(inbox) /\ Tail(inbox)[k - 1] = inbox[k]
  BY <1>1, TailFacts
<1> QED
  BY <1>1, <1>2, FrameParts DEF Slot

LEMMA AddedFacts ==
  ASSUME TypeOK, NEW what, Handles(what)
  PROVE  /\ Added \in Seq(Recs)
         /\ \A i \in DOMAIN channels : i \in DOMAIN Added /\ Added[i] = channels[i]
         /\ \/ Added = channels /\ (Slot < max => IsListed(Slot) \/ inbox[1].name = Empty)
            \/ /\ ~IsListed(Slot) /\ inbox[1].name \in Names
               /\ Gains(channels, Added, Slot, inbox[1].name)
               /\ Added[Len(channels) + 1].msgs = <<>>
<1>1. inbox[1] = Head(inbox) /\ inbox[1] \in Frames /\ Slot \in Slots /\ channels \in Seq(Recs)
  BY HandlesFacts, TypeFacts
<1>2. CASE Known(Slot) /\ inbox[1].name # Empty /\ ~IsListed(Slot)
  <2>1. inbox[1].name \in Names
    BY <1>1, <1>2, FrameParts
  <2>2. PICK c \in Recs : c = Channel(Slot, inbox[1].name)
    BY <1>1, <2>1, ChannelTyped
  <2>3. c.slot = Slot /\ c.name = inbox[1].name /\ c.msgs = <<>>
    BY <1>1, <2>1, <2>2, ChannelTyped
  <2>4. Added = Append(channels, c)
    BY <1>1, <1>2, <2>2 DEF Added
  <2>5. /\ Added \in Seq(Recs)
        /\ DOMAIN Added = DOMAIN channels \cup {Len(channels) + 1} /\ Len(channels) + 1 \notin DOMAIN channels
        /\ Added[Len(channels) + 1] = c
        /\ \A i \in DOMAIN channels : Added[i] = channels[i]
    BY <1>1, <2>4, AppendFacts
  <2> QED
    BY <1>2, <2>1, <2>3, <2>5 DEF Gains
<1>3. CASE ~(Known(Slot) /\ inbox[1].name # Empty /\ ~IsListed(Slot))
  <2>1. Added = channels
    BY <1>1, <1>3 DEF Added
  <2>2. Slot < max => Known(Slot)
    BY DEF Known
  <2> QED
    BY <1>1, <1>3, <2>1, <2>2
<1> QED
  BY <1>2, <1>3

LEMMA FiledFacts ==
  ASSUME TypeOK, NEW s, NEW m \in Rows \ {NoResult}, NEW r, r = Filed(s, m)
  PROVE  /\ r \in Seq(Recs) /\ Same(channels, r)
         /\ \A i \in DOMAIN channels :
              \/ r[i].msgs = channels[i].msgs
              \/ channels[i].slot = s /\ r[i].msgs = Append(channels[i].msgs, m)
         /\ SlotsDistinct => \A i \in DOMAIN channels :
              channels[i].slot = s => r[i].msgs = Append(channels[i].msgs, m)
<1>1. channels \in Seq(Recs)
  BY TypeFacts
<1>2. CASE ~IsListed(s)
  <2>1. r = channels
    BY <1>2 DEF Filed
  <2> QED
    BY <1>1, <1>2, <2>1 DEF Same, IsListed
<1>3. CASE IsListed(s)
  <2>1. PICK p \in DOMAIN channels : p = Place(s) /\ channels[p].slot = s
    BY <1>3, PlaceFacts
  <2>2. PICK y \in Seq(Rows \ {NoResult}) : y = Append(channels[p].msgs, m)
    <3>1. channels[p] \in Recs
      BY <1>1
    <3>2. channels[p].msgs \in Seq(Rows \ {NoResult})
      BY <3>1, RecParts
    <3> QED
      BY <3>2, AppendFacts
  <2>3. r = Edited(channels, p, y)
    BY <1>3, <2>1, <2>2 DEF Filed, Edited
  <2>4. /\ r \in Seq(Recs) /\ DOMAIN r = DOMAIN channels
        /\ \A i \in DOMAIN channels : r[i].slot = channels[i].slot /\ r[i].name = channels[i].name
        /\ r[p].msgs = y
        /\ \A i \in DOMAIN channels : i # p => r[i] = channels[i]
    BY <1>1, <2>3, EditFacts
  <2>5. SlotsDistinct => \A i \in DOMAIN channels : channels[i].slot = s => i = p
    BY <2>1 DEF SlotsDistinct
  <2> QED
    BY <2>1, <2>2, <2>4, <2>5 DEF Same
<1> QED
  BY <1>2, <1>3

(* The user's deletions, of one message and of all.                        *)
LEMMA DeletedFacts ==
  ASSUME TypeOK, NEW i \in Nat \ {0}, DeleteMessage(i)
  PROVE  /\ channels' \in Seq(Recs) /\ Same(channels, channels')
         /\ shown \in Slots /\ i \in DOMAIN view
         /\ \A k \in DOMAIN channels :
              \/ channels'[k].msgs = channels[k].msgs
              \/ /\ k = Place(shown) /\ IsListed(shown)
                 /\ i \in DOMAIN channels[k].msgs /\ channels'[k].msgs = RemoveAt(channels[k].msgs, i)
         /\ IsListed(shown) =>
              LET k == Place(shown) IN
              IF i <= Len(channels[k].msgs) THEN channels'[k].msgs = RemoveAt(channels[k].msgs, i)
                                            ELSE channels' = channels
<1>1. channels \in Seq(Recs) /\ i \in DOMAIN view /\ shown \in Slots
  BY TypeFacts DEF DeleteMessage, TypeOK
<1>2. CASE ~IsListed(shown)
  <2>1. Len(MessagesOf(shown)) = 0
    BY <1>2 DEF MessagesOf
  <2>2. channels' = channels
    BY <2>1 DEF DeleteMessage
  <2> QED
    BY <1>1, <1>2, <2>2 DEF Same
<1>3. CASE IsListed(shown)
  <2>1. PICK p \in DOMAIN channels : p = Place(shown) /\ channels[p].slot = shown
    BY <1>3, PlaceFacts
  <2>2. PICK ms \in Seq(Rows \ {NoResult}) : ms = channels[p].msgs
    <3>1. channels[p] \in Recs
      BY <1>1
    <3> QED
      BY <3>1, RecParts
  <2>3. channels' = IF i <= Len(ms) THEN [channels EXCEPT ![p].msgs = RemoveAt(ms, i)] ELSE channels
    BY <1>3, <2>1, <2>2 DEF DeleteMessage, MessagesOf
  <2>4. CASE i <= Len(ms)
    <3>1. i \in DOMAIN ms
      BY <2>2, <2>4
    <3>2. PICK y \in Seq(Rows \ {NoResult}) : y = RemoveAt(ms, i)
      BY <3>1, RemoveAtFacts
    <3>3. /\ channels' \in Seq(Recs) /\ DOMAIN channels' = DOMAIN channels
          /\ \A k \in DOMAIN channels : channels'[k].slot = channels[k].slot /\ channels'[k].name = channels[k].name
          /\ channels'[p].msgs = y
          /\ \A k \in DOMAIN channels : k # p => channels'[k] = channels[k]
      <4>1. PICK r : r = channels'
        OBVIOUS
      <4>2. r = Edited(channels, p, y)
        BY <2>3, <2>4, <3>2, <4>1 DEF Edited
      <4> QED
        BY <1>1, <4>1, <4>2, EditFacts
    <3> QED
      BY <1>1, <1>3, <2>1, <2>2, <2>4, <3>1, <3>2, <3>3 DEF Same
  <2>5. CASE ~(i <= Len(ms))
    BY <1>1, <1>3, <2>1, <2>2, <2>3, <2>5 DEF Same
  <2> QED
    BY <2>4, <2>5
<1> QED
  BY <1>2, <1>3

LEMMA ClearedFacts ==
  ASSUME TypeOK, NEW s \in Slots, ClearChat(s)
  PROVE  /\ channels' \in Seq(Recs) /\ Same(channels, channels')
         /\ \A k \in DOMAIN channels :
              \/ channels'[k].msgs = channels[k].msgs
              \/ channels[k].slot = s /\ channels'[k].msgs = <<>>
         /\ SlotsDistinct => \A k \in DOMAIN channels : channels[k].slot = s => channels'[k].msgs = <<>>
<1>1. channels \in Seq(Recs)
  BY TypeFacts
<1>2. CASE ~IsListed(s)
  BY <1>1, <1>2 DEF ClearChat, Same, IsListed
<1>3. CASE IsListed(s)
  <2>1. PICK p \in DOMAIN channels : p = Place(s) /\ channels[p].slot = s
    BY <1>3, PlaceFacts
  <2>2. PICK y \in Seq(Rows \ {NoResult}) : y = <<>>
    <3>1. <<>> \in Seq(Rows \ {NoResult})
      OBVIOUS
    <3> QED
      BY <3>1
  <2>3. PICK r : r = channels'
    OBVIOUS
  <2>4. r = Edited(channels, p, y)
    BY <1>3, <2>1, <2>2, <2>3 DEF ClearChat, Edited
  <2>5. /\ r \in Seq(Recs) /\ DOMAIN r = DOMAIN channels
        /\ \A i \in DOMAIN channels : r[i].slot = channels[i].slot /\ r[i].name = channels[i].name
        /\ r[p].msgs = y
        /\ \A i \in DOMAIN channels : i # p => r[i] = channels[i]
    BY <1>1, <2>4, EditFacts
  <2>6. SlotsDistinct => \A i \in DOMAIN channels : channels[i].slot = s => i = p
    BY <2>1 DEF SlotsDistinct
  <2> QED
    BY <2>1, <2>2, <2>3, <2>5, <2>6 DEF Same
<1> QED
  BY <1>2, <1>3

LEMMA AddsFacts ==
  ASSUME TypeOK, NEW s \in Slots, NEW n \in Names, AddChannel(s, n)
  PROVE  /\ channels' \in Seq(Recs) /\ Gains(channels, channels', s, n)
         /\ \A i \in DOMAIN channels : channels'[i] = channels[i]
         /\ channels'[Len(channels) + 1].msgs = <<>>
<1>1. PICK c \in Recs : c = Channel(s, n)
  BY ChannelTyped
<1>2. c.slot = s /\ c.name = n /\ c.msgs = <<>>
  BY <1>1, ChannelTyped
<1>3. channels' = Append(channels, c) /\ channels \in Seq(Recs)
  BY <1>1, TypeFacts DEF AddChannel
<1>4. /\ channels' \in Seq(Recs)
      /\ DOMAIN channels' = DOMAIN channels \cup {Len(channels) + 1} /\ Len(channels) + 1 \notin DOMAIN channels
      /\ channels'[Len(channels) + 1] = c
      /\ \A i \in DOMAIN channels : channels'[i] = channels[i]
  BY <1>3, AppendFacts
<1> QED
  BY <1>2, <1>4 DEF Gains

LEMMA FreeSlot ==
  ASSUME TypeOK, FreeSlots # {}
  PROVE  EmptySlot \in Slots /\ ~IsListed(EmptySlot) /\ EmptySlot < max
<1>1. FreeSlots \in SUBSET Nat
  BY ConstantFacts DEF FreeSlots, Slots
<1>2. \E s \in FreeSlots : \A t \in FreeSlots : s <= t
  BY <1>1, LowestExists
<1>3. EmptySlot \in FreeSlots
  BY <1>2 DEF EmptySlot
<1> QED
  BY <1>3 DEF FreeSlots

(* A channel is made in a slot that is not listed.                         *)
LEMMA MakesFacts ==
  ASSUME TypeOK, NEW n \in Names, CreateChannel(n) \/ AddCommunity(n) \/ AddPublicChannel(n)
  PROVE  /\ connected /\ Happens
         /\ \E s \in Slots : ~IsListed(s) /\ AddChannel(s, n)
BY FreeSlot, ConstantFacts DEF CreateChannel, AddCommunity, AddPublicChannel

(* A message that is handled went through its slot and is not stored.      *)
LEMMA MessageFacts ==
  ASSUME TypeOK, Bounded, InboxInv, ChannelMsgRecv
  PROVE  /\ Head(inbox) = inbox[1] /\ inbox[1].slot = Slot /\ Slot \in Slots
         /\ inbox[1].id \in Rows \ {NoResult} /\ InSlot(inbox[1].id, Slot, at)
         /\ \A row \in db : row[2] # inbox[1].id
<1>1. Handles("message")
  BY DEF ChannelMsgRecv
<1>2. /\ Head(inbox) = inbox[1] /\ 1 \in DOMAIN inbox /\ inbox[1].what = "message"
      /\ Slot = inbox[1].slot /\ Slot \in Slots
  BY <1>1, HandlesFacts
<1>3. InSlot(inbox[1].id, Slot, at) /\ \A row \in db : row[2] # inbox[1].id
  BY <1>2 DEF InboxInv, IsMessage
<1>4. inbox[1].id \in 1 .. NMsgs
  BY <1>3, ConstantFacts DEF InSlot, Bounded, TypeOK
<1> QED
  BY <1>2, <1>3, <1>4, ConstantFacts

LEMMA NextMessage ==
  ASSUME TypeOK, Len(at) < NMsgs
  PROVE  Len(at) + 1 \in Rows \ {NoResult}
<1>1. Len(at) \in Nat
  BY TypeFacts
<1>2. Len(at) + 1 \in 1 .. NMsgs
  BY <1>1, ConstantFacts
<1> QED
  BY <1>2, ConstantFacts

LEMMA ListMoves ==
  ASSUME TypeOK, Bounded, InboxInv, Next
  PROVE  /\ channels' \in Seq(Recs)
         /\ \/ Same(channels, channels')
            \/ channels' = <<>>
            \/ \E s \in Slots, n \in Names : ~IsListed(s) /\ Gains(channels, channels', s, n)
            \/ \E p \in DOMAIN channels : Loses(channels, channels', p)
<1> DEFINE Goal == /\ channels' \in Seq(Recs)
                   /\ \/ Same(channels, channels')
                      \/ channels' = <<>>
                      \/ \E s \in Slots, n \in Names : ~IsListed(s) /\ Gains(channels, channels', s, n)
                      \/ \E p \in DOMAIN channels : Loses(channels, channels', p)
<1>0. channels \in Seq(Recs)
  BY TypeFacts
<1>1. CASE channels' = channels
  BY <1>0, <1>1 DEF Same
<1>2. CASE DeviceInfo
  <2>1. channels' = <<>>
    BY <1>2 DEF DeviceInfo
  <2>2. <<>> \in Seq(Recs)
    OBVIOUS
  <2> QED
    BY <2>1, <2>2
<1>3. CASE ChannelInfo
  <2>1. /\ Added \in Seq(Recs)
        /\ \/ Added = channels
           \/ /\ ~IsListed(Slot) /\ inbox[1].name \in Names /\ Slot \in Slots
              /\ Gains(channels, Added, Slot, inbox[1].name)
    BY <1>3, AddedFacts, HandlesFacts DEF ChannelInfo
  <2>2. PICK t : t = Added
    OBVIOUS
  <2>3. channels' \in Seq(Recs) /\ Same(t, channels')
    <3>1. CASE channels' = Added
      BY <2>1, <2>2, <3>1 DEF Same
    <3>2. CASE channels' = Reloaded(Added)
      <4>1. PICK r : r = channels'
        OBVIOUS
      <4>2. t \in Seq(Recs) /\ r = Reloaded(t)
        BY <2>1, <2>2, <3>2, <4>1
      <4>3. /\ r \in Seq(Recs) /\ DOMAIN r = DOMAIN t
            /\ \A i \in DOMAIN t : /\ r[i].slot = t[i].slot /\ r[i].name = t[i].name
                                   /\ r[i].msgs = LoadMessages(t[i].slot, t[i].msgs)
        BY <4>2, LoadsFacts
      <4> QED
        BY <4>1, <4>3 DEF Same
    <3> QED
      BY <1>3, <3>1, <3>2 DEF ChannelInfo, Reloaded
  <2>4. CASE t = channels
    BY <2>3, <2>4
  <2>5. CASE ~IsListed(Slot) /\ inbox[1].name \in Names /\ Slot \in Slots /\ Gains(channels, t, Slot, inbox[1].name)
    <3>1. Gains(channels, channels', Slot, inbox[1].name)
      BY <2>3, <2>5 DEF Gains, Same
    <3> QED
      BY <2>3, <2>5, <3>1
  <2> QED
    BY <2>1, <2>2, <2>4, <2>5
<1>4. CASE CmdError
  <2>1. CASE enumerating
    <3>1. PICK r : r = channels'
      OBVIOUS
    <3>2. r = Reloaded(channels)
      BY <1>4, <2>1, <3>1 DEF CmdError, Loaded, Reloaded
    <3>3. /\ r \in Seq(Recs) /\ DOMAIN r = DOMAIN channels
          /\ \A i \in DOMAIN channels : /\ r[i].slot = channels[i].slot /\ r[i].name = channels[i].name
                                        /\ r[i].msgs = LoadMessages(channels[i].slot, channels[i].msgs)
      BY <1>0, <3>2, LoadsFacts
    <3> QED
      BY <3>1, <3>3 DEF Same
  <2>2. CASE ~enumerating
    BY <1>1, <1>4, <2>2 DEF CmdError
  <2> QED
    BY <2>1, <2>2
<1>5. CASE ChannelMsgRecv
  <2>1. channels' = Filed(Slot, inbox[1].id) /\ inbox[1].id \in Rows \ {NoResult}
    BY <1>5, MessageFacts DEF ChannelMsgRecv
  <2> QED
    BY <2>1, FiledFacts
<1>6. CASE SendChannelMessage
  <2>1. channels' = Filed(shown, Len(at) + 1) /\ Len(at) + 1 \in Rows \ {NoResult}
    BY <1>6, NextMessage DEF SendChannelMessage
  <2> QED
    BY <2>1, FiledFacts
<1>7. ASSUME NEW n \in Names, CreateChannel(n) \/ AddCommunity(n) \/ AddPublicChannel(n) PROVE Goal
  BY <1>7, MakesFacts, AddsFacts
<1>8. ASSUME NEW s \in Slots, RemoveChannel(s) PROVE Goal
  <2>1. CASE IsListed(s)
    <3>1. PICK p \in DOMAIN channels : p = Place(s)
      BY <2>1, PlaceFacts
    <3>2. channels' = RemoveAt(channels, p)
      BY <1>8, <2>1, <3>1 DEF RemoveChannel
    <3>3. channels' \in Seq(Recs) /\ Loses(channels, channels', p)
      BY <1>0, <3>2, DropFacts
    <3> QED
      BY <3>3
  <2>2. CASE ~IsListed(s)
    BY <1>1, <1>8, <2>2 DEF RemoveChannel
  <2> QED
    BY <2>1, <2>2
<1>9. ASSUME NEW i \in 1 .. NMsgs, DeleteMessage(i) PROVE Goal
  BY <1>9, DeletedFacts
<1>10. ASSUME NEW s \in Slots, ClearChat(s) PROVE Goal
  BY <1>10, ClearedFacts
<1> USE DEF air, list, screen, history
<1>11. CASE Link \/ RadioServes \/ RadioComplains
  BY <1>1, <1>11 DEF Link, RadioServes, OnConnected, OnDisconnected, PostConnectInit, DeviceQuery,
                     RadioStarts, RadioTells, RadioGets, RadioSets, Serves, RadioComplains
<1>12. CASE SelfInfo
  BY <1>1, <1>12 DEF SelfInfo
<1>13. ASSUME NEW s \in Slots, SelectChannel(s) \/ RadioHears(s) \/ (\E n \in Names : ImportChannels(s, n)) PROVE Goal
  BY <1>1, <1>13 DEF SelectChannel, RadioHears, ImportChannels
<1>14. CASE SelectContact \/ CloseSearch \/ \E found \in SUBSET (1 .. NMsgs) : PerformSearch(found)
  BY <1>1, <1>14 DEF SelectContact, CloseSearch, PerformSearch
<1> QED
  BY <1>2, <1>3, <1>4, <1>5, <1>6, <1>7, <1>8, <1>9, <1>10, <1>11, <1>12, <1>13, <1>14
     DEF Next, Handler, Edit, Chat

LEMMA DistinctStep ==
  ASSUME TypeOK, Bounded, InboxInv, SlotsDistinct, Next
  PROVE  SlotsDistinct'
<1>1. CASE Same(channels, channels')
  BY <1>1 DEF SlotsDistinct, Same
<1>2. CASE channels' = <<>>
  BY <1>2 DEF SlotsDistinct
<1>3. ASSUME NEW s \in Slots, NEW n \in Names, ~IsListed(s), Gains(channels, channels', s, n)
      PROVE  SlotsDistinct'
  BY <1>3 DEF SlotsDistinct, Gains, IsListed
<1>4. ASSUME NEW p \in DOMAIN channels, Loses(channels, channels', p)
      PROVE  SlotsDistinct'
  BY <1>4 DEF SlotsDistinct, Loses
<1> QED
  BY <1>1, <1>2, <1>3, <1>4, ListMoves
-----------------------------------------------------------------------------
(* Commands and frames.                                                    *)

(* Only a channel made in a slot that is not listed may be sure.           *)
Trusts(f) == f.what = "set" /\ f.sure => calm /\ ~enumerating /\ ~IsListed(f.slot)
Served(u, r) == IF u[1].what = "set" THEN [r EXCEPT ![u[1].slot] = u[1].name] ELSE r

LEMMA UpMoves ==
  ASSUME TypeOK, Bounded, Next
  PROVE  \/ /\ radio' = radio
            /\ \/ up' = up
               \/ OnDisconnected /\ up' = <<>>
               \/ OnConnected /\ up' = <<Ask("start")>>
               \/ \E f \in Frames : up' = Append(up, f) /\ Trusts(f)
               \/ \E f, g \in Frames : up' = Append(Append(up, f), g) /\ Trusts(f) /\ g.what = "get"
         \/ RadioServes /\ up # <<>> /\ up' = Tail(up) /\ radio' = Served(up, radio)
<1> DEFINE Sent == \/ up' = up \/ \E f \in Frames : up' = Append(up, f) /\ Trusts(f)
                   \/ \E f, g \in Frames : up' = Append(Append(up, f), g) /\ Trusts(f) /\ g.what = "get"
<1>0. up \in Seq(Frames) /\ radio \in [Slots -> Names \cup {Empty}] /\ index \in Nat /\ index \in 0 .. NSlots /\ max \in {0, NSlots}
  BY TypeFacts, ConstantFacts DEF TypeOK
<1> USE DEF air, list, screen, history
<1>1. ASSUME NEW f \in Frames, Trusts(f), Send(<<f>>) PROVE Sent
  BY <1>0, <1>1, Sends
<1>2. ASSUME NEW f \in Frames, f.what # "set", Send(<<f>>) PROVE Sent
  BY <1>1, <1>2 DEF Trusts
<1>3. ASSUME OnConnected \/ OnDisconnected
      PROVE  radio' = radio /\ ((OnDisconnected /\ up' = <<>>) \/ (OnConnected /\ up' = <<Ask("start")>>))
  <2>1. radio' = radio
    BY <1>3 DEF OnConnected, OnDisconnected
  <2>2. OnConnected => up' = <<Ask("start")>>
    BY DEF OnConnected
  <2>3. OnDisconnected => up' = <<>>
    BY DEF OnDisconnected
  <2> QED
    BY <1>3, <2>1, <2>2, <2>3
<1>4. ASSUME PostConnectInit \/ DeviceQuery PROVE radio' = radio /\ Sent
  <2>1. Send(<<Ask("query")>>) /\ radio' = radio
    BY <1>4 DEF PostConnectInit, DeviceQuery, air
  <2>2. Ask("query") \in Frames /\ Ask("query").what = "query"
    BY FramesTyped
  <2> QED
    BY <1>2, <2>1, <2>2
<1>5. ASSUME RadioServes PROVE up # <<>> /\ up' = Tail(up) /\ radio' = Served(up, radio)
  <2>1. up # <<>> /\ Head(up) = up[1] /\ up' = Tail(up)
    BY <1>0, <1>5, TailFacts DEF RadioServes, RadioStarts, RadioTells, RadioGets, RadioSets, Serves
  <2>2. radio' = Served(up, radio)
    BY <1>5, <2>1 DEF RadioServes, RadioStarts, RadioTells, RadioGets, RadioSets, Serves, Served
  <2> QED
    BY <2>1, <2>2
<1>6. ASSUME DeviceInfo PROVE radio' = radio /\ Sent
  <2>1. Send(<<Get(0)>>) /\ radio' = radio
    BY <1>6 DEF DeviceInfo, Handles
  <2>2. Get(0) \in Frames /\ Get(0).what = "get"
    BY FramesTyped, ConstantFacts
  <2> QED
    BY <1>2, <2>1, <2>2
<1>7. ASSUME ChannelInfo PROVE radio' = radio /\ Sent
  <2>1. radio' = radio
    BY <1>7 DEF ChannelInfo, Handles
  <2>2. CASE enumerating /\ index + 1 < max /\ Send(<<Get(index + 1)>>)
    <3>1. index + 1 \in Slots
      BY <1>0, <2>2, ConstantFacts DEF Slots
    <3>2. Get(index + 1) \in Frames /\ Get(index + 1).what = "get"
      BY <3>1, FramesTyped
    <3> QED
      BY <1>2, <2>1, <2>2, <3>2
  <2> QED
    BY <1>7, <2>1, <2>2 DEF ChannelInfo
<1>8. ASSUME NEW n \in Names, CreateChannel(n) \/ AddCommunity(n) \/ AddPublicChannel(n)
      PROVE  radio' = radio /\ Sent
  <2>1. PICK s \in Slots : ~IsListed(s) /\ AddChannel(s, n)
    BY <1>8, MakesFacts
  <2>2. PICK b \in BOOLEAN : b = (calm /\ ~enumerating)
    OBVIOUS
  <2>3. PICK f : f = [Set(s, n) EXCEPT !.sure = b]
    OBVIOUS
  <2>4. f \in Frames
    BY <2>3, FramesTyped
  <2>5. f.slot = s /\ f.sure = b
    BY <2>3, Fields
  <2>6. Trusts(f)
    BY <2>1, <2>2, <2>5, Zenon DEF Trusts
  <2>7. up' = Append(up, f) /\ radio' = radio
    BY <2>1, <2>2, <2>3 DEF AddChannel
  <2> QED
    BY <2>4, <2>6, <2>7
<1>9. ASSUME NEW s \in Slots, RemoveChannel(s) PROVE radio' = radio /\ Sent
  <2>1. Set(s, Empty) \in Frames /\ Set(s, Empty).sure = FALSE
    BY FramesTyped
  <2>2. Trusts(Set(s, Empty))
    BY <2>1, Zenon DEF Trusts
  <2>3. Send(<<Set(s, Empty)>>) /\ radio' = radio
    BY <1>9 DEF RemoveChannel
  <2> QED
    BY <1>1, <2>1, <2>2, <2>3
<1>10. ASSUME NEW s \in Slots, NEW n \in Names, ImportChannels(s, n) PROVE radio' = radio /\ Sent
  <2>1. Set(s, n) \in Frames /\ Set(s, n).sure = FALSE /\ Get(0) \in Frames /\ Get(0).what = "get"
    BY FramesTyped, ConstantFacts
  <2>2. Trusts(Set(s, n))
    BY <2>1, Zenon DEF Trusts
  <2>3. Send(<<Set(s, n), Get(0)>>) /\ radio' = radio
    BY <1>10 DEF ImportChannels
  <2> QED
    BY <1>0, <2>1, <2>2, <2>3, Sends
<1>11. ASSUME SelfInfo \/ CmdError \/ ChannelMsgRecv \/ RadioComplains \/ Chat \/ \E s \in Slots : RadioHears(s)
       PROVE  radio' = radio /\ Sent
  <2>1. radio' = radio /\ up' = up
    BY <1>11 DEF SelfInfo, CmdError, ChannelMsgRecv, RadioComplains, Chat, RadioHears, Handles, air,
                 SelectChannel, ClearChat, SelectContact, SendChannelMessage, CloseSearch, DeleteMessage, PerformSearch
  <2> QED
    BY <2>1
<1>12. ASSUME Edit PROVE radio' = radio /\ Sent
  <2> HIDE DEF Sent
  <2> QED
    BY <1>8, <1>9, <1>10, <1>12, Zenon DEF Edit
<1>13. \/ radio' = radio /\ ((OnDisconnected /\ up' = <<>>) \/ (OnConnected /\ up' = <<Ask("start")>>))
       \/ RadioServes /\ up # <<>> /\ up' = Tail(up) /\ radio' = Served(up, radio)
       \/ radio' = radio /\ Sent
  <2> HIDE DEF Sent
  <2> QED
    BY <1>3, <1>4, <1>5, <1>6, <1>7, <1>11, <1>12, Zenon DEF Next, Link, Handler
<1> QED
  BY <1>13

LEMMA UpTyped ==
  ASSUME TypeOK, Bounded, Next
  PROVE  up' \in Seq(Frames) /\ radio' \in [Slots -> Names \cup {Empty}]
<1>0. up \in Seq(Frames) /\ radio \in [Slots -> Names \cup {Empty}]
  BY TypeFacts
<1>1. ASSUME up # <<>>, up' = Tail(up), radio' = Served(up, radio)
      PROVE  up' \in Seq(Frames) /\ radio' \in [Slots -> Names \cup {Empty}]
  <2>1. up[1] \in Frames /\ Tail(up) \in Seq(Frames)
    BY <1>0, <1>1, TailFacts
  <2>2. up[1].slot \in Slots /\ up[1].name \in Names \cup {Empty}
    BY <2>1, FrameParts
  <2> QED
    BY <1>0, <1>1, <2>1, <2>2 DEF Served
<1>2. <<>> \in Seq(Frames)
  OBVIOUS
<1>3. <<Ask("start")>> \in Seq(Frames)
  <2>1. Ask("start") \in Frames
    BY FramesTyped
  <2> QED
    BY <2>1
<1>4. ASSUME NEW f \in Frames, NEW g \in Frames
      PROVE  Append(up, f) \in Seq(Frames) /\ Append(Append(up, f), g) \in Seq(Frames)
  BY <1>0
<1> QED
  BY <1>0, <1>1, <1>2, <1>3, <1>4, UpMoves

LEMMA InboxMoves ==
  ASSUME TypeOK, Next
  PROVE  \/ inbox' = inbox
         \/ Handler /\ inbox # <<>> /\ inbox' = Tail(inbox)
         \/ \E f \in Frames : f.what # "message" /\ inbox' = Append(inbox, f)
         \/ \E s \in Slots : RadioHears(s)
<1>0. up \in Seq(Frames) /\ inbox \in Seq(Frames) /\ radio \in [Slots -> Names \cup {Empty}]
  BY TypeFacts
<1> DEFINE Got == \E f \in Frames : f.what # "message" /\ inbox' = Append(inbox, f)
<1> USE DEF air, list, screen, history
<1>1. ASSUME RadioStarts \/ RadioTells \/ RadioComplains PROVE Got
  <2>1. PICK what \in {"self", "device", "error"} : inbox' = Append(inbox, Ask(what))
    BY <1>1 DEF RadioStarts, RadioTells, RadioComplains
  <2>2. Ask(what) \in Frames /\ Ask(what).what = what
    BY FramesTyped
  <2> QED
    BY <2>1, <2>2
<1>2. ASSUME RadioGets PROVE Got
  <2>1. up # <<>> /\ up[1] \in Frames /\ Head(up) = up[1]
    BY <1>0, <1>2, TailFacts DEF RadioGets, Serves
  <2>2. up[1].slot \in Slots
    BY <2>1, FrameParts
  <2>3. radio[up[1].slot] \in Names \cup {Empty}
    BY <1>0, <2>2
  <2>4. PICK f \in Frames : f = Frame("info", up[1].slot, radio[up[1].slot])
    BY <2>2, <2>3, FramesTyped
  <2>5. f.what = "info"
    BY <2>4, Fields
  <2>6. inbox' = Append(inbox, f)
    BY <1>2, <2>1, <2>4 DEF RadioGets
  <2> QED
    BY <2>5, <2>6
<1>3. ASSUME Handler PROVE inbox # <<>> /\ inbox' = Tail(inbox)
  BY <1>3 DEF Handler, SelfInfo, DeviceInfo, ChannelInfo, CmdError, ChannelMsgRecv, Handles
<1>4. ASSUME Link \/ RadioSets \/ Chat PROVE inbox' = inbox
  BY <1>4 DEF Link, OnConnected, OnDisconnected, PostConnectInit, DeviceQuery, RadioSets, Chat, Serves,
              SelectChannel, ClearChat, SelectContact, SendChannelMessage, CloseSearch, DeleteMessage, PerformSearch
<1>5. ASSUME Edit PROVE inbox' = inbox
  <2>1. ASSUME NEW n \in Names, CreateChannel(n) \/ AddCommunity(n) \/ AddPublicChannel(n) PROVE inbox' = inbox
    BY <2>1, MakesFacts DEF AddChannel
  <2>2. ASSUME NEW s \in Slots, RemoveChannel(s) \/ \E n \in Names : ImportChannels(s, n) PROVE inbox' = inbox
    BY <2>2 DEF RemoveChannel, ImportChannels
  <2> QED
    BY <1>5, <2>1, <2>2, Zenon DEF Edit
<1> HIDE DEF Got
<1>6. (inbox' = inbox) \/ (Handler /\ inbox # <<>> /\ inbox' = Tail(inbox)) \/ Got \/ (\E s \in Slots : RadioHears(s))
  BY <1>1, <1>2, <1>3, <1>4, <1>5 DEF Next, RadioServes
<1> QED
  BY <1>6 DEF Got

LEMMA InboxTyped ==
  ASSUME TypeOK, Bounded, Next
  PROVE  inbox' \in Seq(Frames)
<1>0. inbox \in Seq(Frames)
  BY TypeFacts
<1>1. ASSUME NEW s \in Slots, RadioHears(s) PROVE inbox' \in Seq(Frames)
  <2>1. Len(at) + 1 \in Rows
    BY <1>1, NextMessage DEF RadioHears
  <2>2. Message(s, Len(at) + 1) \in Frames
    BY <2>1, FramesTyped
  <2> QED
    BY <1>0, <1>1, <2>2 DEF RadioHears
<1>2. inbox # <<>> => Tail(inbox) \in Seq(Frames)
  BY <1>0
<1>3. \A f \in Frames : Append(inbox, f) \in Seq(Frames)
  BY <1>0
<1> QED
  BY <1>0, <1>1, <1>2, <1>3, InboxMoves

(* The messages stored, those on the screen and the history.               *)
LEMMA DbMoves ==
  ASSUME TypeOK, Next
  PROVE  \/ db' \subseteq db
         \/ ChannelMsgRecv /\ db' = db \cup {<<Slot, Head(inbox).id>>}
         \/ SendChannelMessage /\ db' = db \cup {<<shown, Len(at) + 1>>}
<1> USE DEF air, list, screen, history
<1>1. ASSUME ChannelMsgRecv PROVE db' = db \/ db' = db \cup {<<Slot, Head(inbox).id>>}
  BY <1>1 DEF ChannelMsgRecv, InsertMessage
<1>2. ASSUME SendChannelMessage PROVE db' = db \/ db' = db \cup {<<shown, Len(at) + 1>>}
  BY <1>2 DEF SendChannelMessage, InsertMessage
<1>3. ASSUME (\E i \in 1 .. NMsgs : DeleteMessage(i)) \/ \E s \in Slots : ClearChat(s) PROVE db' \subseteq db
  BY <1>3 DEF DeleteMessage, ClearChat
<1>6. ASSUME NEW n \in Names, CreateChannel(n) \/ AddCommunity(n) \/ AddPublicChannel(n) PROVE db' = db
  BY <1>6, MakesFacts DEF AddChannel
<1>7. ASSUME NEW s \in Slots, RemoveChannel(s) \/ (\E n \in Names : ImportChannels(s, n)) \/ RadioHears(s) \/ SelectChannel(s)
      PROVE  db' = db
  BY <1>7 DEF RemoveChannel, ImportChannels, RadioHears, SelectChannel
<1>8. ASSUME Link \/ RadioServes \/ RadioComplains PROVE db' = db
  BY <1>8 DEF Link, RadioServes, OnConnected, OnDisconnected, PostConnectInit, DeviceQuery,
              RadioStarts, RadioTells, RadioGets, RadioSets, Serves, RadioComplains
<1>9. ASSUME SelfInfo \/ DeviceInfo \/ ChannelInfo \/ CmdError PROVE db' = db
  BY <1>9 DEF SelfInfo, DeviceInfo, ChannelInfo, CmdError
<1>10. ASSUME SelectContact \/ CloseSearch \/ \E found \in SUBSET (1 .. NMsgs) : PerformSearch(found) PROVE db' = db
  BY <1>10 DEF SelectContact, CloseSearch, PerformSearch
<1>11. ASSUME ~ChannelMsgRecv, ~SendChannelMessage PROVE db' = db \/ db' \subseteq db
  BY <1>3, <1>6, <1>7, <1>8, <1>9, <1>10, <1>11, Zenon DEF Next, Handler, Edit, Chat
<1> QED
  BY <1>1, <1>2, <1>11

LEMMA DbTyped ==
  ASSUME TypeOK, Bounded, InboxInv, Next
  PROVE  db' \subseteq Slots \X (Rows \ {NoResult})
<1>0. db \subseteq Slots \X (Rows \ {NoResult})
  BY TypeFacts
<1>1. ASSUME ChannelMsgRecv PROVE Slot \in Slots /\ Head(inbox).id \in Rows \ {NoResult}
  BY <1>1, MessageFacts
<1>2. ASSUME SendChannelMessage PROVE shown \in Slots /\ Len(at) + 1 \in Rows \ {NoResult}
  BY <1>2, NextMessage DEF SendChannelMessage, TypeOK
<1> QED
  BY <1>0, <1>1, <1>2, DbMoves

LEMMA LastPageTyped ==
  ASSUME NEW S, NEW q \in Seq(S)
  PROVE  /\ LastPage(q) \in Seq(S)
         /\ \A i \in DOMAIN LastPage(q) : \E j \in DOMAIN q : LastPage(q)[i] = q[j]
<1>1. PICK a : a = IF Len(q) > Page THEN Len(q) - Page + 1 ELSE 1
  OBVIOUS
<1>2. a \in Nat \ {0} /\ Len(q) \in Nat
  BY <1>1, SizesAssumption
<1>3. PICK r : r = SubSeq(q, a, Len(q))
  OBVIOUS
<1>4. r \in Seq(S) /\ Len(r) = (IF a <= Len(q) THEN Len(q) - a + 1 ELSE 0)
      /\ \A i \in 1 .. Len(q) - a + 1 : r[i] = q[a + i - 1]
  BY <1>2, <1>3
<1>5. ASSUME NEW i \in DOMAIN r PROVE a + i - 1 \in DOMAIN q /\ r[i] = q[a + i - 1]
  <2>1. i \in 1 .. Len(r) /\ Len(r) \in Nat /\ DOMAIN q = 1 .. Len(q)
    BY <1>4
  <2>2. a <= Len(q) /\ i \in 1 .. Len(q) - a + 1
    BY <1>2, <1>4, <2>1
  <2>3. a + i - 1 \in DOMAIN q
    BY <1>2, <2>1, <2>2
  <2> QED
    BY <1>4, <2>2, <2>3
<1>6. \A i \in DOMAIN r : \E j \in DOMAIN q : r[i] = q[j]
  BY <1>5
<1>7. LastPage(q) = r
  BY <1>1, <1>3 DEF LastPage
<1> QED
  BY <1>4, <1>6, <1>7

LEMMA MessagesTyped ==
  ASSUME TypeOK, NEW s
  PROVE  MessagesOf(s) \in Seq(Rows \ {NoResult}) /\ MessagesOf(s) \in Seq(Rows)
<1>1. CASE IsListed(s)
  <2>1. PICK p \in DOMAIN channels : p = Place(s)
    BY <1>1, PlaceFacts
  <2>2. channels[p] \in Recs
    BY TypeFacts
  <2>3. channels[p].msgs \in Seq(Rows \ {NoResult})
    BY <2>2, RecParts
  <2>4. MessagesOf(s) = channels[p].msgs
    BY <1>1, <2>1 DEF MessagesOf
  <2> QED
    BY <2>3, <2>4
<1>2. CASE ~IsListed(s)
  BY <1>2 DEF MessagesOf
<1> QED
  BY <1>1, <1>2

LEMMA SearchTyped ==
  ASSUME NEW found \in SUBSET (1 .. NMsgs)
  PROVE  Oldest(found) \in Seq(Rows)
<1>1. PICK o : o = Oldest(found)
  OBVIOUS
<1>2. o \in Seq(found)
  BY <1>1, OldestFacts, ConstantFacts
<1>3. found \subseteq Rows
  BY ConstantFacts
<1>4. o \in [1 .. Len(o) -> found] /\ Len(o) \in Nat
  BY <1>2
<1>5. o \in [1 .. Len(o) -> Rows]
  BY <1>3, <1>4
<1>6. o \in Seq(Rows)
  BY <1>4, <1>5, SeqDef
<1> QED
  BY <1>1, <1>6

LEMMA ViewTyped ==
  ASSUME TypeOK, Bounded, InboxInv, Next
  PROVE  view' \in Seq(Rows)
<1>0. view \in Seq(Rows)
  BY TypeFacts
<1> USE DEF air, list, screen, history
<1>1. CASE ChannelMsgRecv
  <2>1. PICK m \in Rows : m = Head(inbox).id
    BY <1>1, MessageFacts
  <2>2. view' = view \/ view' = Append(view, m)
    BY <1>1, <2>1 DEF ChannelMsgRecv
  <2>3. Append(view, m) \in Seq(Rows)
    BY <1>0, AppendFacts
  <2> QED
    BY <1>0, <2>2, <2>3
<1>2. CASE SendChannelMessage
  <2>1. PICK m \in Rows : m = Len(at) + 1
    BY <1>2, NextMessage DEF SendChannelMessage
  <2>2. view' = Append(view, m)
    BY <1>2, <2>1 DEF SendChannelMessage
  <2> QED
    BY <1>0, <2>2, AppendFacts
<1>3. ASSUME NEW i \in 1 .. NMsgs, DeleteMessage(i) PROVE view' \in Seq(Rows)
  <2>1. i \in DOMAIN view /\ view' = RemoveAt(view, i)
    BY <1>3 DEF DeleteMessage
  <2> QED
    BY <1>0, <2>1, RemoveAtFacts
<1>4. ASSUME NEW s \in Slots, SelectChannel(s) PROVE view' \in Seq(Rows)
  <2>1. MessagesOf(s) \in Seq(Rows)
    BY MessagesTyped
  <2>2. LastPage(MessagesOf(s)) \in Seq(Rows)
    BY <2>1, LastPageTyped
  <2> QED
    BY <1>4, <2>2 DEF SelectChannel
<1>5. CASE CloseSearch
  <2>1. MessagesOf(shown) \in Seq(Rows)
    BY MessagesTyped
  <2> QED
    BY <1>5, <2>1 DEF CloseSearch
<1>6. ASSUME NEW found \in SUBSET (1 .. NMsgs), PerformSearch(found) PROVE view' \in Seq(Rows)
  <2>1. Oldest(found) \in Seq(Rows) /\ <<NoResult>> \in Seq(Rows)
    BY SearchTyped, ConstantFacts
  <2> QED
    BY <1>6, <2>1 DEF PerformSearch
<1>7. CASE view' = view \/ view' = <<>>
  <2>1. <<>> \in Seq(Rows)
    OBVIOUS
  <2> QED
    BY <1>0, <1>7, <2>1
<1>8. ASSUME NEW n \in Names, CreateChannel(n) \/ AddCommunity(n) \/ AddPublicChannel(n) PROVE view' = view
  BY <1>8, MakesFacts DEF AddChannel
<1>9. ASSUME NEW s \in Slots, RemoveChannel(s) \/ (\E n \in Names : ImportChannels(s, n)) \/ RadioHears(s) \/ ClearChat(s)
      PROVE  view' = view \/ view' = <<>>
  BY <1>9 DEF RemoveChannel, ImportChannels, RadioHears, ClearChat
<1>10. ASSUME Link \/ RadioServes \/ RadioComplains PROVE view' = view \/ view' = <<>>
  BY <1>10 DEF Link, RadioServes, OnConnected, OnDisconnected, PostConnectInit, DeviceQuery,
               RadioStarts, RadioTells, RadioGets, RadioSets, Serves, RadioComplains
<1>11. ASSUME SelfInfo \/ DeviceInfo \/ ChannelInfo \/ CmdError \/ SelectContact PROVE view' = view \/ view' = <<>>
  BY <1>11 DEF SelfInfo, DeviceInfo, ChannelInfo, CmdError, SelectContact
<1> QED
  BY <1>1, <1>2, <1>3, <1>4, <1>5, <1>6, <1>7, <1>8, <1>9, <1>10, <1>11, Zenon DEF Next, Handler, Edit, Chat

(* The rest of the window.                                                 *)
LEMMA HappensFacts ==
  ASSUME TypeOK, Happens
  PROVE  events' \in 0 .. NEvents
BY ConstantFacts DEF TypeOK, Happens

Flags ==
  /\ connected \in BOOLEAN /\ known \in BOOLEAN /\ inits \in Nat
  /\ max \in {0, NSlots}
  /\ enumerating \in BOOLEAN /\ index \in 0 .. NSlots /\ (enumerating => index < NSlots)
  /\ shown \in Slots \cup {NoSlot} /\ searching \in BOOLEAN
  /\ calm \in BOOLEAN /\ doubt \subseteq Slots
  /\ events \in 0 .. NEvents

LEMMA FlagsStep ==
  ASSUME TypeOK, Bounded, Next
  PROVE  Flags'
<1>0. Flags
  BY DEF TypeOK, Bounded, Flags
<1>1. ASSUME Happens PROVE events' \in 0 .. NEvents
  BY <1>1, HappensFacts
<1>2. calm' \in BOOLEAN /\ doubt' \subseteq Slots
  <2> USE DEF air, list, screen, history
  <2>1. ASSUME NEW s \in Slots, NEW why, Doubts(s, why) PROVE doubt' \subseteq Slots
    BY <1>0, <2>1 DEF Doubts, Flags
  <2>2. ASSUME NEW when \in BOOLEAN, StaysCalm(when) PROVE calm' \in BOOLEAN /\ doubt' \subseteq Slots
    BY <1>0, <2>2 DEF StaysCalm, Flags
  <2>3. CASE calm' = calm /\ doubt' = doubt
    BY <1>0, <2>3 DEF Flags
  <2>4. ASSUME NEW s \in Slots, SelectChannel(s) \/ ClearChat(s) \/ RadioHears(s) PROVE calm' = calm /\ doubt' = doubt
    BY <2>4 DEF SelectChannel, ClearChat, RadioHears
  <2>5. ASSUME RadioServes \/ RadioComplains \/ SelfInfo \/ ChannelInfo \/ SelectContact \/ CloseSearch
        PROVE  calm' = calm /\ doubt' = doubt
    BY <2>5 DEF RadioServes, RadioComplains, RadioStarts, RadioTells, RadioGets, RadioSets, Serves,
                SelfInfo, ChannelInfo, SelectContact, CloseSearch
  <2>6. ASSUME OnConnected \/ PostConnectInit \/ DeviceQuery \/ \E found \in SUBSET (1 .. NMsgs) : PerformSearch(found)
        PROVE  calm' = calm /\ doubt' = doubt
    BY <2>6 DEF OnConnected, PostConnectInit, DeviceQuery, PerformSearch
  <2>7. CASE OnDisconnected \/ CmdError
    BY <2>2, <2>7, <1>0 DEF OnDisconnected, CmdError, Flags
  <2>8. CASE DeviceInfo
    BY <2>8 DEF DeviceInfo
  <2>9. ASSUME ChannelMsgRecv \/ SendChannelMessage PROVE calm' \in BOOLEAN /\ doubt' \subseteq Slots
    <3>1. CASE ChannelMsgRecv
      <4>1. calm' = calm /\ Slot \in Slots
        BY <3>1, HandlesFacts DEF ChannelMsgRecv
      <4>2. doubt' \subseteq Slots
        BY <3>1, <4>1, <2>1 DEF ChannelMsgRecv
      <4> QED
        BY <1>0, <4>1, <4>2 DEF Flags
    <3>2. CASE SendChannelMessage
      <4>1. calm' = calm /\ shown \in Slots
        BY <1>0, <3>2 DEF SendChannelMessage, Flags
      <4>2. doubt' \subseteq Slots
        BY <3>2, <4>1, <2>1 DEF SendChannelMessage
      <4> QED
        BY <1>0, <4>1, <4>2 DEF Flags
    <3> QED
      BY <2>9, <3>1, <3>2
  <2>10. ASSUME NEW i \in 1 .. NMsgs, DeleteMessage(i) PROVE calm' \in BOOLEAN /\ doubt' \subseteq Slots
    <3>1. calm' = calm /\ shown \in Slots
      BY <1>0, <2>10 DEF DeleteMessage, Flags
    <3>2. doubt' \subseteq Slots
      BY <2>10, <3>1, <2>1 DEF DeleteMessage
    <3> QED
      BY <1>0, <3>1, <3>2 DEF Flags
  <2>11. ASSUME NEW n \in Names, CreateChannel(n) \/ AddCommunity(n) \/ AddPublicChannel(n)
         PROVE  calm' \in BOOLEAN /\ doubt' \subseteq Slots
    <3>1. PICK s \in Slots : AddChannel(s, n)
      BY <2>11, MakesFacts
    <3>2. calm' = calm /\ doubt' \subseteq Slots
      BY <3>1, <2>1 DEF AddChannel
    <3> QED
      BY <1>0, <3>2 DEF Flags
  <2>12. ASSUME NEW s \in Slots, RemoveChannel(s) \/ \E n \in Names : ImportChannels(s, n)
         PROVE  calm' \in BOOLEAN /\ doubt' \subseteq Slots
    <3>1. StaysCalm(~enumerating) \/ StaysCalm(FALSE)
      BY <2>12 DEF RemoveChannel, ImportChannels
    <3>2. (~enumerating) \in BOOLEAN /\ FALSE \in BOOLEAN
      OBVIOUS
    <3> QED
      BY <2>2, <3>1, <3>2, Zenon
  <2> QED
    BY <2>3, <2>4, <2>5, <2>6, <2>7, <2>8, <2>9, <2>10, <2>11, <2>12, Zenon DEF Next, Link, Handler, Edit, Chat
<1> DEFINE Rest == /\ connected' \in BOOLEAN /\ known' \in BOOLEAN /\ inits' \in Nat
                   /\ max' \in {0, NSlots}
                   /\ enumerating' \in BOOLEAN /\ index' \in 0 .. NSlots /\ (enumerating' => index' < NSlots)
                   /\ shown' \in Slots \cup {NoSlot} /\ searching' \in BOOLEAN
                   /\ events' \in 0 .. NEvents
<1>3. Rest
  <2> USE DEF air, list, screen, history
  <2>1. ASSUME Link PROVE Rest
    <3>1. UNCHANGED <<max, index, shown, searching>>
      BY <2>1 DEF Link, OnConnected, OnDisconnected, PostConnectInit, DeviceQuery
    <3>7. enumerating' = enumerating \/ enumerating' = FALSE
      BY <2>1 DEF Link, OnConnected, OnDisconnected, PostConnectInit, DeviceQuery
    <3>5. enumerating' \in BOOLEAN /\ (enumerating' => enumerating)
      <4>1. enumerating \in BOOLEAN
        BY <1>0 DEF Flags
      <4>2. CASE enumerating' = enumerating
        BY <4>1, <4>2
      <4>3. CASE enumerating' = FALSE
        BY <4>3
      <4> QED
        BY <3>7, <4>2, <4>3
    <3>2. connected' \in BOOLEAN /\ known' \in BOOLEAN
      BY <1>0, <2>1, Zenon DEF Flags, Link, OnConnected, OnDisconnected, PostConnectInit, DeviceQuery
    <3>6. inits' = inits \/ inits' = inits + 1 \/ (inits > 0 /\ inits' = inits - 1)
      BY <2>1 DEF Link, OnConnected, OnDisconnected, PostConnectInit, DeviceQuery
    <3>3. inits' \in Nat
      BY <1>0, <3>6 DEF Flags
    <3>4. events' = events \/ Happens
      BY <2>1 DEF Link, OnConnected, OnDisconnected, PostConnectInit, DeviceQuery
    <3> QED
      BY <1>0, <1>1, <3>1, <3>2, <3>3, <3>4, <3>5 DEF Flags
  <2>2. ASSUME RadioServes \/ RadioComplains \/ \E s \in Slots : RadioHears(s) PROVE Rest
    BY <1>0, <1>1, <2>2 DEF Flags, RadioServes, RadioComplains, RadioStarts, RadioTells, RadioGets, RadioSets,
                            Serves, RadioHears
  <2>3. ASSUME SelfInfo \/ DeviceInfo \/ CmdError \/ ChannelMsgRecv PROVE Rest
    <3>1. UNCHANGED <<connected, inits, shown, searching, events>> /\ known' \in BOOLEAN
      BY <1>0, <2>3 DEF Flags, SelfInfo, DeviceInfo, CmdError, ChannelMsgRecv, Handles
    <3>2. max' \in {0, NSlots}
      BY <1>0, <2>3 DEF Flags, SelfInfo, DeviceInfo, CmdError, ChannelMsgRecv
    <3>3. /\ enumerating' = enumerating \/ enumerating' = FALSE \/ enumerating' = TRUE
          /\ index' = 0 \/ (index' = index /\ (enumerating' => enumerating))
      BY <2>3 DEF SelfInfo, DeviceInfo, CmdError, ChannelMsgRecv
    <3>4. 0 \in 0 .. NSlots /\ 0 < NSlots
      BY ConstantFacts
    <3>5. enumerating' \in BOOLEAN /\ index' \in 0 .. NSlots /\ (enumerating' => index' < NSlots)
      BY <1>0, <3>3, <3>4 DEF Flags
    <3> QED
      BY <1>0, <3>1, <3>2, <3>5 DEF Flags
  <2>4. ASSUME ChannelInfo PROVE Rest
    <3>1. UNCHANGED <<connected, known, inits, max, shown, searching, events>>
      BY <2>4 DEF ChannelInfo, Handles
    <3>2. enumerating' \in BOOLEAN /\ index' \in 0 .. NSlots /\ (enumerating' => index' < NSlots)
      <4>1. CASE enumerating /\ index + 1 < max /\ index' = index + 1 /\ enumerating' = enumerating
        BY <1>0, <4>1, ConstantFacts DEF Flags
      <4>2. CASE enumerating /\ index' = index + 1 /\ enumerating' = FALSE
        <5>1. index + 1 \in 0 .. NSlots
          BY <1>0, <4>2, ConstantFacts DEF Flags
        <5> QED
          BY <4>2, <5>1
      <4>3. CASE enumerating' = enumerating /\ index' = index
        BY <1>0, <4>3 DEF Flags
      <4> QED
        BY <2>4, <4>1, <4>2, <4>3 DEF ChannelInfo
    <3> QED
      BY <1>0, <3>1, <3>2 DEF Flags
  <2>5. ASSUME NEW n \in Names, CreateChannel(n) \/ AddCommunity(n) \/ AddPublicChannel(n) PROVE Rest
    <3>1. UNCHANGED <<connected, known, inits, max, enumerating, index, shown, searching>> /\ Happens
      BY <2>5, MakesFacts DEF AddChannel
    <3> QED
      BY <1>0, <1>1, <3>1 DEF Flags
  <2>6. ASSUME NEW s \in Slots, RemoveChannel(s) \/ \E n \in Names : ImportChannels(s, n) PROVE Rest
    <3>1. UNCHANGED <<connected, known, inits, max, searching>> /\ Happens
      BY <2>6 DEF RemoveChannel, ImportChannels
    <3>2. shown' \in Slots \cup {NoSlot}
      BY <1>0, <2>6 DEF RemoveChannel, ImportChannels, Flags
    <3>3. \/ enumerating' = enumerating /\ index' = index
          \/ enumerating' = TRUE /\ index' = 0
      BY <2>6 DEF RemoveChannel, ImportChannels
    <3>4. 0 \in 0 .. NSlots /\ 0 < NSlots
      BY ConstantFacts
    <3>5. enumerating' \in BOOLEAN
      BY <1>0, <3>3 DEF Flags
    <3>6. index' \in 0 .. NSlots /\ (enumerating' => index' < NSlots)
      BY <1>0, <3>3, <3>4 DEF Flags
    <3> QED
      BY <1>0, <1>1, <3>1, <3>2, <3>5, <3>6 DEF Flags
  <2>7. ASSUME Chat PROVE Rest
    <3>1. UNCHANGED <<connected, known, inits, max, enumerating, index>>
      BY <2>7 DEF Chat, SelectChannel, ClearChat, SelectContact, SendChannelMessage, CloseSearch, DeleteMessage, PerformSearch
    <3>2. shown' \in Slots \cup {NoSlot} /\ searching' \in BOOLEAN
      BY <1>0, <2>7 DEF Flags, Chat, SelectChannel, ClearChat, SelectContact, SendChannelMessage, CloseSearch, DeleteMessage, PerformSearch
    <3>3. events' = events \/ Happens
      BY <2>7 DEF Chat, SelectChannel, ClearChat, SelectContact, SendChannelMessage, CloseSearch, DeleteMessage, PerformSearch
    <3> QED
      BY <1>0, <1>1, <3>1, <3>2, <3>3 DEF Flags
  <2> QED
    BY <2>1, <2>2, <2>3, <2>4, <2>5, <2>6, <2>7, Zenon DEF Next, Handler, Edit
<1> QED
  BY <1>2, <1>3 DEF Flags

LEMMA AtMoves ==
  ASSUME TypeOK, Next
  PROVE  \/ at' = at
         \/ \E s \in Slots : Len(at) < NMsgs /\ at' = Append(at, s) /\ (RadioHears(s) \/ (shown = s /\ SendChannelMessage))
<1> USE DEF air, list, screen, history
<1>1. ASSUME SendChannelMessage
      PROVE  \E s \in Slots : Len(at) < NMsgs /\ at' = Append(at, s) /\ (shown = s /\ SendChannelMessage)
  BY <1>1 DEF SendChannelMessage, TypeOK
<1>2. ASSUME NEW s \in Slots, RadioHears(s) PROVE Len(at) < NMsgs /\ at' = Append(at, s)
  BY <1>2 DEF RadioHears
<1>3. ASSUME NEW n \in Names, CreateChannel(n) \/ AddCommunity(n) \/ AddPublicChannel(n) PROVE at' = at
  BY <1>3, MakesFacts DEF AddChannel
<1>4. ASSUME NEW s \in Slots, RemoveChannel(s) \/ (\E n \in Names : ImportChannels(s, n)) \/ SelectChannel(s) \/ ClearChat(s)
      PROVE  at' = at
  BY <1>4 DEF RemoveChannel, ImportChannels, SelectChannel, ClearChat
<1>5. ASSUME Link \/ RadioServes \/ RadioComplains PROVE at' = at
  BY <1>5 DEF Link, RadioServes, OnConnected, OnDisconnected, PostConnectInit, DeviceQuery,
              RadioStarts, RadioTells, RadioGets, RadioSets, Serves, RadioComplains
<1>6. ASSUME Handler PROVE at' = at
  BY <1>6 DEF Handler, SelfInfo, DeviceInfo, ChannelInfo, CmdError, ChannelMsgRecv
<1>7. ASSUME SelectContact \/ CloseSearch \/ (\E i \in 1 .. NMsgs : DeleteMessage(i))
             \/ \E found \in SUBSET (1 .. NMsgs) : PerformSearch(found)
      PROVE  at' = at
  BY <1>7 DEF SelectContact, CloseSearch, DeleteMessage, PerformSearch
<1> QED
  BY <1>1, <1>2, <1>3, <1>4, <1>5, <1>6, <1>7, Zenon DEF Next, Edit, Chat

LEMMA TypesStep ==
  ASSUME Types, InboxInv, Next
  PROVE  Types'
<1>0. TypeOK /\ Bounded
  BY DEF Types
<1>1. up' \in Seq(Frames) /\ radio' \in [Slots -> Names \cup {Empty}] /\ inbox' \in Seq(Frames)
  BY <1>0, UpTyped, InboxTyped
<1>2. channels' \in Seq(Recs) /\ db' \subseteq Slots \X (Rows \ {NoResult}) /\ view' \in Seq(Rows)
  BY <1>0, ListMoves, DbTyped, ViewTyped
<1>3. Flags'
  BY <1>0, FlagsStep
<1>4. at' \in Seq(Slots) /\ Len(at') <= NMsgs
  <2>1. at \in Seq(Slots) /\ Len(at) \in Nat /\ Len(at) <= NMsgs
    BY <1>0, TypeFacts DEF Bounded
  <2>2. ASSUME NEW s \in Slots, Len(at) < NMsgs
        PROVE  Append(at, s) \in Seq(Slots) /\ Len(Append(at, s)) <= NMsgs
    BY <2>1, <2>2, ConstantFacts, AppendFacts
  <2>3. at' = at \/ \E s \in Slots : Len(at) < NMsgs /\ at' = Append(at, s)
    BY <1>0, AtMoves
  <2> QED
    BY <2>1, <2>2, <2>3
<1> QED
  BY <1>1, <1>2, <1>3, <1>4 DEF Types, TypeOK, Bounded, Flags, Recs

LEMMA TypesInit ==
  Init => Types
<1> SUFFICES ASSUME Init PROVE Types
  OBVIOUS
<1>1. PICK n \in 0 .. NStored : at \in [1 .. n -> {s \in Slots : radio[s] # Empty}]
  BY DEF Init
<1>2. at \in Seq(Slots) /\ Len(at) = n /\ n \in Nat /\ n <= NMsgs /\ DOMAIN at = 1 .. n
  <2>1. n \in Nat /\ n <= NMsgs
    BY BoundsAssumption
  <2>2. at \in [1 .. n -> Slots]
    BY <1>1
  <2> QED
    BY <2>1, <2>2, SeqDef
<1>3. db \subseteq Slots \X (Rows \ {NoResult})
  <2>1. \A m \in 1 .. n : at[m] \in Slots /\ m \in 1 .. NMsgs
    BY <1>2, ConstantFacts
  <2>2. db = {<<at[m], m>> : m \in 1 .. n}
    BY <1>2 DEF Init
  <2> QED
    BY <2>1, <2>2, ConstantFacts
<1>4. /\ radio \in [Slots -> Names \cup {Empty}]
      /\ up = <<>> /\ inbox = <<>> /\ channels = <<>> /\ view = <<>>
      /\ connected = FALSE /\ known = FALSE /\ enumerating = FALSE /\ searching = FALSE /\ calm = FALSE
      /\ inits = 0 /\ max = 0 /\ index = 0 /\ shown = NoSlot /\ doubt = {} /\ events = NEvents
  BY DEF Init
<1>5. up \in Seq(Frames) /\ inbox \in Seq(Frames) /\ channels \in Seq(Recs) /\ view \in Seq(Rows)
  <2>1. <<>> \in Seq(Frames) /\ <<>> \in Seq(Recs) /\ <<>> \in Seq(Rows)
    OBVIOUS
  <2> QED
    BY <1>4, <2>1
<1>6. Flags
  BY <1>4, ConstantFacts DEF Flags
<1> QED
  BY <1>2, <1>3, <1>4, <1>5, <1>6 DEF Types, TypeOK, Bounded, Flags, Recs
-----------------------------------------------------------------------------
(* The messages.                                                           *)

LEMMA InSlotKept ==
  ASSUME TypeOK, Next, NEW m, NEW s, InSlot(m, s, at)
  PROVE  InSlot(m, s, at')
<1>1. at \in Seq(Slots)
  BY TypeFacts
<1>2. \A t \in Slots : InSlot(m, s, Append(at, t))
  BY <1>1 DEF InSlot
<1> QED
  BY <1>2, AtMoves

LEMMA SentInSlot ==
  ASSUME TypeOK, NEW s \in Slots, at' = Append(at, s)
  PROVE  InSlot(Len(at) + 1, s, at')
BY TypeFacts DEF InSlot

LEMMA StoredInSlot ==
  ASSUME StoreInv, NEW s, NEW m \in StoredOf(s)
  PROVE  InSlot(m, s, at)
BY DEF StoreInv, StoredOf

LEMMA StoreStep ==
  ASSUME TypeOK, Bounded, StoreInv, InboxInv, Next
  PROVE  StoreInv'
<1>1. \A row \in db : InSlot(row[2], row[1], at')
  BY InSlotKept DEF StoreInv
<1>2. ASSUME ChannelMsgRecv PROVE InSlot(Head(inbox).id, Slot, at')
  BY <1>2, MessageFacts, InSlotKept
<1>3. ASSUME SendChannelMessage PROVE InSlot(Len(at) + 1, shown, at')
  BY <1>3, SentInSlot DEF SendChannelMessage, TypeOK
<1>4. \A row \in db' : InSlot(row[2], row[1], at')
  BY <1>1, <1>2, <1>3, DbMoves
<1> QED
  BY <1>4 DEF StoreInv

LEMMA InboxStep ==
  ASSUME TypeOK, Bounded, StoreInv, InboxInv, Next
  PROVE  InboxInv'
<1>0. inbox \in Seq(Frames) /\ at \in Seq(Slots) /\ Len(at) \in Nat
  BY TypeFacts
<1>1. ASSUME NEW i \in DOMAIN inbox, IsMessage(inbox, i)
      PROVE  InSlot(inbox[i].id, inbox[i].slot, at') /\ (\A row \in db : row[2] # inbox[i].id) /\ inbox[i].id # Len(at) + 1
  <2>1. InSlot(inbox[i].id, inbox[i].slot, at) /\ \A row \in db : row[2] # inbox[i].id
    BY <1>1 DEF InboxInv
  <2> QED
    BY <2>1, <1>0, InSlotKept DEF InSlot
<1>2. CASE inbox' = inbox /\ ~ChannelMsgRecv
  <2>1. \A row \in db' : row \in db \/ row[2] = Len(at) + 1
    BY <1>2, DbMoves
  <2>2. ASSUME NEW i \in DOMAIN inbox, IsMessage(inbox, i)
        PROVE  InSlot(inbox[i].id, inbox[i].slot, at') /\ (\A row \in db' : row[2] # inbox[i].id)
    BY <1>1, <2>1, <2>2
  <2> QED
    BY <1>2, <2>2 DEF InboxInv, IsMessage
<1>3. ASSUME inbox # <<>>, inbox' = Tail(inbox), ~SendChannelMessage PROVE InboxInv'
  <2>1. \A i \in DOMAIN inbox' : i + 1 \in DOMAIN inbox /\ i + 1 # 1 /\ inbox'[i] = inbox[i + 1]
    BY <1>0, <1>3, TailFacts
  <2>2. DOMAIN inbox' \subseteq Nat
    BY <1>0, <1>3
  <2>3. ASSUME NEW i \in DOMAIN inbox', IsMessage(inbox', i)
        PROVE  InSlot(inbox'[i].id, inbox'[i].slot, at') /\ (\A row \in db' : row[2] # inbox'[i].id)
    <3>1. IsMessage(inbox, i + 1) /\ inbox'[i] = inbox[i + 1] /\ i + 1 \in DOMAIN inbox /\ i + 1 # 1
      BY <2>1, <2>3 DEF IsMessage
    <3>2. InSlot(inbox'[i].id, inbox'[i].slot, at') /\ (\A row \in db : row[2] # inbox'[i].id)
      BY <1>1, <3>1
    <3>3. ASSUME ChannelMsgRecv PROVE Head(inbox).id # inbox'[i].id
      <4>1. IsMessage(inbox, 1) /\ 1 \in DOMAIN inbox /\ Head(inbox) = inbox[1]
        BY <3>3, HandlesFacts DEF ChannelMsgRecv, IsMessage
      <4> QED
        BY <3>1, <4>1 DEF InboxInv
    <3>4. \A row \in db' : row \in db \/ (ChannelMsgRecv /\ row[2] = Head(inbox).id)
      BY <1>3, DbMoves
    <3> QED
      BY <3>2, <3>3, <3>4
  <2>4. ASSUME NEW i \in DOMAIN inbox', NEW j \in DOMAIN inbox', IsMessage(inbox', i), IsMessage(inbox', j),
               inbox'[i].id = inbox'[j].id
        PROVE  i = j
    <3>1. IsMessage(inbox, i + 1) /\ IsMessage(inbox, j + 1) /\ inbox[i + 1].id = inbox[j + 1].id
      BY <2>1, <2>4 DEF IsMessage
    <3>2. i + 1 \in DOMAIN inbox /\ j + 1 \in DOMAIN inbox /\ i \in Nat /\ j \in Nat
      BY <2>1, <2>2
    <3>3. i + 1 = j + 1
      BY <3>1, <3>2 DEF InboxInv
    <3> QED
      BY <3>2, <3>3
  <2> QED
    BY <2>3, <2>4 DEF InboxInv, IsMessage
<1>4. ASSUME NEW f \in Frames, inbox' = Append(inbox, f), db' \subseteq db,
             f.what = "message" => InSlot(f.id, f.slot, at') /\ f.id = Len(at) + 1
      PROVE  InboxInv'
  <2>1. /\ DOMAIN inbox' = DOMAIN inbox \cup {Len(inbox) + 1}
        /\ inbox'[Len(inbox) + 1] = f
        /\ \A i \in DOMAIN inbox : inbox'[i] = inbox[i]
    BY <1>0, <1>4, AppendFacts
  <2>2. \A row \in db : row[2] # Len(at) + 1
    BY <1>0 DEF StoreInv, InSlot
  <2>3. ASSUME NEW i \in DOMAIN inbox', IsMessage(inbox', i)
        PROVE  InSlot(inbox'[i].id, inbox'[i].slot, at') /\ (\A row \in db' : row[2] # inbox'[i].id)
    <3>1. CASE i \in DOMAIN inbox
      BY <3>1, <1>1, <1>4, <2>1, <2>3 DEF IsMessage
    <3>2. CASE i = Len(inbox) + 1
      BY <3>2, <1>4, <2>1, <2>2, <2>3 DEF IsMessage
    <3> QED
      BY <2>1, <3>1, <3>2
  <2>4. ASSUME NEW i \in DOMAIN inbox', NEW j \in DOMAIN inbox', IsMessage(inbox', i), IsMessage(inbox', j),
               inbox'[i].id = inbox'[j].id
        PROVE  i = j
    <3>1. CASE i \in DOMAIN inbox /\ j \in DOMAIN inbox
      BY <3>1, <2>1, <2>4 DEF InboxInv, IsMessage
    <3>2. CASE i = Len(inbox) + 1 /\ j = Len(inbox) + 1
      BY <3>2
    <3>3. CASE i = Len(inbox) + 1 /\ j \in DOMAIN inbox
      BY <3>3, <1>1, <1>4, <2>1, <2>4 DEF IsMessage
    <3>4. CASE j = Len(inbox) + 1 /\ i \in DOMAIN inbox
      BY <3>4, <1>1, <1>4, <2>1, <2>4 DEF IsMessage
    <3> QED
      BY <2>1, <3>1, <3>2, <3>3, <3>4
  <2> QED
    BY <2>3, <2>4 DEF InboxInv, IsMessage
<1>5. ASSUME NEW s \in Slots, RadioHears(s) PROVE InboxInv'
  <2>1. Len(at) + 1 \in Rows /\ at' = Append(at, s) /\ db' = db
    BY <1>5, NextMessage DEF RadioHears
  <2>2. PICK f : f = Message(s, Len(at) + 1)
    OBVIOUS
  <2>3. f \in Frames /\ f.slot = s /\ f.id = Len(at) + 1
    BY <2>1, <2>2, FramesTyped, Fields
  <2>4. inbox' = Append(inbox, f)
    BY <1>5, <2>2 DEF RadioHears
  <2>5. InSlot(f.id, f.slot, at')
    BY <2>1, <2>3, SentInSlot
  <2> QED
    BY <1>4, <2>1, <2>3, <2>4, <2>5
<1>6. ASSUME ChannelMsgRecv PROVE inbox # <<>> /\ inbox' = Tail(inbox) /\ ~SendChannelMessage
  <2>1. inbox # <<>> /\ inbox' = Tail(inbox) /\ 1 \in DOMAIN inbox
    BY <1>6, HandlesFacts DEF ChannelMsgRecv
  <2>2. Len(Tail(inbox)) # Len(inbox)
    BY <1>0, <2>1, TailFacts
  <2> QED
    BY <2>1, <2>2 DEF SendChannelMessage, air
<1>7. ASSUME SendChannelMessage PROVE inbox' = inbox
  BY <1>7 DEF SendChannelMessage, air
<1>8. CASE ChannelMsgRecv
  BY <1>3, <1>6, <1>8
<1>9. CASE SendChannelMessage
  BY <1>2, <1>6, <1>7, <1>9
<1>10. CASE ~ChannelMsgRecv /\ ~SendChannelMessage
  <2>1. db' \subseteq db
    BY <1>10, DbMoves
  <2>2. ASSUME NEW f \in Frames, f.what # "message", inbox' = Append(inbox, f) PROVE InboxInv'
    BY <1>4, <2>1, <2>2
  <2> QED
    BY <1>2, <1>3, <1>5, <1>10, <2>2, InboxMoves
<1> QED
  BY <1>8, <1>9, <1>10

(* What memory may hold after a step: what it held, and what is stored.    *)
MemoryOf(t, a) == \A i \in DOMAIN t : \A j \in DOMAIN t[i].msgs : InSlot(t[i].msgs[j], t[i].slot, a)

LEMMA LoadedMemory ==
  ASSUME TypeOK, Bounded, StoreInv, NEW t \in Seq(Recs), MemoryOf(t, at),
         NEW r, r = Reloaded(t)
  PROVE  MemoryOf(r, at)
<1>1. /\ DOMAIN r = DOMAIN t
      /\ \A i \in DOMAIN t : r[i].slot = t[i].slot /\ r[i].msgs = LoadMessages(t[i].slot, t[i].msgs)
  BY LoadsFacts
<1>2. ASSUME NEW i \in DOMAIN t, NEW j \in DOMAIN r[i].msgs
      PROVE  InSlot(r[i].msgs[j], r[i].slot, at)
  <2>1. t[i] \in Recs
    OBVIOUS
  <2>2. PICK m \in Seq(Rows \ {NoResult}) : m = t[i].msgs
    BY <2>1, RecParts
  <2>3. PICK q : q = LoadMessages(t[i].slot, m)
    OBVIOUS
  <2>4. ToSet(q) \subseteq ToSet(m) \cup StoredOf(t[i].slot)
    BY <2>3, LoadFacts
  <2>5. q = r[i].msgs /\ q[j] \in ToSet(q)
    BY <1>1, <1>2, <2>2, <2>3 DEF ToSet
  <2>6. CASE q[j] \in ToSet(m)
    <3>1. PICK k \in DOMAIN m : m[k] = q[j]
      BY <2>6 DEF ToSet
    <3> QED
      BY <3>1, <2>2, <2>5, <1>1 DEF MemoryOf
  <2>7. CASE q[j] \in StoredOf(t[i].slot)
    BY <2>7, <2>5, <1>1, StoredInSlot
  <2> QED
    BY <2>4, <2>5, <2>6, <2>7
<1> QED
  BY <1>1, <1>2 DEF MemoryOf

LEMMA FiledMemory ==
  ASSUME TypeOK, Next, MemoryInv, NEW s, NEW m \in Rows \ {NoResult}, InSlot(m, s, at'), channels' = Filed(s, m)
  PROVE  MemoryInv'
<1>1. Same(channels, channels') /\ \A i \in DOMAIN channels :
         \/ channels'[i].msgs = channels[i].msgs
         \/ channels[i].slot = s /\ channels'[i].msgs = Append(channels[i].msgs, m)
  <2>1. PICK r : r = channels'
    OBVIOUS
  <2> QED
    BY <2>1, FiledFacts
<1>2. ASSUME NEW i \in DOMAIN channels, NEW j \in DOMAIN channels'[i].msgs
      PROVE  InSlot(channels'[i].msgs[j], channels'[i].slot, at')
  <2>1. \A k \in DOMAIN channels[i].msgs : InSlot(channels[i].msgs[k], channels[i].slot, at')
    BY InSlotKept DEF MemoryInv
  <2>2. channels'[i].slot = channels[i].slot
    BY <1>1 DEF Same
  <2>3. CASE channels'[i].msgs = channels[i].msgs
    BY <1>2, <2>1, <2>2, <2>3
  <2>4. CASE channels[i].slot = s /\ channels'[i].msgs = Append(channels[i].msgs, m)
    <3>1. channels[i] \in Recs
      BY TypeFacts
    <3>2. PICK q \in Seq(Rows \ {NoResult}) : q = channels[i].msgs
      BY <3>1, RecParts
    <3>3. /\ DOMAIN Append(q, m) = DOMAIN q \cup {Len(q) + 1}
          /\ Append(q, m)[Len(q) + 1] = m /\ \A k \in DOMAIN q : Append(q, m)[k] = q[k]
      BY <3>2, AppendFacts
    <3> QED
      BY <1>2, <2>1, <2>2, <2>4, <3>2, <3>3
  <2> QED
    BY <1>1, <2>3, <2>4
<1> QED
  BY <1>1, <1>2 DEF MemoryInv, Same

LEMMA KeptMemory ==
  ASSUME TypeOK, Next, MemoryInv, channels' \in Seq(Recs),
         \A i \in DOMAIN channels' : \E k \in DOMAIN channels :
           /\ channels[k].slot = channels'[i].slot
           /\ \A j \in DOMAIN channels'[i].msgs : \E l \in DOMAIN channels[k].msgs :
                channels'[i].msgs[j] = channels[k].msgs[l]
  PROVE  MemoryInv'
<1>1. ASSUME NEW i \in DOMAIN channels', NEW j \in DOMAIN channels'[i].msgs
      PROVE  InSlot(channels'[i].msgs[j], channels'[i].slot, at')
  <2>1. PICK k \in DOMAIN channels :
          /\ channels[k].slot = channels'[i].slot
          /\ \E l \in DOMAIN channels[k].msgs : channels'[i].msgs[j] = channels[k].msgs[l]
    BY <1>1
  <2>3. PICK l \in DOMAIN channels[k].msgs : channels'[i].msgs[j] = channels[k].msgs[l]
    BY <2>1
  <2>2. InSlot(channels[k].msgs[l], channels[k].slot, at)
    BY DEF MemoryInv
  <2> QED
    BY <2>1, <2>2, <2>3, InSlotKept
<1> QED
  BY <1>1 DEF MemoryInv

LEMMA RemovedRow ==
  ASSUME NEW S, NEW q \in Seq(S), NEW i \in DOMAIN q, NEW j \in DOMAIN RemoveAt(q, i)
  PROVE  \E l \in DOMAIN q : RemoveAt(q, i)[j] = q[l]
<1>1. PICK r : r = RemoveAt(q, i)
  OBVIOUS
<1>2. /\ r \in Seq(S) /\ Len(r) = Len(q) - 1 /\ Len(q) \in Nat
      /\ \A k \in 1 .. Len(q) - 1 : r[k] = IF k < i THEN q[k] ELSE q[k + 1]
  BY <1>1, RemoveAtFacts
<1>3. j \in 1 .. Len(q) - 1 /\ j \in DOMAIN q /\ j + 1 \in DOMAIN q
  BY <1>1, <1>2
<1> QED
  BY <1>1, <1>2, <1>3

LEMMA MemoryStep ==
  ASSUME TypeOK, Bounded, MemoryInv, StoreInv, InboxInv, Next
  PROVE  MemoryInv'
<1>0. channels \in Seq(Recs) /\ channels' \in Seq(Recs)
  BY TypeFacts, ListMoves
<1> USE DEF air, list, screen, history
<1>1. CASE channels' = channels \/ channels' = <<>>
  BY <1>0, <1>1, KeptMemory
<1>2. ASSUME NEW t \in Seq(Recs), MemoryOf(t, at), UNCHANGED at,
             channels' = t \/ channels' = Reloaded(t)
      PROVE  MemoryInv'
  <2>1. MemoryOf(channels', at)
    <3>1. PICK r : r = channels'
      OBVIOUS
    <3> QED
      BY <1>2, <3>1, LoadedMemory
  <2> QED
    BY <1>2, <2>1 DEF MemoryInv, MemoryOf
<1>3. CASE ChannelInfo
  <2>1. /\ Added \in Seq(Recs)
        /\ \A i \in DOMAIN channels : i \in DOMAIN Added /\ Added[i] = channels[i]
        /\ \A i \in DOMAIN Added : i \in DOMAIN channels \/ Added[i].msgs = <<>>
    BY <1>3, AddedFacts DEF ChannelInfo, Gains
  <2>2. MemoryOf(Added, at)
    BY <2>1 DEF MemoryOf, MemoryInv
  <2>3. PICK t : t = Added
    OBVIOUS
  <2>4. channels' = t \/ channels' = Reloaded(t)
    BY <1>3, <2>3 DEF ChannelInfo, Reloaded
  <2>5. UNCHANGED at
    BY <1>3 DEF ChannelInfo
  <2> QED
    BY <1>2, <2>1, <2>2, <2>3, <2>4, <2>5
<1>4. CASE CmdError
  <2>1. PICK t : t = channels
    OBVIOUS
  <2>2. channels' = t \/ channels' = Reloaded(t)
    BY <1>4, <2>1 DEF CmdError, Loaded, Reloaded
  <2>3. UNCHANGED at /\ MemoryOf(t, at)
    BY <1>4, <2>1 DEF CmdError, MemoryOf, MemoryInv
  <2> QED
    BY <1>0, <1>2, <2>1, <2>2, <2>3
<1>5. CASE ChannelMsgRecv
  <2>1. channels' = Filed(Slot, inbox[1].id) /\ inbox[1].id \in Rows \ {NoResult} /\ InSlot(inbox[1].id, Slot, at')
    BY <1>5, MessageFacts, InSlotKept DEF ChannelMsgRecv
  <2> QED
    BY <2>1, FiledMemory
<1>6. CASE SendChannelMessage
  <2>1. channels' = Filed(shown, Len(at) + 1) /\ Len(at) + 1 \in Rows \ {NoResult} /\ shown \in Slots /\ at' = Append(at, shown)
    BY <1>6, NextMessage DEF SendChannelMessage, TypeOK
  <2>2. InSlot(Len(at) + 1, shown, at')
    BY <2>1, SentInSlot
  <2> QED
    BY <2>1, <2>2, FiledMemory
<1>7. ASSUME NEW n \in Names, CreateChannel(n) \/ AddCommunity(n) \/ AddPublicChannel(n) PROVE MemoryInv'
  <2>1. PICK s \in Slots : AddChannel(s, n)
    BY <1>7, MakesFacts
  <2>2. /\ DOMAIN channels' = DOMAIN channels \cup {Len(channels) + 1}
        /\ \A i \in DOMAIN channels : channels'[i] = channels[i]
        /\ channels'[Len(channels) + 1].msgs = <<>>
    BY <2>1, AddsFacts DEF Gains
  <2>3. MemoryOf(channels', at)
    BY <2>2 DEF MemoryOf, MemoryInv
  <2>4. UNCHANGED at
    BY <2>1 DEF AddChannel
  <2> QED
    BY <1>0, <1>2, <2>3, <2>4
<1>8. ASSUME NEW s \in Slots, RemoveChannel(s) PROVE MemoryInv'
  <2>1. CASE IsListed(s)
    <3>1. PICK p \in DOMAIN channels : p = Place(s)
      BY <2>1, PlaceFacts
    <3>2. channels' = RemoveAt(channels, p)
      BY <1>8, <2>1, <3>1 DEF RemoveChannel
    <3>3. \A i \in DOMAIN channels' : \E k \in DOMAIN channels : channels'[i] = channels[k]
      BY <1>0, <3>2, RemovedRow
    <3> QED
      BY <1>0, <3>3, KeptMemory
  <2>2. CASE ~IsListed(s)
    BY <1>1, <1>8, <2>2 DEF RemoveChannel
  <2> QED
    BY <2>1, <2>2
<1>9. ASSUME NEW i \in 1 .. NMsgs, DeleteMessage(i) PROVE MemoryInv'
  <2>1. Same(channels, channels') /\ \A k \in DOMAIN channels :
             \/ channels'[k].msgs = channels[k].msgs
             \/ i \in DOMAIN channels[k].msgs /\ channels'[k].msgs = RemoveAt(channels[k].msgs, i)
    BY <1>9, DeletedFacts
  <2>2. ASSUME NEW k \in DOMAIN channels, NEW j \in DOMAIN channels'[k].msgs
        PROVE  \E l \in DOMAIN channels[k].msgs : channels'[k].msgs[j] = channels[k].msgs[l]
    <3>1. channels[k] \in Recs
      BY <1>0
    <3>2. PICK q \in Seq(Rows \ {NoResult}) : q = channels[k].msgs
      BY <3>1, RecParts
    <3>3. CASE channels'[k].msgs = q
      BY <2>2, <3>2, <3>3
    <3>4. CASE i \in DOMAIN q /\ channels'[k].msgs = RemoveAt(q, i)
      BY <2>2, <3>2, <3>4, RemovedRow
    <3> QED
      BY <2>1, <3>2, <3>3, <3>4
  <2> QED
    BY <1>0, <2>1, <2>2, KeptMemory DEF Same
<1>10. ASSUME NEW s \in Slots, ClearChat(s) PROVE MemoryInv'
  <2>1. Same(channels, channels') /\ \A k \in DOMAIN channels :
             channels'[k].msgs = channels[k].msgs \/ channels'[k].msgs = <<>>
    BY <1>10, ClearedFacts
  <2>2. ASSUME NEW k \in DOMAIN channels, NEW j \in DOMAIN channels'[k].msgs
        PROVE  \E l \in DOMAIN channels[k].msgs : channels'[k].msgs[j] = channels[k].msgs[l]
    BY <2>1, <2>2
  <2> QED
    BY <1>0, <2>1, <2>2, KeptMemory DEF Same
<1>11. ASSUME Link \/ RadioServes \/ RadioComplains \/ SelfInfo PROVE channels' = channels
  BY <1>11 DEF Link, RadioServes, OnConnected, OnDisconnected, PostConnectInit, DeviceQuery,
               RadioStarts, RadioTells, RadioGets, RadioSets, Serves, RadioComplains, SelfInfo
<1>12. ASSUME DeviceInfo PROVE channels' = <<>>
  BY <1>12 DEF DeviceInfo
<1>13. ASSUME NEW s \in Slots, SelectChannel(s) \/ RadioHears(s) \/ (\E n \in Names : ImportChannels(s, n)) PROVE channels' = channels
  BY <1>13 DEF SelectChannel, RadioHears, ImportChannels
<1>14. ASSUME SelectContact \/ CloseSearch \/ \E found \in SUBSET (1 .. NMsgs) : PerformSearch(found) PROVE channels' = channels
  BY <1>14 DEF SelectContact, CloseSearch, PerformSearch
<1> QED
  BY <1>1, <1>3, <1>4, <1>5, <1>6, <1>7, <1>8, <1>9, <1>10, <1>11, <1>12, <1>13, <1>14, Zenon
     DEF Next, Handler, Edit, Chat

LEMMA MessagesInSlot ==
  ASSUME MemoryInv, NEW s, NEW j \in DOMAIN MessagesOf(s)
  PROVE  InSlot(MessagesOf(s)[j], s, at)
<1>1. CASE IsListed(s)
  <2>1. PICK p \in DOMAIN channels : p = Place(s) /\ channels[p].slot = s
    BY <1>1, PlaceFacts
  <2>2. MessagesOf(s) = channels[p].msgs
    BY <1>1, <2>1 DEF MessagesOf
  <2> QED
    BY <2>1, <2>2 DEF MemoryInv
<1>2. CASE ~IsListed(s)
  BY <1>2 DEF MessagesOf
<1> QED
  BY <1>1, <1>2

LEMMA ViewStep ==
  ASSUME TypeOK, Bounded, MemoryInv, InboxInv, ViewInv, Next
  PROVE  ViewInv'
<1>0. view \in Seq(Rows)
  BY TypeFacts
<1> USE DEF air, list, screen, history
<1> DEFINE Shows(q, s, a) == \A i \in DOMAIN q : InSlot(q[i], s, a)
<1>1. ASSUME ~searching, shown # NoSlot PROVE Shows(view, shown, at')
  BY <1>1, InSlotKept DEF ViewInv
<1>2. ASSUME NEW m \in Rows, ~searching, shown # NoSlot, InSlot(m, shown, at') PROVE Shows(Append(view, m), shown, at')
  <2>1. /\ DOMAIN Append(view, m) = DOMAIN view \cup {Len(view) + 1}
        /\ Append(view, m)[Len(view) + 1] = m
        /\ \A i \in DOMAIN view : Append(view, m)[i] = view[i]
    BY <1>0, AppendFacts
  <2> QED
    BY <1>1, <1>2, <2>1
<1>3. ASSUME NEW s PROVE Shows(MessagesOf(s), s, at') /\ Shows(LastPage(MessagesOf(s)), s, at')
  <2>1. Shows(MessagesOf(s), s, at')
    BY MessagesInSlot, InSlotKept
  <2>2. PICK q : q = MessagesOf(s)
    OBVIOUS
  <2>3. q \in Seq(Rows)
    BY <2>2, MessagesTyped
  <2>4. \A i \in DOMAIN LastPage(q) : \E j \in DOMAIN q : LastPage(q)[i] = q[j]
    BY <2>3, LastPageTyped
  <2> QED
    BY <2>1, <2>2, <2>4
<1> HIDE DEF Shows
<1>4. ASSUME ~searching' /\ shown' # NoSlot => Shows(view', shown', at') PROVE ViewInv'
  BY <1>4 DEF ViewInv, Shows
<1>5. ASSUME view' = view, searching' = searching, shown' = shown \/ shown' = NoSlot PROVE ViewInv'
  <2>1. ~searching' /\ shown' # NoSlot => Shows(view', shown', at')
    BY <1>1, <1>5
  <2> QED
    BY <1>4, <2>1
<1>6. ASSUME view' = <<>> PROVE ViewInv'
  BY <1>6 DEF ViewInv
<1>7. CASE ChannelMsgRecv
  <2>1. UNCHANGED <<shown, searching>> /\ view' = IF shown = Slot THEN Append(view, Head(inbox).id) ELSE view
    BY <1>7 DEF ChannelMsgRecv, IsCurrentChannel
  <2>2. CASE shown = Slot
    <3>1. PICK m \in Rows : m = Head(inbox).id /\ InSlot(m, Slot, at')
      BY <1>7, MessageFacts, InSlotKept
    <3>2. ~searching' /\ shown' # NoSlot => Shows(view', shown', at')
      BY <1>2, <2>1, <2>2, <3>1
    <3> QED
      BY <1>4, <3>2
  <2>3. CASE shown # Slot
    BY <1>5, <2>1, <2>3
  <2> QED
    BY <2>2, <2>3
<1>8. CASE SendChannelMessage
  <2>1. PICK m \in Rows : m = Len(at) + 1
    BY <1>8, NextMessage DEF SendChannelMessage
  <2>2. shown \in Slots /\ at' = Append(at, shown) /\ view' = Append(view, m) /\ UNCHANGED <<shown, searching>>
    BY <1>8, <2>1 DEF SendChannelMessage, TypeOK
  <2>3. InSlot(m, shown, at')
    BY <2>1, <2>2, SentInSlot
  <2>4. ~searching' /\ shown' # NoSlot => Shows(view', shown', at')
    BY <1>2, <2>2, <2>3
  <2> QED
    BY <1>4, <2>4
<1>9. ASSUME NEW i \in 1 .. NMsgs, DeleteMessage(i) PROVE ViewInv'
  <2>1. i \in DOMAIN view /\ view' = RemoveAt(view, i) /\ UNCHANGED <<shown, searching>>
    BY <1>9 DEF DeleteMessage
  <2>2. \A j \in DOMAIN view' : \E l \in DOMAIN view : view'[j] = view[l]
    BY <1>0, <2>1, RemovedRow
  <2>3. ~searching' /\ shown' # NoSlot => Shows(view', shown', at')
    BY <1>1, <2>1, <2>2 DEF Shows
  <2> QED
    BY <1>4, <2>3
<1>10. ASSUME NEW s \in Slots, SelectChannel(s) PROVE ViewInv'
  <2>1. shown' = s /\ view' = LastPage(MessagesOf(s))
    BY <1>10 DEF SelectChannel
  <2>2. Shows(view', shown', at')
    BY <2>1, <1>3
  <2> QED
    BY <1>4, <2>2
<1>11. CASE CloseSearch
  <2>1. shown' = shown /\ view' = IF shown # NoSlot THEN MessagesOf(shown) ELSE <<>>
    BY <1>11 DEF CloseSearch
  <2>2. ~searching' /\ shown' # NoSlot => Shows(view', shown', at')
    BY <2>1, <1>3
  <2> QED
    BY <1>4, <2>2
<1>12. ASSUME NEW found \in SUBSET (1 .. NMsgs), PerformSearch(found) PROVE ViewInv'
  BY <1>12 DEF PerformSearch, ViewInv
<1>13. ASSUME NEW n \in Names, CreateChannel(n) \/ AddCommunity(n) \/ AddPublicChannel(n) PROVE ViewInv'
  BY <1>5, <1>13, MakesFacts DEF AddChannel
<1>14. ASSUME NEW s \in Slots, RemoveChannel(s) \/ (\E n \in Names : ImportChannels(s, n)) \/ RadioHears(s) PROVE ViewInv'
  BY <1>5, <1>14 DEF RemoveChannel, ImportChannels, RadioHears
<1>15. ASSUME NEW s \in Slots, ClearChat(s) PROVE ViewInv'
  BY <1>6, <1>15 DEF ClearChat
<1>16. CASE OnDisconnected \/ SelectContact
  BY <1>6, <1>16 DEF OnDisconnected, SelectContact
<1>17. CASE OnConnected \/ PostConnectInit \/ DeviceQuery \/ RadioServes \/ RadioComplains
  BY <1>5, <1>17 DEF RadioServes, OnConnected, PostConnectInit, DeviceQuery,
                     RadioStarts, RadioTells, RadioGets, RadioSets, Serves, RadioComplains
<1>18. CASE SelfInfo \/ DeviceInfo \/ ChannelInfo \/ CmdError
  BY <1>5, <1>18 DEF SelfInfo, DeviceInfo, ChannelInfo, CmdError
<1> QED
  BY <1>7, <1>8, <1>9, <1>10, <1>11, <1>12, <1>13, <1>14, <1>15, <1>16, <1>17, <1>18, Zenon
     DEF Next, Link, Handler, Edit, Chat

LEMMA RowsStep ==
  ASSUME Types, RowsInv, Next
  PROVE  RowsInv'
<1>1. TypeOK /\ Bounded /\ MemoryInv /\ StoreInv /\ InboxInv /\ ViewInv
  BY DEF Types, RowsInv
<1>2. MemoryInv' /\ StoreInv' /\ InboxInv' /\ ViewInv'
  BY <1>1, MemoryStep, StoreStep, InboxStep, ViewStep
<1> QED
  BY <1>2 DEF RowsInv

LEMMA RowsInit ==
  Init => RowsInv
<1> SUFFICES ASSUME Init PROVE RowsInv
  OBVIOUS
<1>1. Types
  BY TypesInit
<1>2. channels = <<>> /\ inbox = <<>> /\ shown = NoSlot /\ db = {<<at[m], m>> : m \in DOMAIN at} /\ at \in Seq(Slots)
  BY <1>1 DEF Init, Types, TypeOK
<1>3. MemoryInv /\ InboxInv /\ ViewInv
  BY <1>2 DEF MemoryInv, InboxInv, ViewInv
<1>4. StoreInv
  BY <1>2 DEF StoreInv, InSlot
<1> QED
  BY <1>3, <1>4 DEF RowsInv
-----------------------------------------------------------------------------
(* The enumeration.                                                        *)

LEMMA HasAppended ==
  ASSUME NEW q \in Seq(Frames), NEW f \in Frames, NEW W
  PROVE  Has(Append(q, f), W) <=> Has(q, W) \/ f.what \in W
<1>1. /\ DOMAIN Append(q, f) = DOMAIN q \cup {Len(q) + 1}
      /\ Append(q, f)[Len(q) + 1] = f /\ \A i \in DOMAIN q : Append(q, f)[i] = q[i]
  BY AppendFacts
<1> QED
  BY <1>1 DEF Has

LEMMA HasServed ==
  ASSUME NEW q \in Seq(Frames), q # <<>>, NEW W
  PROVE  Has(q, W) <=> Has(Tail(q), W) \/ q[1].what \in W
<1>1. /\ 1 \in DOMAIN q
      /\ \A i \in DOMAIN Tail(q) : i + 1 \in DOMAIN q /\ Tail(q)[i] = q[i + 1]
      /\ \A k \in DOMAIN q : k # 1 => k - 1 \in DOMAIN Tail(q) /\ Tail(q)[k - 1] = q[k]
  BY TailFacts
<1>2. ASSUME Has(Tail(q), W) PROVE Has(q, W)
  <2>1. PICK i \in DOMAIN Tail(q) : Tail(q)[i].what \in W
    BY <1>2 DEF Has
  <2> QED
    BY <1>1, <2>1 DEF Has
<1>3. ASSUME Has(q, W), q[1].what \notin W PROVE Has(Tail(q), W)
  <2>1. PICK k \in DOMAIN q : q[k].what \in W /\ k # 1
    BY <1>3 DEF Has
  <2>2. k - 1 \in DOMAIN Tail(q) /\ Tail(q)[k - 1].what \in W
    BY <1>1, <2>1
  <2> QED
    BY <2>2 DEF Has
<1>4. q[1].what \in W => Has(q, W)
  BY <1>1 DEF Has
<1> QED
  BY <1>2, <1>3, <1>4

(* The first frame is of one kind, and is served or handled.               *)
LEMMA ServesFacts ==
  ASSUME TypeOK, NEW what, Serves(what)
  PROVE  /\ up # <<>> /\ up' = Tail(up) /\ up' \in Seq(Frames) /\ 1 \in DOMAIN up
         /\ Head(up) = up[1] /\ up[1] \in Frames /\ up[1].what = what
         /\ up[1].slot \in Slots /\ up[1].name \in Names \cup {Empty}
<1>1. up # <<>> /\ up' = Tail(up) /\ Head(up).what = what /\ up \in Seq(Frames)
  BY TypeFacts DEF Serves
<1>2. Tail(up) \in Seq(Frames) /\ Head(up) = up[1] /\ up[1] \in Frames /\ 1 \in DOMAIN up
  BY <1>1, TailFacts
<1> QED
  BY <1>1, <1>2, FrameParts

Fed == inits > 0 \/ Has(up, {"query", "get"}) \/ Has(inbox, {"info", "device"})

LEMMA FedMeans ==
  EnumerationFed <=> (enumerating /\ connected => Fed)
BY DEF EnumerationFed, Fed, Has, Asking

(* A frame that is sent is appended.                                       *)
LEMMA SentHas ==
  ASSUME up \in Seq(Frames), connected, NEW f \in Frames, NEW W, Send(<<f>>)
  PROVE  /\ up' = Append(up, f)
         /\ Has(up', W) <=> Has(up, W) \/ f.what \in W
<1>1. up' = Append(up, f)
  BY Sends
<1> QED
  BY <1>1, HasAppended

LEMMA FedStep ==
  ASSUME TypeOK, Bounded, EnumerationFed, Next
  PROVE  EnumerationFed'
<1>0. up \in Seq(Frames) /\ inbox \in Seq(Frames) /\ inits \in Nat
  BY TypeFacts DEF TypeOK
<1> DEFINE Goal == enumerating' /\ connected' => Fed'
<1>1. ASSUME Goal PROVE EnumerationFed'
  BY <1>1 DEF EnumerationFed, Fed, Has, Asking
<1>2. enumerating /\ connected => Fed
  BY FedMeans
<1>3. \A f \in Frames : /\ Has(up, {"query", "get"}) => Has(Append(up, f), {"query", "get"})
                        /\ Has(inbox, {"info", "device"}) => Has(Append(inbox, f), {"info", "device"})
                        /\ f.what \in {"query", "get"} => Has(Append(up, f), {"query", "get"})
                        /\ f.what \in {"info", "device"} => Has(Append(inbox, f), {"info", "device"})
  BY <1>0, HasAppended
<1> USE DEF air, list, screen, history
<1>4. CASE OnConnected
  BY <1>0, <1>4, <1>1 DEF OnConnected, Fed
<1>5. CASE PostConnectInit \/ DeviceQuery
  <2>1. Send(<<Ask("query")>>) /\ connected' = connected
    BY <1>5 DEF PostConnectInit, DeviceQuery
  <2>2. Ask("query") \in Frames /\ Ask("query").what = "query"
    BY FramesTyped
  <2>3. connected => Has(up', {"query", "get"})
    BY <1>0, <2>1, <2>2, SentHas
  <2> QED
    BY <1>1, <2>1, <2>3 DEF Fed
<1>6. CASE RadioServes
  <2>1. UNCHANGED <<enumerating, connected, inits>>
    BY <1>6 DEF RadioServes, RadioStarts, RadioTells, RadioGets, RadioSets, Serves
  <2>2. CASE RadioStarts \/ RadioSets
    <3>1. up # <<>> /\ up' = Tail(up) /\ up[1].what \notin {"query", "get"}
      BY <2>2, ServesFacts DEF RadioStarts, RadioSets
    <3>2. Has(up, {"query", "get"}) => Has(up', {"query", "get"})
      BY <1>0, <3>1, HasServed
    <3>3. inbox' = inbox \/ inbox' = Append(inbox, Ask("self"))
      BY <2>2 DEF RadioStarts, RadioSets
    <3>4. Has(inbox, {"info", "device"}) => Has(inbox', {"info", "device"})
      BY <1>3, <3>3, FramesTyped
    <3> QED
      BY <1>1, <1>2, <2>1, <3>2, <3>4 DEF Fed
  <2>3. CASE RadioTells
    <3>1. inbox' = Append(inbox, Ask("device")) /\ Ask("device") \in Frames /\ Ask("device").what = "device"
      BY <2>3, FramesTyped DEF RadioTells
    <3>2. Has(inbox', {"info", "device"})
      BY <1>3, <3>1
    <3> QED
      BY <1>1, <3>2 DEF Fed
  <2>4. CASE RadioGets
    <3>1. up[1].slot \in Slots /\ Head(up) = up[1]
      BY <2>4, ServesFacts DEF RadioGets
    <3>2. PICK f \in Frames : f = Frame("info", up[1].slot, radio[up[1].slot])
      BY <3>1, TypeFacts, FramesTyped
    <3>3. f.what = "info" /\ inbox' = Append(inbox, f)
      BY <2>4, <3>1, <3>2, Fields DEF RadioGets
    <3>4. Has(inbox', {"info", "device"})
      BY <1>3, <3>3
    <3> QED
      BY <1>1, <3>4 DEF Fed
  <2> QED
    BY <1>6, <2>2, <2>3, <2>4 DEF RadioServes
<1>7. ASSUME inbox # <<>>, inbox' = Tail(inbox), inbox[1].what \notin {"info", "device"},
             UNCHANGED <<up, connected, inits>>, enumerating' => enumerating
      PROVE  EnumerationFed'
  <2>1. Has(inbox, {"info", "device"}) => Has(inbox', {"info", "device"})
    BY <1>0, <1>7, HasServed
  <2> QED
    BY <1>1, <1>2, <1>7, <2>1 DEF Fed
<1>8. CASE SelfInfo \/ CmdError \/ ChannelMsgRecv
  <2>1. inbox # <<>> /\ inbox' = Tail(inbox) /\ inbox[1].what \notin {"info", "device"}
    BY <1>8, HandlesFacts DEF SelfInfo, CmdError, ChannelMsgRecv
  <2>2. UNCHANGED <<up, connected, inits>> /\ (enumerating' => enumerating)
    BY <1>8 DEF SelfInfo, CmdError, ChannelMsgRecv, Handles
  <2> QED
    BY <1>7, <2>1, <2>2
<1>9. ASSUME NEW s \in Slots, Send(<<Get(s)>>), connected' = connected PROVE EnumerationFed'
  <2>1. Get(s) \in Frames /\ Get(s).what = "get"
    BY FramesTyped
  <2>2. connected => Has(up', {"query", "get"})
    BY <1>0, <1>9, <2>1, SentHas
  <2> QED
    BY <1>1, <1>9, <2>2 DEF Fed
<1>10. CASE DeviceInfo
  BY <1>9, <1>10, ConstantFacts DEF DeviceInfo, Handles
<1>11. CASE ChannelInfo
  <2>1. connected' = connected
    BY <1>11 DEF ChannelInfo, Handles
  <2>2. CASE enumerating /\ index + 1 < max /\ Send(<<Get(index + 1)>>)
    <3>1. index + 1 \in Slots
      BY <2>2, ConstantFacts DEF TypeOK, Slots
    <3> QED
      BY <1>9, <2>1, <2>2, <3>1
  <2>3. CASE enumerating' = FALSE
    BY <1>1, <2>3
  <2>4. CASE ~enumerating /\ enumerating' = enumerating
    BY <1>1, <2>4
  <2> QED
    BY <1>11, <2>2, <2>3, <2>4 DEF ChannelInfo
<1>12. ASSUME NEW f \in Frames, UNCHANGED <<connected, inits>>, enumerating' => enumerating,
              up' = up \/ up' = Append(up, f), inbox' = inbox \/ \E g \in Frames : inbox' = Append(inbox, g)
       PROVE  EnumerationFed'
  <2>1. Has(up, {"query", "get"}) => Has(up', {"query", "get"})
    BY <1>3, <1>12
  <2>2. Has(inbox, {"info", "device"}) => Has(inbox', {"info", "device"})
    BY <1>3, <1>12
  <2> QED
    BY <1>1, <1>2, <1>12, <2>1, <2>2 DEF Fed
<1>13. CASE RadioComplains \/ Chat \/ \E s \in Slots : RadioHears(s)
  <2>1. UNCHANGED <<connected, inits, enumerating, up>>
    BY <1>13 DEF RadioComplains, RadioHears, Chat, SelectChannel, ClearChat, SelectContact, SendChannelMessage,
                 CloseSearch, DeleteMessage, PerformSearch
  <2>2. Ask("error") \in Frames
    BY FramesTyped
  <2>3. inbox' = inbox \/ \E g \in Frames : inbox' = Append(inbox, g)
    <3>1. CASE RadioComplains
      BY <3>1, <2>2 DEF RadioComplains
    <3>2. CASE Chat
      BY <3>2 DEF Chat, SelectChannel, ClearChat, SelectContact, SendChannelMessage, CloseSearch, DeleteMessage, PerformSearch
    <3>3. ASSUME NEW s \in Slots, RadioHears(s) PROVE \E g \in Frames : inbox' = Append(inbox, g)
      <4>1. Len(at) + 1 \in Rows
        BY <3>3, NextMessage DEF RadioHears
      <4>2. Message(s, Len(at) + 1) \in Frames
        BY <4>1, FramesTyped
      <4> QED
        BY <3>3, <4>2 DEF RadioHears
    <3> QED
      BY <1>13, <3>1, <3>2, <3>3
  <2> QED
    BY <1>12, <2>1, <2>2, <2>3
<1>14. ASSUME NEW n \in Names, CreateChannel(n) \/ AddCommunity(n) \/ AddPublicChannel(n) PROVE EnumerationFed'
  <2>1. PICK s \in Slots : AddChannel(s, n)
    BY <1>14, MakesFacts
  <2>2. PICK f : f = [Set(s, n) EXCEPT !.sure = calm /\ ~enumerating]
    OBVIOUS
  <2>3. f \in Frames
    <3>1. PICK b \in BOOLEAN : b = (calm /\ ~enumerating)
      OBVIOUS
    <3> QED
      BY <2>2, <3>1, FramesTyped
  <2>4. UNCHANGED <<connected, inits, enumerating, inbox>> /\ up' = Append(up, f)
    BY <2>1, <2>2 DEF AddChannel
  <2> QED
    BY <1>12, <2>3, <2>4
<1>15. ASSUME NEW s \in Slots, RemoveChannel(s) PROVE EnumerationFed'
  <2>1. Set(s, Empty) \in Frames
    BY FramesTyped
  <2>2. UNCHANGED <<connected, inits, enumerating, inbox>> /\ connected /\ Send(<<Set(s, Empty)>>)
    BY <1>15 DEF RemoveChannel
  <2>3. up' = Append(up, Set(s, Empty))
    BY <1>0, <2>1, <2>2, Sends
  <2> QED
    BY <1>12, <2>1, <2>2, <2>3
<1>16. ASSUME NEW s \in Slots, NEW n \in Names, ImportChannels(s, n) PROVE EnumerationFed'
  <2>1. Set(s, n) \in Frames /\ Get(0) \in Frames /\ Get(0).what = "get"
    BY FramesTyped, ConstantFacts
  <2>2. Send(<<Set(s, n), Get(0)>>) /\ connected
    BY <1>16 DEF ImportChannels
  <2>3. up' = Append(Append(up, Set(s, n)), Get(0))
    BY <1>0, <2>1, <2>2, Sends
  <2>4. PICK u \in Seq(Frames) : u = Append(up, Set(s, n))
    BY <1>0, <2>1, AppendFacts
  <2>5. Has(up', {"query", "get"})
    BY <2>1, <2>3, <2>4, HasAppended
  <2> QED
    BY <1>1, <2>5 DEF Fed
<1>17. CASE OnDisconnected
  BY <1>1, <1>17 DEF OnDisconnected
<1>18. CASE Edit
  BY <1>14, <1>15, <1>16, <1>18, Zenon DEF Edit
<1> QED
  BY <1>4, <1>5, <1>6, <1>8, <1>10, <1>11, <1>13, <1>17, <1>18, Zenon DEF Next, Link, Handler

(* A radio that is connected says who it is.                               *)
Greets == (up # <<>> /\ up[1].what = "start") \/ Has(inbox, {"self"})

LEMMA GreetsMeans ==
  KnownInv <=> (connected /\ ~known => Greets)
BY DEF KnownInv, Introduces, Greets, Has

LEMMA KnownKept ==
  ASSUME Next, ~OnConnected, ~OnDisconnected, ~SelfInfo
  PROVE  connected' = connected /\ known' = known
<1> USE DEF air, list, screen, history
<1>1. ASSUME PostConnectInit \/ DeviceQuery \/ RadioServes \/ RadioComplains \/ \E s \in Slots : RadioHears(s)
      PROVE  connected' = connected /\ known' = known
  BY <1>1 DEF PostConnectInit, DeviceQuery, RadioServes, RadioStarts, RadioTells, RadioGets, RadioSets, Serves,
              RadioComplains, RadioHears
<1>2. ASSUME DeviceInfo \/ ChannelInfo \/ CmdError \/ ChannelMsgRecv
      PROVE  connected' = connected /\ known' = known
  BY <1>2 DEF DeviceInfo, ChannelInfo, CmdError, ChannelMsgRecv, Handles
<1>3. ASSUME Chat PROVE connected' = connected /\ known' = known
  BY <1>3 DEF Chat, SelectChannel, ClearChat, SelectContact, SendChannelMessage, CloseSearch, DeleteMessage, PerformSearch
<1>4. ASSUME Edit PROVE connected' = connected /\ known' = known
  BY <1>4 DEF Edit, CreateChannel, AddCommunity, AddPublicChannel, AddChannel, RemoveChannel, ImportChannels
<1> QED
  BY <1>1, <1>2, <1>3, <1>4 DEF Next, Link, Handler

LEMMA KnownStep ==
  ASSUME TypeOK, Bounded, KnownInv, Next
  PROVE  KnownInv'
<1>0. up \in Seq(Frames) /\ inbox \in Seq(Frames)
  BY TypeFacts
<1>1. ASSUME connected' /\ ~known' => Greets' PROVE KnownInv'
  BY <1>1 DEF KnownInv, Introduces, Greets, Has
<1>2. connected /\ ~known => Greets
  BY GreetsMeans
<1>3. CASE OnConnected
  <2>1. up' = <<Ask("start")>>
    BY <1>3 DEF OnConnected
  <2>2. up' # <<>> /\ up'[1] = Ask("start")
    BY <2>1
  <2>3. Ask("start").what = "start"
    BY FramesTyped
  <2> QED
    BY <1>1, <2>2, <2>3 DEF Greets
<1>4. CASE OnDisconnected
  BY <1>1, <1>4 DEF OnDisconnected
<1>5. CASE SelfInfo
  BY <1>1, <1>5 DEF SelfInfo
<1>6. CASE RadioStarts
  <2>1. inbox' = Append(inbox, Ask("self")) /\ Ask("self") \in Frames /\ Ask("self").what = "self"
    BY <1>6, FramesTyped DEF RadioStarts
  <2>2. Has(inbox', {"self"})
    BY <1>0, <2>1, HasAppended
  <2> QED
    BY <1>1, <2>2 DEF Greets
<1>8. ASSUME ~SelfInfo PROVE Has(inbox, {"self"}) => Has(inbox', {"self"})
  <2>1. ASSUME NEW f \in Frames, inbox' = Append(inbox, f) PROVE Has(inbox, {"self"}) => Has(inbox', {"self"})
    BY <1>0, <2>1, HasAppended
  <2>2. ASSUME NEW s \in Slots, RadioHears(s) PROVE Has(inbox, {"self"}) => Has(inbox', {"self"})
    <3>1. Len(at) + 1 \in Rows
      BY <2>2, NextMessage DEF RadioHears
    <3>2. Message(s, Len(at) + 1) \in Frames
      BY <3>1, FramesTyped
    <3> QED
      BY <2>1, <2>2, <3>2 DEF RadioHears
  <2>3. ASSUME DeviceInfo \/ ChannelInfo \/ CmdError \/ ChannelMsgRecv PROVE Has(inbox, {"self"}) => Has(inbox', {"self"})
    <3>1. inbox # <<>> /\ inbox' = Tail(inbox) /\ inbox[1].what \notin {"self"}
      BY <2>3, HandlesFacts DEF DeviceInfo, ChannelInfo, CmdError, ChannelMsgRecv
    <3> QED
      BY <1>0, <3>1, HasServed
  <2> QED
    BY <1>8, <2>1, <2>2, <2>3, InboxMoves DEF Handler
<1>9. ASSUME ~OnConnected, ~OnDisconnected, ~RadioStarts
      PROVE  (up # <<>> /\ up[1].what = "start") => (up' # <<>> /\ up'[1].what = "start")
  <2>1. ASSUME NEW u \in Seq(Frames), NEW f \in Frames
        PROVE  Append(u, f) # <<>> /\ (u # <<>> => Append(u, f)[1] = u[1])
    <3>1. Len(Append(u, f)) = Len(u) + 1 /\ Len(u) \in Nat
      BY AppendFacts
    <3>2. Append(u, f) # <<>>
      BY <3>1
    <3>3. u # <<>> => 1 \in DOMAIN u
      BY TailFacts
    <3>4. \A i \in DOMAIN u : Append(u, f)[i] = u[i]
      BY AppendFacts
    <3> QED
      BY <3>2, <3>3, <3>4
  <2>2. RadioServes => up[1].what # "start"
    BY <1>9, ServesFacts DEF RadioServes, RadioTells, RadioGets, RadioSets
  <2>3. \A f \in Frames : Append(up, f) \in Seq(Frames)
    BY <1>0
  <2> QED
    BY <1>0, <1>9, <2>1, <2>2, <2>3, UpMoves
<1>10. ASSUME ~OnConnected, ~OnDisconnected, ~RadioStarts, ~SelfInfo PROVE KnownInv'
  <2>1. connected' = connected /\ known' = known
    BY <1>10, KnownKept
  <2> QED
    BY <1>1, <1>2, <1>8, <1>9, <1>10, <2>1 DEF Greets
<1> QED
  BY <1>3, <1>4, <1>5, <1>6, <1>10

(* What is sure stays sure until it is served.                             *)
SureAt(u, r, i) == u[i].what = "set" /\ u[i].sure => Holds(u, r, i, u[i].slot, Empty)

LEMMA SureSent ==
  ASSUME NEW u \in Seq(Frames), NEW r, NEW f \in Frames, \A i \in DOMAIN u : SureAt(u, r, i),
         f.what = "set" /\ f.sure => Holds(u, r, Len(u) + 1, f.slot, Empty)
  PROVE  \A i \in DOMAIN Append(u, f) : SureAt(Append(u, f), r, i)
<1> DEFINE v == Append(u, f)
<1>1. /\ DOMAIN v = DOMAIN u \cup {Len(u) + 1} /\ v[Len(u) + 1] = f
      /\ \A i \in DOMAIN u : v[i] = u[i]
  BY AppendFacts
<1>2. \A s : \A n \in 1 .. Len(u) + 1 : Holds(u, r, n, s, Empty) => Holds(v, r, n, s, Empty)
  BY HoldsSent
<1>3. DOMAIN u = 1 .. Len(u) /\ Len(u) \in Nat
  OBVIOUS
<1> HIDE DEF v
<1>4. ASSUME NEW i \in DOMAIN u PROVE SureAt(v, r, i)
  <2>1. i \in 1 .. Len(u) + 1
    BY <1>3
  <2> QED
    BY <1>1, <1>2, <1>4, <2>1 DEF SureAt
<1>5. SureAt(v, r, Len(u) + 1)
  <2>1. Len(u) + 1 \in 1 .. Len(u) + 1
    BY <1>3
  <2> QED
    BY <1>1, <1>2, <2>1 DEF SureAt
<1> QED
  BY <1>1, <1>4, <1>5 DEF v

LEMMA SureServed ==
  ASSUME NEW u \in Seq(Frames), u # <<>>, NEW r \in [Slots -> Names \cup {Empty}], \A i \in DOMAIN u : SureAt(u, r, i)
  PROVE  \A i \in DOMAIN Tail(u) : SureAt(Tail(u), Served(u, r), i)
<1> DEFINE t == Tail(u)
<1>1. \A i \in DOMAIN t : i + 1 \in DOMAIN u /\ t[i] = u[i + 1]
  BY TailFacts
<1>2. t \in Seq(Frames) /\ DOMAIN t \subseteq Nat \ {0}
  BY TailFacts
<1>3. PICK r2 : r2 = Served(u, r)
  OBVIOUS
<1>4. r2 = IF u[1].what = "set" THEN [r EXCEPT ![u[1].slot] = u[1].name] ELSE r
  BY <1>3 DEF Served
<1>5. \A n \in Nat, s \in Slots : n > 1 /\ Holds(u, r, n, s, Empty) => Holds(t, r2, n - 1, s, Empty)
  BY <1>4, HoldsServed
<1> HIDE DEF t
<1>6. ASSUME NEW i \in DOMAIN t, t[i].what = "set", t[i].sure PROVE Holds(t, r2, i, t[i].slot, Empty)
  <2>1. i + 1 \in Nat /\ i + 1 > 1 /\ (i + 1) - 1 = i
    BY <1>2
  <2>2. t[i] \in Frames
    BY <1>2
  <2>3. t[i].slot \in Slots
    BY <2>2, FrameParts
  <2>4. Holds(u, r, i + 1, t[i].slot, Empty)
    BY <1>1, <1>6, Zenon DEF SureAt
  <2>5. Holds(t, r2, (i + 1) - 1, t[i].slot, Empty)
    BY <1>5, <2>1, <2>3, <2>4
  <2> QED
    BY <2>1, <2>5
<1> QED
  BY <1>3, <1>6, Zenon DEF SureAt, t

LEMMA SureStep ==
  ASSUME TypeOK, Bounded, SureInv, CalmInv, Next
  PROVE  SureInv'
<1>0. up \in Seq(Frames) /\ radio \in [Slots -> Names \cup {Empty}]
  BY TypeFacts
<1>1. \A i \in DOMAIN up : SureAt(up, radio, i)
  BY Zenon DEF SureInv, SureAt
<1>2. ASSUME \A i \in DOMAIN up' : SureAt(up', radio', i) PROVE SureInv'
  BY <1>2, Zenon DEF SureInv, SureAt
<1>3. ASSUME NEW f \in Frames, Trusts(f), f.what = "set", f.sure PROVE Holds(up, radio, Len(up) + 1, f.slot, Empty)
  <2>1. calm /\ ~enumerating /\ ~IsListed(f.slot)
    BY <1>3, Zenon DEF Trusts
  <2>2. f.slot \in Slots
    BY FrameParts
  <2> QED
    BY <2>1, <2>2 DEF CalmInv, HoldsInv, Will, Listed, IsListed
<1>4. ASSUME NEW f \in Frames, Trusts(f)
      PROVE  \A i \in DOMAIN Append(up, f) : SureAt(Append(up, f), radio, i)
  <2>1. f.what = "set" /\ f.sure => Holds(up, radio, Len(up) + 1, f.slot, Empty)
    BY <1>3, <1>4, Zenon
  <2> QED
    BY <1>0, <1>1, <2>1, SureSent
<1>5. ASSUME NEW f \in Frames, Trusts(f), NEW g \in Frames, g.what = "get"
      PROVE  \A i \in DOMAIN Append(Append(up, f), g) : SureAt(Append(Append(up, f), g), radio, i)
  <2>1. PICK u \in Seq(Frames) : u = Append(up, f)
    BY <1>0, AppendFacts
  <2>2. \A i \in DOMAIN u : SureAt(u, radio, i)
    BY <1>4, <1>5, <2>1
  <2> QED
    BY <1>5, <2>1, <2>2, SureSent
<1>6. up # <<>> => \A i \in DOMAIN Tail(up) : SureAt(Tail(up), Served(up, radio), i)
  BY <1>0, <1>1, SureServed
<1>8. CASE up' = <<>>
  BY <1>8 DEF SureInv
<1>9. CASE up' = <<Ask("start")>>
  <2>1. DOMAIN up' = {1} /\ up'[1] = Ask("start")
    BY <1>9
  <2>2. up'[1].what # "set"
    BY <2>1, FramesTyped
  <2> QED
    BY <2>1, <2>2, Zenon DEF SureInv
<1> QED
  BY <1>1, <1>2, <1>4, <1>5, <1>6, <1>8, <1>9, UpMoves

(* The list, when commands are served and sent.                            *)
LEMMA WillBeServed ==
  ASSUME NEW u \in Seq(Frames), u # <<>>, NEW r \in [Slots -> Names \cup {Empty}],
         NEW s \in Slots, NEW name, Will(u, r, s, name)
  PROVE  Will(Tail(u), Served(u, r), s, name)
<1>1. Len(u) \in Nat \ {0} /\ Len(Tail(u)) = Len(u) - 1
  BY TailFacts
<1>2. PICK n \in Nat : n = Len(u) + 1
  BY <1>1
<1>3. n > 1 /\ n - 1 = Len(Tail(u)) + 1
  BY <1>1, <1>2
<1>4. Holds(u, r, n, s, name)
  BY <1>2 DEF Will
<1>5. PICK r2 : r2 = Served(u, r)
  OBVIOUS
<1>6. r2 = IF u[1].what = "set" THEN [r EXCEPT ![u[1].slot] = u[1].name] ELSE r
  BY <1>5 DEF Served
<1>7. Holds(Tail(u), r2, n - 1, s, name)
  BY <1>3, <1>4, <1>6, HoldsServed
<1> QED
  BY <1>3, <1>5, <1>7 DEF Will

LEMMA WillBeSent ==
  ASSUME NEW u \in Seq(Frames), NEW r, NEW f \in Frames, NEW s
  PROVE  /\ \A name : Will(u, r, s, name) /\ ~(f.what = "set" /\ f.slot = s) => Will(Append(u, f), r, s, name)
         /\ f.what = "set" /\ f.slot = s => Will(Append(u, f), r, s, f.name)
BY HoldsSent DEF Will

(* The question and its answer.                                            *)
LEMMA AskedSent ==
  ASSUME NEW u \in Seq(Frames), NEW q, NEW x, NEW L, NEW M, L \subseteq M, Asked(u, q, x, L),
         NEW f \in Frames, f.what # "get", f.what = "set" => f.slot \in M
  PROVE  Asked(Append(u, f), q, x, M)
<1> DEFINE v == Append(u, f)
<1>1. /\ DOMAIN v = DOMAIN u \cup {Len(u) + 1} /\ v[Len(u) + 1] = f
      /\ \A i \in DOMAIN u : v[i] = u[i]
  BY AppendFacts
<1> HIDE DEF v
<1>2. PICK p \in DOMAIN u : /\ u[p].what = "get" /\ u[p].slot = x
                            /\ \A k \in DOMAIN u : u[k].what = "get" => k = p
                            /\ \A k \in DOMAIN u : k > p /\ u[k].what = "set" => u[k].slot \in L
  BY DEF Asked
<1>3. p \in DOMAIN v /\ v[p].what = "get" /\ v[p].slot = x
  BY <1>1, <1>2
<1>4. \A k \in DOMAIN v : v[k].what = "get" => k = p
  BY <1>1, <1>2
<1>5. \A k \in DOMAIN v : k > p /\ v[k].what = "set" => v[k].slot \in M
  BY <1>1, <1>2
<1> QED
  BY <1>3, <1>4, <1>5 DEF Asked, v

LEMMA AskedServed ==
  ASSUME NEW u \in Seq(Frames), u # <<>>, NEW q, NEW x, NEW L, Asked(u, q, x, L), u[1].what # "get"
  PROVE  Asked(Tail(u), q, x, L)
<1> DEFINE t == Tail(u)
<1>1. /\ \A i \in DOMAIN t : i + 1 \in DOMAIN u /\ t[i] = u[i + 1]
      /\ \A k \in DOMAIN u : k # 1 => k - 1 \in DOMAIN t /\ t[k - 1] = u[k]
      /\ DOMAIN t \subseteq Nat /\ DOMAIN u \subseteq Nat
  BY TailFacts
<1> HIDE DEF t
<1>2. PICK p \in DOMAIN u : /\ u[p].what = "get" /\ u[p].slot = x
                            /\ \A k \in DOMAIN u : u[k].what = "get" => k = p
                            /\ \A k \in DOMAIN u : k > p /\ u[k].what = "set" => u[k].slot \in L
  BY DEF Asked
<1>3. p - 1 \in DOMAIN t /\ t[p - 1].what = "get" /\ t[p - 1].slot = x
  BY <1>1, <1>2
<1>4. ASSUME NEW k \in DOMAIN t
      PROVE  /\ t[k].what = "get" => k = p - 1
             /\ k > p - 1 /\ t[k].what = "set" => t[k].slot \in L
  <2>1. k + 1 \in DOMAIN u /\ t[k] = u[k + 1] /\ k \in Nat /\ p \in Nat
    BY <1>1
  <2>2. (k + 1 = p => k = p - 1) /\ (k > p - 1 => k + 1 > p)
    BY <2>1
  <2> QED
    BY <1>2, <2>1, <2>2
<1> QED
  BY <1>3, <1>4 DEF Asked, t

LEMMA AskedFirst ==
  ASSUME NEW u \in Seq(Frames), NEW q, NEW x, NEW L, ~Has(u, {"get"}), ~Has(q, {"info"}),
         NEW g \in Frames, g.what = "get", g.slot = x
  PROVE  Asked(Append(u, g), q, x, L)
<1> DEFINE v == Append(u, g)
<1>1. /\ DOMAIN v = DOMAIN u \cup {Len(u) + 1} /\ v[Len(u) + 1] = g
      /\ \A i \in DOMAIN u : i <= Len(u) /\ v[i] = u[i]
      /\ Len(u) \in Nat /\ DOMAIN u \subseteq Nat
  BY AppendFacts
<1> HIDE DEF v
<1>2. Len(u) + 1 \in DOMAIN v /\ v[Len(u) + 1].what = "get" /\ v[Len(u) + 1].slot = x
  BY <1>1
<1>3. \A k \in DOMAIN v : v[k].what = "get" => k = Len(u) + 1
  BY <1>1 DEF Has
<1>4. \A k \in DOMAIN v : ~(k > Len(u) + 1)
  BY <1>1
<1> QED
  BY <1>2, <1>3, <1>4 DEF Asked, v

LEMMA AskedAnswered ==
  ASSUME NEW u \in Seq(Frames), u # <<>>, NEW q \in Seq(Frames), NEW x, NEW L, NEW r, Asked(u, q, x, L),
         u[1].what = "get", NEW f \in Frames, f.what = "info", f.slot = u[1].slot, f.name = r[f.slot]
  PROVE  Answered(Tail(u), Append(q, f), x, L, r)
<1> DEFINE t == Tail(u)
           v == Append(q, f)
<1>1. /\ \A i \in DOMAIN t : i + 1 \in DOMAIN u /\ i + 1 # 1 /\ t[i] = u[i + 1]
      /\ 1 \in DOMAIN u /\ DOMAIN t \subseteq Nat \ {0}
  BY TailFacts
<1>2. /\ DOMAIN v = DOMAIN q \cup {Len(q) + 1} /\ v[Len(q) + 1] = f
      /\ \A i \in DOMAIN q : v[i] = q[i]
  BY AppendFacts
<1> HIDE DEF t, v
<1>3. PICK p \in DOMAIN u : /\ u[p].what = "get" /\ u[p].slot = x
                            /\ \A k \in DOMAIN u : u[k].what = "get" => k = p
                            /\ \A k \in DOMAIN u : k > p /\ u[k].what = "set" => u[k].slot \in L
  BY DEF Asked
<1>4. p = 1
  BY <1>1, <1>3
<1>5. ~Has(t, {"get"})
  BY <1>1, <1>3, <1>4 DEF Has
<1>6. \A k \in DOMAIN t : t[k].what = "set" => t[k].slot \in L
  <2> SUFFICES ASSUME NEW k \in DOMAIN t, t[k].what = "set" PROVE t[k].slot \in L
    OBVIOUS
  <2>1. k + 1 \in DOMAIN u /\ t[k] = u[k + 1] /\ k + 1 > 1
    BY <1>1
  <2> QED
    BY <1>3, <1>4, <2>1
<1>7. Len(q) + 1 \in DOMAIN v /\ v[Len(q) + 1].what = "info" /\ v[Len(q) + 1].slot = x /\ v[Len(q) + 1].name = r[x]
  BY <1>2, <1>3, <1>4
<1>8. \A k \in DOMAIN v : v[k].what = "info" => k = Len(q) + 1
  BY <1>2 DEF Asked, Has
<1> QED
  BY <1>5, <1>6, <1>7, <1>8 DEF Answered, t, v

LEMMA AnsweredSent ==
  ASSUME NEW u \in Seq(Frames), NEW q, NEW x, NEW L, NEW M, L \subseteq M, NEW r, Answered(u, q, x, L, r),
         NEW f \in Frames, f.what # "get", f.what = "set" => f.slot \in M
  PROVE  Answered(Append(u, f), q, x, M, r)
<1> DEFINE v == Append(u, f)
<1>1. /\ DOMAIN v = DOMAIN u \cup {Len(u) + 1} /\ v[Len(u) + 1] = f
      /\ \A i \in DOMAIN u : v[i] = u[i]
  BY AppendFacts
<1> HIDE DEF v
<1>2. ~Has(v, {"get"})
  BY <1>1 DEF Answered, Has
<1>3. \A k \in DOMAIN v : v[k].what = "set" => v[k].slot \in M
  BY <1>1 DEF Answered
<1> QED
  BY <1>2, <1>3 DEF Answered, v

LEMMA AnsweredServed ==
  ASSUME NEW u \in Seq(Frames), u # <<>>, NEW q, NEW x \in Slots, NEW L, NEW r \in [Slots -> Names \cup {Empty}],
         Answered(u, q, x, L, r)
  PROVE  Answered(Tail(u), q, x, L, Served(u, r))
<1> DEFINE t == Tail(u)
<1>1. /\ \A i \in DOMAIN t : i + 1 \in DOMAIN u /\ t[i] = u[i + 1]
      /\ 1 \in DOMAIN u
  BY TailFacts
<1> HIDE DEF t
<1>2. ~Has(t, {"get"})
  BY <1>1 DEF Answered, Has
<1>3. \A k \in DOMAIN t : t[k].what = "set" => t[k].slot \in L
  BY <1>1 DEF Answered
<1>4. x \notin L => Served(u, r)[x] = r[x]
  BY <1>1 DEF Answered, Served
<1> QED
  BY <1>2, <1>3, <1>4 DEF Answered, t

LEMMA AnsweredHeard ==
  ASSUME NEW u, NEW q \in Seq(Frames), NEW x, NEW L, NEW r, Answered(u, q, x, L, r),
         NEW f \in Frames, f.what # "info"
  PROVE  Answered(u, Append(q, f), x, L, r)
<1> DEFINE v == Append(q, f)
<1>1. /\ DOMAIN v = DOMAIN q \cup {Len(q) + 1} /\ v[Len(q) + 1] = f
      /\ \A i \in DOMAIN q : v[i] = q[i]
  BY AppendFacts
<1> HIDE DEF v
<1>2. PICK p \in DOMAIN q : /\ q[p].what = "info" /\ q[p].slot = x
                            /\ \A k \in DOMAIN q : q[k].what = "info" => k = p
                            /\ x \notin L => q[p].name = r[x]
  BY DEF Answered
<1>3. p \in DOMAIN v /\ v[p] = q[p] /\ \A k \in DOMAIN v : v[k].what = "info" => k = p
  BY <1>1, <1>2
<1> QED
  BY <1>2, <1>3 DEF Answered, v

LEMMA AnsweredHandled ==
  ASSUME NEW u, NEW q \in Seq(Frames), q # <<>>, NEW x, NEW L, NEW r, Answered(u, q, x, L, r), q[1].what # "info"
  PROVE  Answered(u, Tail(q), x, L, r)
<1> DEFINE t == Tail(q)
<1>1. /\ \A i \in DOMAIN t : i + 1 \in DOMAIN q /\ t[i] = q[i + 1] /\ i \in Nat
      /\ \A k \in DOMAIN q : k # 1 => k - 1 \in DOMAIN t /\ t[k - 1] = q[k]
  BY TailFacts
<1> HIDE DEF t
<1>2. PICK p \in DOMAIN q : /\ q[p].what = "info" /\ q[p].slot = x
                            /\ \A k \in DOMAIN q : q[k].what = "info" => k = p
                            /\ x \notin L => q[p].name = r[x]
  BY DEF Answered
<1>3. p - 1 \in DOMAIN t /\ t[p - 1] = q[p]
  BY <1>1, <1>2
<1>4. \A k \in DOMAIN t : t[k].what = "info" => k + 1 = p
  BY <1>1, <1>2
<1>5. \A k \in DOMAIN t : k + 1 = p => k = p - 1
  BY <1>1
<1> QED
  BY <1>2, <1>3, <1>4, <1>5 DEF Answered, t

LEMMA SelfFirstHeard ==
  ASSUME NEW q \in Seq(Frames), NEW f \in Frames, SelfFirst(q), f.what = "info" => Has(q, {"self"})
  PROVE  SelfFirst(Append(q, f))
<1> DEFINE v == Append(q, f)
<1>1. /\ DOMAIN v = DOMAIN q \cup {Len(q) + 1} /\ v[Len(q) + 1] = f
      /\ \A i \in DOMAIN q : i < Len(q) + 1 /\ v[i] = q[i]
  BY AppendFacts
<1> HIDE DEF v
<1>2. ASSUME NEW p \in DOMAIN v, v[p].what = "info" PROVE \E k \in DOMAIN v : k < p /\ v[k].what = "self"
  <2>1. CASE p \in DOMAIN q
    BY <1>1, <1>2, <2>1 DEF SelfFirst
  <2>2. CASE p = Len(q) + 1
    BY <1>1, <1>2, <2>2 DEF Has
  <2> QED
    BY <1>1, <2>1, <2>2
<1> QED
  BY <1>2 DEF SelfFirst, v

LEMMA SelfFirstHandled ==
  ASSUME NEW q \in Seq(Frames), q # <<>>, SelfFirst(q), q[1].what # "self"
  PROVE  SelfFirst(Tail(q))
<1> DEFINE t == Tail(q)
<1>1. /\ \A i \in DOMAIN t : i + 1 \in DOMAIN q /\ t[i] = q[i + 1] /\ i \in Nat
      /\ \A k \in DOMAIN q : k # 1 => k - 1 \in DOMAIN t /\ t[k - 1] = q[k]
      /\ DOMAIN q \subseteq Nat
  BY TailFacts
<1> HIDE DEF t
<1>2. ASSUME NEW p \in DOMAIN t, t[p].what = "info" PROVE \E k \in DOMAIN t : k < p /\ t[k].what = "self"
  <2>1. p + 1 \in DOMAIN q /\ q[p + 1].what = "info" /\ p \in Nat
    BY <1>1, <1>2
  <2>2. PICK k \in DOMAIN q : k < p + 1 /\ q[k].what = "self"
    BY <2>1 DEF SelfFirst
  <2>3. k # 1 /\ k \in Nat
    BY <1>1, <2>2
  <2>4. k - 1 \in DOMAIN t /\ t[k - 1].what = "self" /\ k - 1 < p
    BY <1>1, <2>1, <2>2, <2>3
  <2> QED
    BY <2>4
<1> QED
  BY <1>2 DEF SelfFirst, t

LEMMA ListedMoves ==
  ASSUME TypeOK
  PROVE  /\ Same(channels, channels') => Listed' = Listed
         /\ \A s, n : Gains(channels, channels', s, n) => Listed' = Listed \cup {s}
         /\ SlotsDistinct => \A p \in DOMAIN channels : Loses(channels, channels', p) => Listed' = Listed \ {channels[p].slot}
<1>1. Same(channels, channels') => Listed' = Listed
  BY DEF Same, Listed
<1>2. ASSUME NEW s, NEW n, Gains(channels, channels', s, n) PROVE Listed' = Listed \cup {s}
  BY <1>2 DEF Gains, Listed
<1>3. ASSUME SlotsDistinct, NEW p \in DOMAIN channels, Loses(channels, channels', p)
      PROVE  Listed' = Listed \ {channels[p].slot}
  <2>1. PICK Q \in [DOMAIN channels' -> DOMAIN channels] :
          /\ \A j \in DOMAIN channels' : channels'[j] = channels[Q[j]] /\ Q[j] # p
          /\ \A i \in DOMAIN channels : i # p => \E j \in DOMAIN channels' : Q[j] = i
    BY <1>3 DEF Loses
  <2>2. \A i \in DOMAIN channels : channels[i].slot = channels[p].slot => i = p
    BY <1>3 DEF SlotsDistinct
  <2>3. ASSUME NEW s \in Listed' PROVE s \in Listed /\ s # channels[p].slot
    <3>1. PICK j \in DOMAIN channels' : s = channels'[j].slot
      BY <2>3 DEF Listed
    <3> QED
      BY <2>1, <2>2, <3>1 DEF Listed
  <2>4. ASSUME NEW s \in Listed, s # channels[p].slot PROVE s \in Listed'
    <3>1. PICK i \in DOMAIN channels : s = channels[i].slot
      BY <2>4 DEF Listed
    <3>2. i # p
      BY <2>4, <3>1
    <3>3. PICK j \in DOMAIN channels' : channels'[j] = channels[i]
      BY <2>1, <3>2
    <3> QED
      BY <3>1, <3>3 DEF Listed
  <2> QED
    BY <2>3, <2>4
<1> QED
  BY <1>1, <1>2, <1>3

LEMMA ListedTyped ==
  ASSUME TypeOK
  PROVE  Listed \subseteq Slots /\ (\A s : IsListed(s) <=> s \in Listed)
         /\ \A i \in DOMAIN channels : channels[i].slot \in Slots
<1>1. \A i \in DOMAIN channels : channels[i] \in Recs
  BY TypeFacts
<1>2. \A i \in DOMAIN channels : channels[i].slot \in Slots
  BY <1>1, RecParts
<1> QED
  BY <1>2 DEF Listed, IsListed

LEMMA HoldsKept ==
  ASSUME TypeOK, HoldsInv, Same(channels, channels'), UNCHANGED <<enumerating, index>>,
         \A s \in Slots : \A name : Will(up, radio, s, name) => Will(up', radio', s, name)
  PROVE  HoldsInv'
<1>1. Listed' = Listed
  BY ListedMoves
<1>2. \A i \in DOMAIN channels : channels[i].slot \in Slots
  BY ListedTyped
<1>3. \A i \in DOMAIN channels' : Will(up', radio', channels'[i].slot, channels'[i].name)
  BY <1>2 DEF HoldsInv, Same
<1>4. \A s \in Slots \ Listed' : (enumerating' => s < index') => Will(up', radio', s, Empty)
  BY <1>1 DEF HoldsInv
<1> QED
  BY <1>3, <1>4 DEF HoldsInv

LEMMA CalmKept ==
  ASSUME TypeOK, CalmInv, calm => Same(channels, channels'), UNCHANGED <<connected, max, enumerating, index, calm>>,
         known' = known \/ known' = TRUE,
         calm => \A s \in Slots : \A name : Will(up, radio, s, name) => Will(up', radio', s, name),
         calm /\ Asked(up, inbox, index, Listed) => Asked(up', inbox', index, Listed) \/ Answered(up', inbox', index, Listed, radio'),
         calm /\ enumerating /\ Answered(up, inbox, index, Listed, radio) => Answered(up', inbox', index, Listed, radio'),
         calm /\ ~known' /\ SelfFirst(inbox) => SelfFirst(inbox'),
         calm /\ ~Has(up, {"get"}) /\ ~Has(inbox, {"info"}) => ~Has(up', {"get"}) /\ ~Has(inbox', {"info"})
  PROVE  CalmInv'
<1> SUFFICES ASSUME calm' PROVE CalmInv'
  BY DEF CalmInv
<1>1. calm /\ connected /\ max = NSlots /\ HoldsInv /\ TurnInv /\ RestInv
  BY DEF CalmInv
<1>2. HoldsInv'
  BY <1>1, HoldsKept
<1>3. Listed' = Listed
  BY <1>1, ListedMoves
<1>4. ASSUME enumerating
      PROVE  /\ Asked(up', inbox', index', Listed') \/ Answered(up', inbox', index', Listed', radio')
             /\ ~known' => SelfFirst(inbox')
  <2>1. Asked(up, inbox, index, Listed) \/ Answered(up, inbox, index, Listed, radio)
    BY <1>1, <1>4 DEF TurnInv
  <2>2. Asked(up', inbox', index, Listed) \/ Answered(up', inbox', index, Listed, radio')
    BY <1>1, <1>4, <2>1
  <2>3. ~known' => SelfFirst(inbox')
    BY <1>1, <1>4 DEF TurnInv
  <2> QED
    BY <1>3, <2>2, <2>3
<1>5. TurnInv'
  BY <1>4 DEF TurnInv
<1>6. RestInv'
  BY <1>1 DEF RestInv
<1> QED
  BY <1>1, <1>2, <1>5, <1>6 DEF CalmInv

LEMMA ChatSame ==
  ASSUME TypeOK, Chat
  PROVE  Same(channels, channels')
<1> USE DEF air, list, screen, history
<1>1. channels' = channels => Same(channels, channels')
  BY DEF Same
<1>2. ASSUME SendChannelMessage PROVE Same(channels, channels')
  <2>1. channels' = Filed(shown, Len(at) + 1) /\ Len(at) + 1 \in Rows \ {NoResult}
    BY <1>2, NextMessage DEF SendChannelMessage
  <2> QED
    BY <2>1, FiledFacts
<1>3. ASSUME NEW i \in 1 .. NMsgs, DeleteMessage(i) PROVE Same(channels, channels')
  BY <1>3, DeletedFacts
<1>4. ASSUME NEW s \in Slots, ClearChat(s) PROVE Same(channels, channels')
  BY <1>4, ClearedFacts
<1>5. ASSUME SelectContact \/ CloseSearch \/ (\E s \in Slots : SelectChannel(s)) \/ \E found \in SUBSET (1 .. NMsgs) : PerformSearch(found)
      PROVE  channels' = channels
  BY <1>5 DEF SelectContact, CloseSearch, SelectChannel, PerformSearch
<1> QED
  BY <1>1, <1>2, <1>3, <1>4, <1>5, Zenon DEF Chat

LEMMA CalmChat ==
  ASSUME TypeOK, CalmInv, Chat
  PROVE  CalmInv'
<1>1. Same(channels, channels')
  BY ChatSame
<1>2. UNCHANGED <<up, radio, inbox, connected, known, max, enumerating, index, calm>>
  BY DEF Chat, SelectChannel, ClearChat, SelectContact, SendChannelMessage, CloseSearch, DeleteMessage, PerformSearch,
         air, list, screen, history
<1> QED
  BY <1>1, <1>2, CalmKept

LEMMA CalmQueries ==
  ASSUME TypeOK, CalmInv, PostConnectInit \/ DeviceQuery
  PROVE  CalmInv'
<1>0. up \in Seq(Frames)
  BY TypeFacts
<1>1. /\ UNCHANGED <<radio, channels, inbox, connected, known, max, enumerating, index, calm>>
      /\ Send(<<Ask("query")>>)
  BY DEF PostConnectInit, DeviceQuery, list, screen, history
<1>2. PICK f \in Frames : f = Ask("query") /\ f.what = "query"
  BY FramesTyped
<1>3. calm => up' = Append(up, f)
  BY <1>0, <1>1, <1>2, Sends DEF CalmInv
<1>4. /\ \A s \in Slots : \A name : Will(up, radio, s, name) => Will(Append(up, f), radio, s, name)
      /\ Asked(up, inbox, index, Listed) => Asked(Append(up, f), inbox, index, Listed)
      /\ Answered(up, inbox, index, Listed, radio) => Answered(Append(up, f), inbox, index, Listed, radio)
      /\ ~Has(up, {"get"}) => ~Has(Append(up, f), {"get"})
  BY <1>0, <1>2, WillBeSent, AskedSent, AnsweredSent, HasAppended
<1>5. Same(channels, channels')
  BY <1>1 DEF Same
<1> QED
  BY <1>1, <1>3, <1>4, <1>5, CalmKept

LEMMA CalmServes ==
  ASSUME TypeOK, Bounded, CalmInv, KnownInv, RadioServes
  PROVE  CalmInv'
<1>0. up \in Seq(Frames) /\ inbox \in Seq(Frames) /\ radio \in [Slots -> Names \cup {Empty}]
  BY TypeFacts
<1>1. UNCHANGED <<channels, connected, known, max, enumerating, index, calm>>
  BY DEF RadioServes, RadioStarts, RadioTells, RadioGets, RadioSets, Serves, list, screen, history
<1>2. up # <<>> /\ up' = Tail(up) /\ radio' = Served(up, radio)
  <2>1. up # <<>> /\ up' = Tail(up) /\ Head(up) = up[1]
    BY ServesFacts DEF RadioServes, RadioStarts, RadioTells, RadioGets, RadioSets
  <2> QED
    BY <2>1 DEF RadioServes, RadioStarts, RadioTells, RadioGets, RadioSets, Serves, Served
<1>3. \A s \in Slots : \A name : Will(up, radio, s, name) => Will(up', radio', s, name)
  BY <1>0, <1>2, WillBeServed
<1>4. Same(channels, channels')
  BY <1>1 DEF Same
<1>5. enumerating => index \in Slots
  BY ConstantFacts DEF TypeOK, Bounded, Slots
<1>6. enumerating /\ Answered(up, inbox, index, Listed, radio) => Answered(up', inbox, index, Listed, radio')
  BY <1>0, <1>2, <1>5, AnsweredServed
<1>7. Asked(up, inbox, index, Listed) /\ up[1].what # "get" => Asked(up', inbox, index, Listed)
  BY <1>0, <1>2, AskedServed
<1>8. ~Has(up, {"get"}) => ~Has(up', {"get"}) /\ up[1].what # "get"
  BY <1>0, <1>2, HasServed
<1>9. CASE RadioSets
  <2>1. inbox' = inbox /\ up[1].what # "get"
    BY <1>9, ServesFacts DEF RadioSets
  <2> QED
    BY <1>1, <1>3, <1>4, <1>6, <1>7, <1>8, <2>1, CalmKept
<1>10. ASSUME NEW f \in Frames, f.what # "info"
       PROVE  /\ \A u : Asked(u, inbox, index, Listed) => Asked(u, Append(inbox, f), index, Listed)
              /\ \A u, r : Answered(u, inbox, index, Listed, r) => Answered(u, Append(inbox, f), index, Listed, r)
              /\ SelfFirst(inbox) => SelfFirst(Append(inbox, f))
              /\ ~Has(inbox, {"info"}) => ~Has(Append(inbox, f), {"info"})
  <2>1. ~Has(inbox, {"info"}) => ~Has(Append(inbox, f), {"info"})
    BY <1>0, <1>10, HasAppended
  <2>2. \A u : Asked(u, inbox, index, Listed) => Asked(u, Append(inbox, f), index, Listed)
    BY <2>1 DEF Asked
  <2> QED
    BY <1>0, <1>10, <2>1, <2>2, AnsweredHeard, SelfFirstHeard
<1>11. CASE RadioStarts \/ RadioTells
  <2>1. PICK f \in Frames : inbox' = Append(inbox, f) /\ f.what # "info"
    BY <1>11, FramesTyped DEF RadioStarts, RadioTells
  <2>2. up[1].what # "get"
    BY <1>11, ServesFacts DEF RadioStarts, RadioTells
  <2> QED
    BY <1>1, <1>3, <1>4, <1>6, <1>7, <1>8, <1>10, <2>1, <2>2, CalmKept
<1>12. CASE RadioGets
  <2>1. up[1].what = "get" /\ up[1].slot \in Slots /\ Head(up) = up[1]
    BY <1>12, ServesFacts DEF RadioGets
  <2>2. radio[up[1].slot] \in Names \cup {Empty} /\ radio' = radio
    BY <1>0, <1>12, <2>1 DEF RadioGets
  <2>3. PICK f \in Frames : f = Frame("info", up[1].slot, radio[up[1].slot])
    BY <2>1, <2>2, FramesTyped
  <2>4. f.what = "info" /\ f.slot = up[1].slot /\ f.name = radio[f.slot]
    BY <2>3, Fields
  <2>5. inbox' = Append(inbox, f)
    BY <1>12, <2>1, <2>3 DEF RadioGets
  <2>6. Has(up, {"get"})
    BY <1>0, <1>2, <2>1, HasServed
  <2>7. Asked(up, inbox, index, Listed) => Answered(up', inbox', index, Listed, radio')
    BY <1>0, <1>2, <2>1, <2>2, <2>4, <2>5, AskedAnswered
  <2>8. ~Answered(up, inbox, index, Listed, radio)
    BY <2>6 DEF Answered
  <2>9. calm /\ ~known' => Has(inbox, {"self"})
    BY <1>1, <2>1, GreetsMeans DEF Greets, CalmInv
  <2>10. calm /\ ~known' /\ SelfFirst(inbox) => SelfFirst(inbox')
    BY <1>0, <2>5, <2>9, SelfFirstHeard
  <2> QED
    BY <1>1, <1>3, <1>4, <2>6, <2>7, <2>8, <2>10, CalmKept
<1> QED
  BY <1>9, <1>11, <1>12 DEF RadioServes

LEMMA CalmHears ==
  ASSUME TypeOK, Bounded, CalmInv, RadioComplains \/ \E s \in Slots : RadioHears(s)
  PROVE  CalmInv'
<1>0. inbox \in Seq(Frames)
  BY TypeFacts
<1>1. PICK f \in Frames : inbox' = Append(inbox, f) /\ f.what # "info"
  <2>1. CASE RadioComplains
    BY <2>1, FramesTyped DEF RadioComplains
  <2>2. ASSUME NEW s \in Slots, RadioHears(s) PROVE \E f \in Frames : inbox' = Append(inbox, f) /\ f.what # "info"
    <3>1. Len(at) + 1 \in Rows
      BY <2>2, NextMessage DEF RadioHears
    <3>2. Message(s, Len(at) + 1) \in Frames /\ Message(s, Len(at) + 1).what = "message"
      BY <3>1, FramesTyped, Fields
    <3> QED
      BY <2>2, <3>2 DEF RadioHears
  <2> QED
    BY <2>1, <2>2
<1>2. UNCHANGED <<up, radio, channels, connected, known, max, enumerating, index, calm>>
  BY DEF RadioComplains, RadioHears, list, screen, history
<1>3. ~Has(inbox, {"info"}) => ~Has(inbox', {"info"})
  BY <1>0, <1>1, HasAppended
<1>4. Asked(up, inbox, index, Listed) => Asked(up, inbox', index, Listed)
  BY <1>3 DEF Asked
<1>5. Answered(up, inbox, index, Listed, radio) => Answered(up, inbox', index, Listed, radio)
  BY <1>0, <1>1, AnsweredHeard
<1>6. SelfFirst(inbox) => SelfFirst(inbox')
  BY <1>0, <1>1, SelfFirstHeard
<1>7. Same(channels, channels')
  BY <1>2 DEF Same
<1> QED
  BY <1>2, <1>3, <1>4, <1>5, <1>6, <1>7, CalmKept

LEMMA CalmHandles ==
  ASSUME TypeOK, Bounded, InboxInv, CalmInv, SelfInfo \/ CmdError \/ ChannelMsgRecv
  PROVE  CalmInv'
<1>0. inbox \in Seq(Frames)
  BY TypeFacts
<1>1. inbox # <<>> /\ inbox' = Tail(inbox) /\ inbox[1].what # "info" /\ (inbox[1].what = "self" => SelfInfo)
  BY HandlesFacts DEF SelfInfo, CmdError, ChannelMsgRecv
<1>2. UNCHANGED <<up, radio, connected, max, index>>
  BY DEF SelfInfo, CmdError, ChannelMsgRecv, Handles, list, screen, history
<1>3. CASE CmdError /\ enumerating
  BY <1>3 DEF CmdError, StaysCalm, CalmInv
<1>4. CASE ~(CmdError /\ enumerating)
  <2>1. UNCHANGED <<enumerating, calm>>
    <3>1. CASE SelfInfo \/ ChannelMsgRecv
      BY <3>1 DEF SelfInfo, ChannelMsgRecv, list, history
    <3>2. CASE CmdError /\ ~enumerating
      <4>1. calm \in BOOLEAN /\ enumerating \in BOOLEAN
        BY DEF TypeOK
      <4> QED
        BY <3>2, <4>1 DEF CmdError, StaysCalm
    <3> QED
      BY <1>4, <3>1, <3>2
  <2>2. Same(channels, channels')
    <3>1. CASE SelfInfo \/ CmdError
      <4>1. channels' = channels
        BY <1>4, <3>1 DEF SelfInfo, CmdError, list
      <4> QED
        BY <4>1 DEF Same
    <3>2. CASE ChannelMsgRecv
      <4>1. channels' = Filed(Slot, inbox[1].id) /\ inbox[1].id \in Rows \ {NoResult}
        BY <3>2, MessageFacts DEF ChannelMsgRecv
      <4> QED
        BY <4>1, FiledFacts
    <3> QED
      BY <3>1, <3>2
  <2>3. known' = known \/ known' = TRUE
    BY DEF SelfInfo, CmdError, ChannelMsgRecv
  <2>4. SelfInfo => known'
    BY DEF SelfInfo
  <2>5. ~Has(inbox, {"info"}) => ~Has(inbox', {"info"})
    BY <1>0, <1>1, HasServed
  <2>6. Asked(up, inbox, index, Listed) => Asked(up, inbox', index, Listed)
    BY <2>5 DEF Asked
  <2>7. Answered(up, inbox, index, Listed, radio) => Answered(up, inbox', index, Listed, radio)
    BY <1>0, <1>1, AnsweredHandled
  <2>8. ~known' /\ SelfFirst(inbox) => SelfFirst(inbox')
    BY <1>0, <1>1, <2>4, SelfFirstHandled
  <2> QED
    BY <1>2, <2>1, <2>2, <2>3, <2>5, <2>6, <2>7, <2>8, CalmKept
<1> QED
  BY <1>3, <1>4

LEMMA CalmBegins ==
  ASSUME TypeOK, DeviceInfo
  PROVE  CalmInv'
<1>0. up \in Seq(Frames) /\ inbox \in Seq(Frames)
  BY TypeFacts
<1> SUFFICES ASSUME calm' PROVE CalmInv'
  BY DEF CalmInv
<1>1. connected /\ ~Has(up, {"get"}) /\ ~Has(inbox, {"info"})
  <2>1. connected /\ ~Asking
    BY DEF DeviceInfo
  <2> QED
    BY <2>1 DEF Asking, Has
<1>2. connected' = connected /\ radio' = radio /\ max' = NSlots /\ channels' = <<>> /\ index' = 0 /\ enumerating'
  BY DEF DeviceInfo, Handles
<1>3. PICK g \in Frames : g = Get(0) /\ g.what = "get" /\ g.slot = 0
  BY FramesTyped, ConstantFacts
<1>4. up' = Append(up, g)
  BY <1>0, <1>1, <1>3, Sends DEF DeviceInfo
<1>5. ~Has(inbox', {"info"})
  <2>1. inbox # <<>> /\ inbox' = Tail(inbox)
    BY DEF DeviceInfo, Handles
  <2> QED
    BY <1>0, <1>1, <2>1, HasServed
<1>6. Asked(up', inbox', index', Listed')
  BY <1>0, <1>1, <1>2, <1>3, <1>4, <1>5, AskedFirst
<1>7. SelfFirst(inbox')
  BY <1>5 DEF SelfFirst, Has
<1>8. HoldsInv'
  <2>1. \A s \in Slots : ~(s < 0)
    BY ConstantFacts DEF Slots
  <2>2. DOMAIN channels' = {}
    BY <1>2
  <2> QED
    BY <1>2, <2>1, <2>2 DEF HoldsInv
<1>9. TurnInv' /\ RestInv'
  BY <1>2, <1>6, <1>7 DEF TurnInv, RestInv
<1> QED
  BY <1>1, <1>2, <1>8, <1>9 DEF CalmInv

(* An answer that comes is of the slot that was asked.                     *)
LEMMA CalmAnswer ==
  ASSUME TypeOK, Bounded, CalmInv, calm, ChannelInfo
  PROVE  /\ enumerating /\ known /\ index \in Slots /\ index < max /\ index \in Nat /\ Slot = index
         /\ ~Has(up, {"get"}) /\ ~Has(inbox', {"info"})
         /\ \A k \in DOMAIN up : up[k].what = "set" => up[k].slot \in Listed
         /\ index \notin Listed => inbox[1].name = radio[index]
<1>0. up \in Seq(Frames) /\ inbox \in Seq(Frames)
  BY TypeFacts
<1>2. max = NSlots /\ TurnInv /\ RestInv
  BY DEF CalmInv
<1>3. /\ inbox # <<>> /\ inbox' = Tail(inbox) /\ 1 \in DOMAIN inbox /\ inbox[1] \in Frames /\ inbox[1].what = "info"
      /\ Slot = inbox[1].slot /\ Slot \in Slots
      /\ \A i \in DOMAIN inbox' : i + 1 \in DOMAIN inbox /\ i + 1 # 1 /\ inbox'[i] = inbox[i + 1]
  BY HandlesFacts DEF ChannelInfo
<1>4. Has(inbox, {"info"})
  BY <1>3 DEF Has
<1>5. enumerating /\ ~Asked(up, inbox, index, Listed)
  BY <1>2, <1>4 DEF RestInv, Asked
<1>6. index \in Slots /\ index < max /\ index \in Nat
  BY <1>2, <1>5, ConstantFacts DEF TypeOK, Bounded, Slots
<1>7. /\ ~Has(up, {"get"})
      /\ \A k \in DOMAIN up : up[k].what = "set" => up[k].slot \in Listed
      /\ \A k \in DOMAIN inbox : inbox[k].what = "info" => k = 1
      /\ Slot = index /\ (index \notin Listed => inbox[1].name = radio[index])
  <2>1. Answered(up, inbox, index, Listed, radio)
    BY <1>2, <1>5 DEF TurnInv
  <2>2. PICK p \in DOMAIN inbox : /\ inbox[p].what = "info" /\ inbox[p].slot = index
                                  /\ \A k \in DOMAIN inbox : inbox[k].what = "info" => k = p
                                  /\ index \notin Listed => inbox[p].name = radio[index]
    BY <2>1 DEF Answered
  <2>3. p = 1
    BY <1>3, <2>2
  <2> QED
    BY <1>3, <2>1, <2>2, <2>3 DEF Answered
<1>8. ~Has(inbox', {"info"})
  <2>1. \A i \in DOMAIN inbox' : inbox'[i].what # "info"
    BY <1>3, <1>7
  <2> QED
    BY <2>1 DEF Has
<1>9. known
  <2>1. ASSUME ~known PROVE FALSE
    <3>1. SelfFirst(inbox)
      BY <1>2, <1>5, <2>1 DEF TurnInv
    <3>2. PICK k \in DOMAIN inbox : k < 1
      BY <1>3, <3>1 DEF SelfFirst
    <3> QED
      BY <1>0, <3>2
  <2> QED
    BY <2>1
<1> QED
  BY <1>5, <1>6, <1>7, <1>8, <1>9

(* What the answer says of its slot holds, if it is used.                  *)
LEMMA CalmTakes ==
  ASSUME TypeOK, Bounded, CalmInv, ChannelInfo
  PROVE  CalmInv'
<1>0. up \in Seq(Frames) /\ inbox \in Seq(Frames) /\ radio \in [Slots -> Names \cup {Empty}] /\ channels \in Seq(Recs)
  BY TypeFacts
<1> SUFFICES ASSUME calm' PROVE CalmInv'
  BY DEF CalmInv
<1>1. UNCHANGED <<radio, connected, known, max, calm>>
  BY DEF ChannelInfo, Handles, history
<1>2. calm /\ connected /\ max = NSlots /\ HoldsInv /\ TurnInv /\ RestInv
  BY <1>1 DEF CalmInv
<1>5. /\ enumerating /\ known /\ index \in Slots /\ index < max /\ index \in Nat /\ Slot = index
      /\ ~Has(up, {"get"}) /\ ~Has(inbox', {"info"})
      /\ \A k \in DOMAIN up : up[k].what = "set" => up[k].slot \in Listed
      /\ index \notin Listed => inbox[1].name = radio[index]
  BY <1>2, CalmAnswer
<1>10. ASSUME index \notin Listed PROVE Will(up, radio, index, radio[index])
  <2>1. \A k \in DOMAIN up : ~IsSet(up, k, index)
    BY <1>5, <1>10 DEF IsSet
  <2> QED
    BY <2>1 DEF Will, Holds
<1>11. PICK t \in Seq(Recs) : t = Added
  BY AddedFacts DEF ChannelInfo
<1>12. \/ t = channels /\ (index \in Listed \/ inbox[1].name = Empty)
       \/ index \notin Listed /\ Gains(channels, t, index, inbox[1].name)
  <2>1. \/ t = channels /\ (Slot < max => IsListed(Slot) \/ inbox[1].name = Empty)
        \/ ~IsListed(Slot) /\ Gains(channels, t, Slot, inbox[1].name)
    BY <1>11, AddedFacts DEF ChannelInfo
  <2> QED
    BY <1>5, <2>1, ListedTyped
<1>13. DOMAIN channels' = DOMAIN t /\ \A i \in DOMAIN t : channels'[i].slot = t[i].slot /\ channels'[i].name = t[i].name
  <2>1. CASE channels' = Added
    BY <1>11, <2>1
  <2>2. CASE channels' = Reloaded(Added)
    <3>1. PICK r : r = channels'
      OBVIOUS
    <3>2. r = Reloaded(t)
      BY <1>11, <2>2, <3>1
    <3>3. /\ r \in Seq(Recs) /\ DOMAIN r = DOMAIN t
          /\ \A i \in DOMAIN t : /\ r[i].slot = t[i].slot /\ r[i].name = t[i].name
                                 /\ r[i].msgs = LoadMessages(t[i].slot, t[i].msgs)
      BY <3>2, LoadsFacts
    <3> QED
      BY <3>1, <3>3
  <2> QED
    BY <2>1, <2>2 DEF ChannelInfo, Reloaded
<1>14. /\ \A i \in DOMAIN channels' : Will(up, radio, channels'[i].slot, channels'[i].name)
       /\ \A s \in Slots \ Listed' : s < index + 1 => Will(up, radio, s, Empty)
  <2>1. /\ \A i \in DOMAIN channels : Will(up, radio, channels[i].slot, channels[i].name)
        /\ \A s \in Slots \ Listed : s < index => Will(up, radio, s, Empty)
    BY <1>2 DEF HoldsInv
  <2>2. \A s \in Slots : s < index + 1 => s < index \/ s = index
    BY <1>5 DEF Slots
  <2>3. CASE t = channels /\ (index \in Listed \/ inbox[1].name = Empty)
    <3>1. Same(channels, channels')
      BY <1>13, <2>3 DEF Same
    <3>2. Listed' = Listed
      BY <3>1, ListedMoves
    <3>3. index \notin Listed => Will(up, radio, index, Empty)
      BY <1>5, <1>10, <2>3
    <3>4. \A i \in DOMAIN channels' : Will(up, radio, channels'[i].slot, channels'[i].name)
      BY <2>1, <3>1 DEF Same
    <3> QED
      BY <2>1, <2>2, <3>2, <3>3, <3>4
  <2>4. CASE index \notin Listed /\ Gains(channels, t, index, inbox[1].name)
    <3>1. Gains(channels, channels', index, inbox[1].name)
      BY <1>13, <2>4 DEF Gains
    <3>2. Listed' = Listed \cup {index}
      BY <3>1, ListedMoves
    <3>3. Will(up, radio, index, inbox[1].name)
      BY <1>5, <1>10, <2>4
    <3>4. \A i \in DOMAIN channels' : Will(up, radio, channels'[i].slot, channels'[i].name)
      BY <2>1, <3>1, <3>3 DEF Gains
    <3> QED
      BY <2>1, <2>2, <3>2, <3>4
  <2> QED
    BY <1>12, <2>3, <2>4
<1>15. CASE index + 1 < max /\ enumerating' = enumerating /\ index' = index + 1 /\ Send(<<Get(index + 1)>>)
  <2>1. index + 1 \in Slots
    BY <1>2, <1>5, <1>15, ConstantFacts DEF Slots
  <2>2. PICK g \in Frames : g = Get(index + 1) /\ g.what = "get" /\ g.slot = index + 1
    BY <2>1, FramesTyped
  <2>3. up' = Append(up, g)
    BY <1>0, <1>2, <1>15, <2>2, Sends
  <2>4. \A s, name : Will(up, radio, s, name) => Will(up', radio', s, name)
    BY <1>0, <1>1, <2>2, <2>3, WillBeSent
  <2>5. HoldsInv'
    <3>1. \A i \in DOMAIN channels' : Will(up', radio', channels'[i].slot, channels'[i].name)
      BY <1>14, <2>4
    <3>2. \A s \in Slots \ Listed' : s < index' => Will(up', radio', s, Empty)
      BY <1>14, <1>15, <2>4
    <3> QED
      BY <1>5, <1>15, <3>1, <3>2 DEF HoldsInv
  <2>6. Asked(up', inbox', index', Listed')
    BY <1>0, <1>5, <1>15, <2>2, <2>3, AskedFirst
  <2>7. SelfFirst(inbox')
    BY <1>5 DEF SelfFirst, Has
  <2>8. TurnInv' /\ RestInv'
    BY <1>5, <1>15, <2>6, <2>7 DEF TurnInv, RestInv
  <2> QED
    BY <1>1, <1>2, <2>5, <2>8 DEF CalmInv
<1>16. CASE index + 1 >= max /\ enumerating' = FALSE /\ up' = up
  <2>1. \A s \in Slots : s < index + 1
    BY <1>2, <1>5, <1>16, ConstantFacts DEF Slots
  <2>2. HoldsInv'
    BY <1>1, <1>14, <1>16, <2>1 DEF HoldsInv
  <2>3. TurnInv' /\ RestInv'
    BY <1>1, <1>5, <1>16 DEF TurnInv, RestInv
  <2> QED
    BY <1>1, <1>2, <2>2, <2>3 DEF CalmInv
<1> QED
  BY <1>5, <1>15, <1>16 DEF ChannelInfo

LEMMA CalmAdds ==
  ASSUME TypeOK, Bounded, CalmInv, connected,
         NEW s \in Slots, NEW n \in Names, ~IsListed(s), AddChannel(s, n)
  PROVE  CalmInv'
<1>0. up \in Seq(Frames) /\ inbox \in Seq(Frames)
  BY TypeFacts
<1> SUFFICES ASSUME calm' PROVE CalmInv'
  BY DEF CalmInv
<1>1. UNCHANGED <<radio, inbox, connected, known, max, enumerating, index, calm>>
  BY DEF AddChannel
<1>2. calm /\ connected /\ max = NSlots /\ HoldsInv /\ TurnInv /\ RestInv
  BY <1>1 DEF CalmInv
<1>3. PICK b \in BOOLEAN : b = (calm /\ ~enumerating)
  OBVIOUS
<1>4. PICK f \in Frames : f = [Set(s, n) EXCEPT !.sure = b]
  BY <1>3, FramesTyped
<1>5. f.what = "set" /\ f.slot = s /\ f.name = n
  BY <1>4, Fields
<1>6. up' = Append(up, f)
  BY <1>3, <1>4 DEF AddChannel
<1>7. Gains(channels, channels', s, n)
  BY AddsFacts
<1>8. Listed' = Listed \cup {s} /\ s \notin Listed
  BY <1>7, ListedMoves, ListedTyped
<1>9. /\ \A t, name : Will(up, radio, t, name) /\ t # s => Will(up', radio', t, name)
      /\ Will(up', radio', s, n)
  BY <1>0, <1>1, <1>5, <1>6, WillBeSent
<1>10. HoldsInv'
  <2>1. \A i \in DOMAIN channels : channels[i].slot # s
    BY <1>8 DEF Listed
  <2>2. \A i \in DOMAIN channels' : Will(up', radio', channels'[i].slot, channels'[i].name)
    BY <1>2, <1>7, <1>9, <2>1 DEF HoldsInv, Gains
  <2>3. \A t \in Slots \ Listed' : (enumerating => t < index) => Will(up', radio', t, Empty)
    BY <1>2, <1>8, <1>9 DEF HoldsInv
  <2> QED
    BY <1>1, <2>2, <2>3 DEF HoldsInv
<1>11. /\ Asked(up, inbox, index, Listed) => Asked(up', inbox, index, Listed')
       /\ Answered(up, inbox, index, Listed, radio) => Answered(up', inbox, index, Listed', radio)
  BY <1>0, <1>5, <1>6, <1>8, AskedSent, AnsweredSent
<1>12. TurnInv'
  BY <1>1, <1>2, <1>11 DEF TurnInv
<1>13. RestInv'
  <2>1. ~Has(up, {"get"}) => ~Has(up', {"get"})
    BY <1>0, <1>5, <1>6, HasAppended
  <2> QED
    BY <1>1, <1>2, <2>1 DEF RestInv
<1> QED
  BY <1>1, <1>2, <1>10, <1>12, <1>13 DEF CalmInv

LEMMA CalmRemoves ==
  ASSUME TypeOK, Bounded, SlotsDistinct, CalmInv, NEW s \in Slots, RemoveChannel(s)
  PROVE  CalmInv'
<1>0. up \in Seq(Frames) /\ inbox \in Seq(Frames) /\ channels \in Seq(Recs)
  BY TypeFacts
<1> SUFFICES ASSUME calm' PROVE CalmInv'
  BY DEF CalmInv
<1>1. UNCHANGED <<radio, inbox, connected, known, max, enumerating, index>>
  BY DEF RemoveChannel
<1>2. calm /\ ~enumerating
  BY DEF RemoveChannel, StaysCalm
<1>3. connected /\ max = NSlots /\ HoldsInv /\ RestInv
  BY <1>2 DEF CalmInv
<1>4. IsListed(s)
  BY <1>2 DEF RemoveChannel
<1>5. PICK p \in DOMAIN channels : p = Place(s) /\ channels[p].slot = s
  BY <1>4, PlaceFacts
<1>6. channels' = RemoveAt(channels, p)
  BY <1>4, <1>5 DEF RemoveChannel
<1>7. Loses(channels, channels', p)
  <2>1. PICK r : r = channels'
    OBVIOUS
  <2>2. r = RemoveAt(channels, p) /\ channels \in Seq(Recs)
    BY <1>0, <1>6, <2>1
  <2>3. Loses(channels, r, p)
    BY <2>2, DropFacts
  <2> QED
    BY <2>1, <2>3
<1>8. Listed' = Listed \ {s}
  BY <1>5, <1>7, ListedMoves
<1>9. PICK f \in Frames : f = Set(s, Empty) /\ f.what = "set" /\ f.slot = s /\ f.name = Empty
  BY FramesTyped
<1>10. up' = Append(up, f)
  BY <1>0, <1>3, <1>9, Sends DEF RemoveChannel
<1>11. /\ \A t, name : Will(up, radio, t, name) /\ t # s => Will(up', radio', t, name)
       /\ Will(up', radio', s, Empty)
  BY <1>0, <1>1, <1>9, <1>10, WillBeSent
<1>12. HoldsInv'
  <2>1. ASSUME NEW i \in DOMAIN channels' PROVE Will(up', radio', channels'[i].slot, channels'[i].name)
    <3>1. PICK k \in DOMAIN channels : channels'[i] = channels[k] /\ k # p
      BY <1>7, <2>1 DEF Loses
    <3>2. channels[k].slot # s
      BY <1>5, <3>1 DEF SlotsDistinct
    <3> QED
      BY <1>3, <1>11, <3>1, <3>2 DEF HoldsInv
  <2>2. \A t \in Slots \ Listed' : Will(up', radio', t, Empty)
    BY <1>2, <1>3, <1>8, <1>11 DEF HoldsInv
  <2> QED
    BY <2>1, <2>2 DEF HoldsInv
<1>13. RestInv' /\ TurnInv'
  <2>1. ~Has(up, {"get"}) => ~Has(up', {"get"})
    BY <1>0, <1>9, <1>10, HasAppended
  <2> QED
    BY <1>1, <1>2, <1>3, <2>1 DEF RestInv, TurnInv
<1> QED
  BY <1>1, <1>3, <1>12, <1>13 DEF CalmInv

LEMMA CalmStep ==
  ASSUME Types, InboxInv, SlotsDistinct, KnownInv, CalmInv, Next
  PROVE  CalmInv'
<1>0. TypeOK /\ Bounded
  BY DEF Types
<1>1. ASSUME OnConnected PROVE CalmInv'
  <2>1. ~calm /\ calm' = calm
    BY <1>1 DEF OnConnected, CalmInv, history
  <2> QED
    BY <2>1 DEF CalmInv
<1>2. ASSUME OnDisconnected \/ \E s \in Slots, n \in Names : ImportChannels(s, n) PROVE CalmInv'
  <2>1. ~calm'
    BY <1>2 DEF OnDisconnected, ImportChannels, StaysCalm
  <2> QED
    BY <2>1 DEF CalmInv
<1>3. ASSUME NEW n \in Names, CreateChannel(n) \/ AddCommunity(n) \/ AddPublicChannel(n) PROVE CalmInv'
  <2>1. connected /\ \E s \in Slots : ~IsListed(s) /\ AddChannel(s, n)
    BY <1>0, <1>3, MakesFacts
  <2> QED
    BY <1>0, <2>1, CalmAdds
<1>4. ASSUME NEW s \in Slots, RemoveChannel(s) PROVE CalmInv'
  BY <1>0, <1>4, CalmRemoves
<1>5. ASSUME Edit PROVE CalmInv'
  BY <1>2, <1>3, <1>4, <1>5 DEF Edit
<1>6. ASSUME Handler PROVE CalmInv'
  BY <1>0, <1>6, CalmHandles, CalmBegins, CalmTakes DEF Handler
<1>7. ASSUME Link \/ RadioServes PROVE CalmInv'
  BY <1>0, <1>1, <1>2, <1>7, CalmQueries, CalmServes DEF Link
<1>8. ASSUME Chat \/ RadioComplains \/ \E s \in Slots : RadioHears(s) PROVE CalmInv'
  BY <1>0, <1>8, CalmChat, CalmHears
<1> QED
  BY <1>5, <1>6, <1>7, <1>8, Zenon DEF Next
-----------------------------------------------------------------------------
(* The messages in memory and those stored.                                *)

LEMMA RemovedSet ==
  ASSUME NEW S, NEW q \in Seq(S), NEW i \in DOMAIN q, IsInjective(q), NEW r, r = RemoveAt(q, i)
  PROVE  IsInjective(r) /\ ToSet(r) = ToSet(q) \ {q[i]}
<1>1. Loses(q, r, i)
  BY DropFacts
<1>2. PICK Q \in [DOMAIN r -> DOMAIN q] :
        /\ \A j \in DOMAIN r : r[j] = q[Q[j]] /\ Q[j] # i
        /\ \A j, k \in DOMAIN r : Q[j] = Q[k] => j = k
        /\ \A k \in DOMAIN q : k # i => \E j \in DOMAIN r : Q[j] = k
  BY <1>1 DEF Loses
<1>3. \A j, k \in DOMAIN q : q[j] = q[k] => j = k
  BY DEF IsInjective
<1>4. IsInjective(r)
  BY <1>2, <1>3 DEF IsInjective
<1>5. ASSUME NEW m \in ToSet(r) PROVE m \in ToSet(q) /\ m # q[i]
  <2>1. PICK j \in DOMAIN r : m = r[j]
    BY <1>5 DEF ToSet
  <2> QED
    BY <2>1, <1>2, <1>3 DEF ToSet
<1>6. ASSUME NEW m \in ToSet(q), m # q[i] PROVE m \in ToSet(r)
  <2>1. PICK k \in DOMAIN q : m = q[k]
    BY <1>6 DEF ToSet
  <2>2. PICK j \in DOMAIN r : Q[j] = k
    BY <1>2, <1>6, <2>1
  <2> QED
    BY <2>1, <2>2, <1>2 DEF ToSet
<1> QED
  BY <1>4, <1>5, <1>6

LEMMA AddedSet ==
  ASSUME NEW S, NEW q \in Seq(S), NEW m \in S
  PROVE  /\ ToSet(Append(q, m)) = ToSet(q) \cup {m}
         /\ IsInjective(q) /\ m \notin ToSet(q) => IsInjective(Append(q, m))
<1> DEFINE v == Append(q, m)
<1>1. /\ DOMAIN v = DOMAIN q \cup {Len(q) + 1} /\ v[Len(q) + 1] = m
      /\ \A i \in DOMAIN q : v[i] = q[i]
  BY AppendFacts
<1> HIDE DEF v
<1>2. ToSet(v) = ToSet(q) \cup {m}
  BY <1>1 DEF ToSet
<1>3. ASSUME IsInjective(q), m \notin ToSet(q) PROVE IsInjective(v)
  BY <1>1, <1>3 DEF IsInjective, ToSet
<1> QED
  BY <1>2, <1>3 DEF v

LEMMA RowFacts ==
  ASSUME TypeOK, Bounded, StoreInv, NEW s, NEW ms \in Seq(Rows \ {NoResult})
  PROVE  /\ \A m : m \in StoredOf(s) <=> <<s, m>> \in db
         /\ IsStored(ms, s, db) => ToSet(ms) = StoredOf(s)
         /\ StoredOf(s) = {} => IsStored(<<>>, s, db)
<1>1. \A m : m \in StoredOf(s) <=> <<s, m>> \in db
  BY DEF StoredOf, StoreInv, InSlot
<1>2. IsInjective(<<>>) /\ ToSet(<<>>) = {}
  BY DEF IsInjective, ToSet
<1> QED
  BY <1>1, <1>2 DEF IsStored

LEMMA LoadSame ==
  ASSUME LoadInv, calm' => calm, UNCHANGED <<channels, enumerating, db>>, calm' => doubt \subseteq doubt'
  PROVE  LoadInv'
BY DEF LoadInv

LEMMA LoadTakes ==
  ASSUME TypeOK, Bounded, StoreInv, CalmInv, LoadInv, ChannelInfo
  PROVE  LoadInv'
<1> SUFFICES ASSUME calm' PROVE LoadInv'
  BY DEF LoadInv
<1>1. UNCHANGED <<calm, db, doubt>>
  BY DEF ChannelInfo, history
<1>2. enumerating /\ known
  BY <1>1, CalmAnswer
<1>3. \A i \in DOMAIN channels : channels[i].slot \notin doubt => channels[i].msgs = <<>>
  BY <1>1, <1>2 DEF LoadInv
<1>4. PICK t \in Seq(Recs) : t = Added
  BY AddedFacts DEF ChannelInfo
<1>5. \A i \in DOMAIN t : t[i].slot \notin doubt => t[i].msgs = <<>>
  <2>1. /\ \A i \in DOMAIN channels : t[i] = channels[i]
        /\ t = channels \/ (DOMAIN t = DOMAIN channels \cup {Len(channels) + 1} /\ t[Len(channels) + 1].msgs = <<>>)
    BY <1>4, AddedFacts DEF ChannelInfo, Gains
  <2> QED
    BY <1>3, <2>1
<1>6. CASE channels' = Added /\ enumerating' = enumerating
  BY <1>1, <1>2, <1>4, <1>5, <1>6 DEF LoadInv
<1>7. CASE enumerating' = FALSE /\ channels' = Reloaded(Added)
  <2>1. PICK r : r = channels'
    OBVIOUS
  <2>2. r = Reloaded(t)
    BY <1>4, <1>7, <2>1
  <2>3. /\ r \in Seq(Recs) /\ DOMAIN r = DOMAIN t
        /\ \A i \in DOMAIN t : /\ r[i].slot = t[i].slot /\ r[i].name = t[i].name
                               /\ r[i].msgs = LoadMessages(t[i].slot, t[i].msgs)
    BY <2>2, LoadsFacts
  <2>4. <<>> \in Seq(Rows \ {NoResult})
    OBVIOUS
  <2>5. \A s : IsStored(LoadMessages(s, <<>>), s, db)
    <3>1. \A s : ToSet(LoadMessages(s, <<>>)) = StoredOf(s) /\ IsInjective(LoadMessages(s, <<>>))
      BY <1>2, <2>4, LoadFacts
    <3>2. \A s, m : m \in StoredOf(s) <=> <<s, m>> \in db
      BY <2>4, RowFacts
    <3> QED
      BY <3>1, <3>2 DEF IsStored
  <2>6. ASSUME NEW i \in DOMAIN channels', channels'[i].slot \notin doubt'
        PROVE  IsStored(channels'[i].msgs, channels'[i].slot, db')
    <3>1. i \in DOMAIN t /\ channels'[i].slot = t[i].slot /\ channels'[i].msgs = LoadMessages(t[i].slot, <<>>)
      BY <1>1, <1>5, <2>1, <2>3, <2>6
    <3> QED
      BY <1>1, <2>5, <3>1
  <2> QED
    BY <1>7, <2>6 DEF LoadInv
<1> QED
  BY <1>2, <1>6, <1>7 DEF ChannelInfo, Reloaded

(* A message that is filed is stored, and one that is stored is filed.     *)
LEMMA LoadFiles ==
  ASSUME TypeOK, SlotsDistinct, LoadInv, NEW s \in Slots, NEW m \in Rows \ {NoResult}, channels' = Filed(s, m),
         db' = db \/ db' = db \cup {<<s, m>>}, calm /\ IsListed(s) /\ ~enumerating => db' = db \cup {<<s, m>>},
         \A row \in db : row[2] # m, UNCHANGED <<calm, enumerating>>,
         doubt' = IF calm /\ enumerating /\ IsListed(s) THEN doubt \cup {s} ELSE doubt
  PROVE  LoadInv'
<1> SUFFICES ASSUME calm' PROVE LoadInv'
  BY DEF LoadInv
<1>1. /\ Same(channels, channels')
      /\ \A i \in DOMAIN channels : channels[i].slot # s => channels'[i].msgs = channels[i].msgs
      /\ \A i \in DOMAIN channels : channels[i].slot = s => channels'[i].msgs = Append(channels[i].msgs, m)
  <2>1. PICK r : r = channels'
    OBVIOUS
  <2> QED
    BY <2>1, FiledFacts
<1>2. ASSUME NEW i \in DOMAIN channels, channels[i].slot \notin doubt'
      PROVE  IF enumerating' THEN channels'[i].msgs = <<>> ELSE IsStored(channels'[i].msgs, channels'[i].slot, db')
  <2>1. channels[i].slot \notin doubt
    BY <1>2
  <2>2. channels'[i].slot = channels[i].slot
    BY <1>1 DEF Same
  <2>3. IF enumerating THEN channels[i].msgs = <<>> ELSE IsStored(channels[i].msgs, channels[i].slot, db)
    BY <2>1 DEF LoadInv
  <2>4. CASE channels[i].slot # s
    BY <1>1, <2>2, <2>3, <2>4 DEF IsStored
  <2>5. CASE channels[i].slot = s
    <3>1. IsListed(s) /\ ~enumerating
      BY <1>2, <2>5 DEF IsListed
    <3>2. channels[i] \in Recs
      BY TypeFacts
    <3>3. PICK q \in Seq(Rows \ {NoResult}) : q = channels[i].msgs
      BY <3>2, RecParts
    <3>4. channels'[i].msgs = Append(q, m)
      BY <1>1, <2>5, <3>3
    <3>5. IsInjective(q) /\ \A x : x \in ToSet(q) <=> <<s, x>> \in db
      BY <2>3, <2>5, <3>1, <3>3 DEF IsStored
    <3>6. m \notin ToSet(q)
      <4>1. <<s, m>>[2] = m
        OBVIOUS
      <4>2. <<s, m>> \notin db
        BY <4>1
      <4> QED
        BY <3>5, <4>2
    <3>7. db' = db \cup {<<s, m>>}
      BY <3>1
    <3>8. IsInjective(Append(q, m)) /\ ToSet(Append(q, m)) = ToSet(q) \cup {m}
      BY <3>5, <3>6, AddedSet
    <3>9. \A x : x \in ToSet(q) \cup {m} <=> <<s, x>> \in db'
      BY <3>5, <3>7
    <3>10. IsStored(Append(q, m), s, db')
      BY <3>8, <3>9 DEF IsStored
    <3> QED
      BY <2>2, <2>5, <3>1, <3>4, <3>10
  <2> QED
    BY <2>4, <2>5
<1> QED
  BY <1>1, <1>2 DEF LoadInv, Same

LEMMA LoadMessage ==
  ASSUME TypeOK, Bounded, StoreInv, InboxInv, SlotsDistinct, CalmInv, LoadInv, ChannelMsgRecv \/ SendChannelMessage
  PROVE  LoadInv'
<1>0. calm /\ ~enumerating => known
  BY DEF CalmInv, RestInv
<1>1. CASE ChannelMsgRecv
  <2>1. PICK m \in Rows \ {NoResult} : m = inbox[1].id /\ Head(inbox) = inbox[1] /\ \A row \in db : row[2] # m
    BY <1>1, MessageFacts
  <2>2. Slot \in Slots /\ channels' = Filed(Slot, m) /\ UNCHANGED <<calm, enumerating>>
    BY <1>1, <2>1, MessageFacts DEF ChannelMsgRecv
  <2>3. db' = IF IsListed(Slot) /\ known THEN db \cup {<<Slot, m>>} ELSE db
    BY <1>1, <2>1 DEF ChannelMsgRecv, InsertMessage
  <2>4. doubt' = IF calm /\ enumerating /\ IsListed(Slot) THEN doubt \cup {Slot} ELSE doubt
    BY <1>1 DEF ChannelMsgRecv, Doubts
  <2> QED
    BY <1>0, <2>1, <2>2, <2>3, <2>4, LoadFiles
<1>2. CASE SendChannelMessage
  <2>1. PICK m \in Rows \ {NoResult} : m = Len(at) + 1
    BY <1>2, NextMessage DEF SendChannelMessage
  <2>2. \A row \in db : row[2] # m
    BY <2>1, TypeFacts DEF StoreInv, InSlot
  <2>3. shown \in Slots /\ channels' = Filed(shown, m) /\ UNCHANGED <<calm, enumerating>>
    BY <1>2, <2>1 DEF SendChannelMessage, TypeOK
  <2>4. db' = IF known THEN db \cup {<<shown, m>>} ELSE db
    BY <1>2, <2>1 DEF SendChannelMessage, InsertMessage
  <2>5. doubt' = IF calm /\ enumerating /\ IsListed(shown) THEN doubt \cup {shown} ELSE doubt
    BY <1>2 DEF SendChannelMessage, Doubts
  <2> QED
    BY <1>0, <2>2, <2>3, <2>4, <2>5, LoadFiles
<1> QED
  BY <1>1, <1>2


LEMMA LoadAdds ==
  ASSUME TypeOK, Bounded, StoreInv, LoadInv, NEW s \in Slots, NEW n \in Names, AddChannel(s, n)
  PROVE  LoadInv'
<1> SUFFICES ASSUME calm' PROVE LoadInv'
  BY DEF LoadInv
<1>1. UNCHANGED <<calm, db, enumerating>> /\ doubt' = IF calm /\ StoredOf(s) # {} THEN doubt \cup {s} ELSE doubt
  BY DEF AddChannel, Doubts
<1>2. /\ DOMAIN channels' = DOMAIN channels \cup {Len(channels) + 1}
      /\ \A i \in DOMAIN channels : channels'[i] = channels[i]
      /\ channels'[Len(channels) + 1].slot = s /\ channels'[Len(channels) + 1].msgs = <<>>
  BY AddsFacts DEF Gains
<1>3. StoredOf(s) = {} => IsStored(<<>>, s, db)
  <2>1. <<>> \in Seq(Rows \ {NoResult})
    OBVIOUS
  <2> QED
    BY <2>1, RowFacts
<1>4. ASSUME NEW i \in DOMAIN channels', channels'[i].slot \notin doubt'
      PROVE  IF enumerating' THEN channels'[i].msgs = <<>> ELSE IsStored(channels'[i].msgs, channels'[i].slot, db')
  <2>1. channels'[i].slot \notin doubt
    BY <1>1, <1>4
  <2>2. CASE i \in DOMAIN channels
    BY <1>1, <1>2, <2>1, <2>2 DEF LoadInv
  <2>3. CASE i = Len(channels) + 1
    <3>1. StoredOf(s) = {}
      BY <1>1, <1>2, <1>4, <2>3
    <3> QED
      BY <1>1, <1>2, <1>3, <2>3, <3>1
  <2> QED
    BY <1>2, <2>2, <2>3
<1> QED
  BY <1>4 DEF LoadInv

LEMMA LoadRemoves ==
  ASSUME TypeOK, LoadInv, NEW s \in Slots, RemoveChannel(s)
  PROVE  LoadInv'
<1> SUFFICES ASSUME calm' PROVE LoadInv'
  BY DEF LoadInv
<1>1. UNCHANGED <<db, enumerating>> /\ calm /\ ~enumerating /\ doubt' = doubt
  BY DEF RemoveChannel, StaysCalm
<1>2. IsListed(s) /\ channels' = RemoveAt(channels, Place(s))
  BY <1>1 DEF RemoveChannel
<1>3. PICK p \in DOMAIN channels : p = Place(s)
  BY <1>2, PlaceFacts
<1>4. \A i \in DOMAIN channels' : \E k \in DOMAIN channels : channels'[i] = channels[k]
  <2>1. channels \in Seq(Recs)
    BY TypeFacts
  <2> QED
    BY <1>2, <1>3, <2>1, RemovedRow
<1> QED
  BY <1>1, <1>4 DEF LoadInv

LEMMA LoadClears ==
  ASSUME TypeOK, SlotsDistinct, CalmInv, LoadInv, NEW s \in Slots, ClearChat(s)
  PROVE  LoadInv'
<1> SUFFICES ASSUME calm' PROVE LoadInv'
  BY DEF LoadInv
<1>1. UNCHANGED <<calm, doubt, enumerating>>
  BY DEF ClearChat, history
<1>2. /\ Same(channels, channels')
      /\ \A k \in DOMAIN channels : channels'[k].msgs = channels[k].msgs \/ channels'[k].msgs = <<>>
      /\ \A k \in DOMAIN channels : channels[k].slot # s => channels'[k].msgs = channels[k].msgs
      /\ \A k \in DOMAIN channels : channels[k].slot = s => channels'[k].msgs = <<>>
  BY ClearedFacts
<1>3. ~enumerating => db' = {row \in db : row[1] # s}
  BY <1>1 DEF ClearChat, CalmInv, RestInv
<1>4. ~enumerating => \A t, m : <<t, m>> \in db' <=> <<t, m>> \in db /\ t # s
  BY <1>3
<1>5. IsInjective(<<>>) /\ ToSet(<<>>) = {}
  BY DEF IsInjective, ToSet
<1>6. ASSUME NEW i \in DOMAIN channels, channels[i].slot \notin doubt
      PROVE  IF enumerating' THEN channels'[i].msgs = <<>> ELSE IsStored(channels'[i].msgs, channels[i].slot, db')
  <2>1. CASE enumerating
    BY <1>1, <1>2, <1>6, <2>1 DEF LoadInv
  <2>2. CASE ~enumerating
    <3>1. IsStored(channels[i].msgs, channels[i].slot, db)
      BY <1>1, <1>6, <2>2 DEF LoadInv
    <3>2. CASE channels[i].slot = s
      BY <1>1, <1>2, <1>4, <1>5, <2>2, <3>2 DEF IsStored
    <3>3. CASE channels[i].slot # s
      BY <1>1, <1>2, <1>4, <2>2, <3>1, <3>3 DEF IsStored
    <3> QED
      BY <3>2, <3>3
  <2> QED
    BY <2>1, <2>2
<1> QED
  BY <1>1, <1>2, <1>6 DEF LoadInv, Same

(* A message deleted at its place is deleted in both, and one deleted       *)
(* elsewhere puts its channel in doubt.                                    *)
LEMMA LoadDeletes ==
  ASSUME TypeOK, SlotsDistinct, CalmInv, LoadInv, NEW i \in Nat \ {0}, DeleteMessage(i)
  PROVE  LoadInv'
<1> SUFFICES ASSUME calm' PROVE LoadInv'
  BY DEF LoadInv
<1> DEFINE ms == MessagesOf(shown)
<1>1. UNCHANGED <<calm, enumerating>> /\ calm
  BY DEF DeleteMessage
<1>2. doubt' = IF (i <= Len(ms) /\ ms[i] # view[i]) \/ (i > Len(ms) /\ Contains(ms, view[i]))
               THEN doubt \cup {shown} ELSE doubt
  BY <1>1 DEF DeleteMessage, Doubts
<1>3. Same(channels, channels')
  BY DeletedFacts
<1>4. ~enumerating => db' = db \ {<<shown, view[i]>>}
  BY <1>1 DEF DeleteMessage, CalmInv, RestInv
<1>5. ASSUME NEW k \in DOMAIN channels, channels[k].slot \notin doubt'
      PROVE  IF enumerating' THEN channels'[k].msgs = <<>> ELSE IsStored(channels'[k].msgs, channels[k].slot, db')
  <2>1. channels[k].slot \notin doubt
    BY <1>2, <1>5
  <2>2. channels[k] \in Recs
    BY TypeFacts
  <2>3. PICK q \in Seq(Rows \ {NoResult}) : q = channels[k].msgs
    BY <2>2, RecParts
  <2>4. CASE enumerating
    <3>1. channels[k].msgs = <<>>
      BY <1>1, <2>1, <2>4 DEF LoadInv
    <3>2. i \notin DOMAIN channels[k].msgs
      BY <3>1
    <3> QED
      BY <1>1, <2>4, <3>1, <3>2, DeletedFacts
  <2>5. CASE ~enumerating /\ channels[k].slot # shown
    <3>1. channels'[k].msgs = q
      BY <2>3, <2>5, DeletedFacts, PlaceFacts
    <3>2. IsStored(q, channels[k].slot, db)
      BY <1>1, <2>1, <2>3, <2>5 DEF LoadInv
    <3>3. \A m : <<channels[k].slot, m>> \in db' <=> <<channels[k].slot, m>> \in db
      BY <1>4, <2>5
    <3> QED
      BY <1>1, <2>5, <3>1, <3>2, <3>3 DEF IsStored
  <2>6. CASE ~enumerating /\ channels[k].slot = shown
    <3>1. IsListed(shown)
      BY <2>6 DEF IsListed
    <3>2. Place(shown) = k
      BY <2>6, <3>1, PlaceFacts DEF SlotsDistinct
    <3>3. ms = q
      BY <2>3, <3>1, <3>2 DEF MessagesOf
    <3> HIDE DEF ms
    <3>4. IF i <= Len(q) THEN channels'[k].msgs = RemoveAt(q, i) ELSE channels' = channels
      BY <2>3, <3>1, <3>2, DeletedFacts
    <3>5. IsStored(q, shown, db)
      BY <1>1, <2>1, <2>3, <2>6 DEF LoadInv
    <3>6. /\ i <= Len(q) => q[i] = view[i]
          /\ i > Len(q) => ~Contains(q, view[i])
      BY <1>2, <1>5, <2>6, <3>3
    <3>7. IsStored(channels'[k].msgs, shown, db')
      <4>1. CASE i <= Len(q)
        <5>1. i \in DOMAIN q
          BY <2>3, <4>1
        <5>2. PICK r : r = RemoveAt(q, i)
          OBVIOUS
        <5>3. IsInjective(r) /\ ToSet(r) = ToSet(q) \ {q[i]}
          BY <3>5, <5>1, <5>2, RemovedSet DEF IsStored
        <5>4. \A m : <<shown, m>> \in db' <=> <<shown, m>> \in db /\ m # q[i]
          BY <1>4, <2>6, <3>6, <4>1
        <5>5. IsStored(r, shown, db')
          BY <3>5, <5>3, <5>4 DEF IsStored
        <5> QED
          BY <3>4, <4>1, <5>2, <5>5
      <4>2. CASE ~(i <= Len(q))
        <5>1. i > Len(q)
          BY <2>3, <4>2
        <5>2. view[i] \notin ToSet(q)
          <6>1. ~Contains(q, view[i])
            BY <3>6, <5>1
          <6> QED
            BY <2>3, <6>1 DEF Contains, ToSet
        <5>3. <<shown, view[i]>> \notin db
          BY <3>5, <5>2 DEF IsStored
        <5>4. db' = db
          BY <1>4, <2>6, <5>3
        <5> QED
          BY <2>3, <3>4, <3>5, <4>2, <5>4
      <4> QED
        BY <4>1, <4>2
    <3> QED
      BY <1>1, <2>6, <3>7
  <2> QED
    BY <2>4, <2>5, <2>6
<1> QED
  BY <1>3, <1>5 DEF LoadInv, Same

LEMMA LoadStep ==
  ASSUME Types, RowsInv, SlotsDistinct, CalmInv, LoadInv, Next
  PROVE  LoadInv'
<1>0. TypeOK /\ Bounded /\ StoreInv /\ InboxInv
  BY DEF Types, RowsInv
<1>1. ASSUME Link PROVE LoadInv'
  <2>1. CASE OnDisconnected
    BY <2>1 DEF OnDisconnected, StaysCalm, LoadInv
  <2>2. CASE OnConnected \/ PostConnectInit \/ DeviceQuery
    <3>1. UNCHANGED <<channels, enumerating, db, calm, doubt>>
      BY <2>2 DEF OnConnected, PostConnectInit, DeviceQuery, list, history
    <3> QED
      BY <3>1, LoadSame
  <2> QED
    BY <1>1, <2>1, <2>2 DEF Link
<1>2. ASSUME RadioServes \/ RadioComplains \/ \E s \in Slots : RadioHears(s) PROVE LoadInv'
  <2>1. UNCHANGED <<channels, enumerating, db, calm, doubt>>
    BY <1>2 DEF RadioServes, RadioStarts, RadioTells, RadioGets, RadioSets, Serves, RadioComplains, RadioHears, list, history
  <2> QED
    BY <2>1, LoadSame
<1>3. ASSUME Handler PROVE LoadInv'
  <2>1. CASE SelfInfo
    <3>1. UNCHANGED <<channels, enumerating, db, calm, doubt>>
      BY <2>1 DEF SelfInfo, list, history
    <3> QED
      BY <3>1, LoadSame
  <2>2. CASE DeviceInfo
    <3>1. channels' = <<>>
      BY <2>2 DEF DeviceInfo
    <3>2. DOMAIN channels' = {}
      BY <3>1
    <3> QED
      BY <3>2 DEF LoadInv
  <2>3. CASE CmdError
    <3>1. CASE enumerating
      BY <2>3, <3>1 DEF CmdError, StaysCalm, LoadInv
    <3>2. CASE ~enumerating
      <4>1. UNCHANGED <<channels, enumerating, db, doubt>> /\ calm' = calm
        <5>1. channels' = channels /\ enumerating' = FALSE /\ StaysCalm(TRUE) /\ db' = db
          BY <2>3, <3>2 DEF CmdError, StaysCalm
        <5>2. calm' = calm /\ doubt' = doubt
          BY <1>0, <5>1 DEF StaysCalm, TypeOK
        <5> QED
          BY <1>0, <3>2, <5>1, <5>2 DEF TypeOK
      <4> QED
        BY <4>1, LoadSame
    <3> QED
      BY <3>1, <3>2
  <2> QED
    BY <1>0, <1>3, <2>1, <2>2, <2>3, LoadTakes, LoadMessage DEF Handler
<1>4. ASSUME Edit PROVE LoadInv'
  <2>1. ASSUME NEW n \in Names, CreateChannel(n) \/ AddCommunity(n) \/ AddPublicChannel(n) PROVE LoadInv'
    <3>1. \E s \in Slots : AddChannel(s, n)
      BY <1>0, <2>1, MakesFacts
    <3> QED
      BY <1>0, <3>1, LoadAdds
  <2>2. ASSUME NEW s \in Slots, NEW n \in Names, ImportChannels(s, n) PROVE LoadInv'
    BY <2>2 DEF ImportChannels, StaysCalm, LoadInv
  <2>3. ASSUME NEW s \in Slots, RemoveChannel(s) PROVE LoadInv'
    BY <1>0, <2>3, LoadRemoves
  <2> QED
    BY <1>4, <2>1, <2>2, <2>3, Zenon DEF Edit
<1>5. ASSUME Chat PROVE LoadInv'
  <2>1. ASSUME \/ SelectContact \/ CloseSearch
               \/ \E s \in Slots : SelectChannel(s)
               \/ \E found \in SUBSET (1 .. NMsgs) : PerformSearch(found)
        PROVE  LoadInv'
    <3>1. UNCHANGED <<channels, enumerating, db, calm, doubt>>
      BY <2>1 DEF SelectContact, CloseSearch, SelectChannel, PerformSearch, list, history
    <3> QED
      BY <3>1, LoadSame
  <2>2. ASSUME NEW s \in Slots, ClearChat(s) PROVE LoadInv'
    BY <1>0, <2>2, LoadClears
  <2>3. ASSUME NEW i \in 1 .. NMsgs, DeleteMessage(i) PROVE LoadInv'
    <3>1. i \in Nat \ {0}
      OBVIOUS
    <3> QED
      BY <1>0, <2>3, <3>1, LoadDeletes
  <2>4. ASSUME SendChannelMessage PROVE LoadInv'
    BY <1>0, <2>4, LoadMessage
  <2> QED
    BY <1>5, <2>1, <2>2, <2>3, <2>4, Zenon DEF Chat
<1> QED
  BY <1>1, <1>2, <1>3, <1>4, <1>5, Zenon DEF Next
-----------------------------------------------------------------------------
(* The invariant, and what follows from it.                                *)

LEMMA IInvInit ==
  Init => IInv
<1> SUFFICES ASSUME Init PROVE IInv
  OBVIOUS
<1>1. Types /\ RowsInv
  BY TypesInit, RowsInit
<1>2. channels = <<>> /\ DOMAIN channels = {}
  BY DEF Init
<1>3. up = <<>> /\ DOMAIN up = {} /\ ~calm /\ ~connected /\ ~enumerating
  BY DEF Init
<1>4. SlotsDistinct
  BY <1>2 DEF SlotsDistinct
<1>5. EnumerationFed /\ SureInv /\ KnownInv /\ CalmInv /\ LoadInv
  BY <1>3 DEF EnumerationFed, SureInv, KnownInv, CalmInv, LoadInv
<1> QED
  BY <1>1, <1>4, <1>5 DEF IInv

LEMMA IInvStep ==
  IInv /\ [Next]_vars => IInv'
<1> SUFFICES ASSUME IInv, [Next]_vars PROVE IInv'
  OBVIOUS
<1>1. /\ Types /\ TypeOK /\ Bounded /\ EnumerationFed /\ SlotsDistinct /\ RowsInv /\ InboxInv
      /\ SureInv /\ KnownInv /\ CalmInv /\ LoadInv
  BY DEF IInv, Types, RowsInv
<1>2. CASE Next
  <2>1. Types' /\ RowsInv'
    BY <1>1, <1>2, TypesStep, RowsStep
  <2>2. EnumerationFed' /\ SlotsDistinct'
    BY <1>1, <1>2, FedStep, DistinctStep
  <2>3. SureInv' /\ KnownInv'
    BY <1>1, <1>2, SureStep, KnownStep
  <2>4. CalmInv' /\ LoadInv'
    BY <1>1, <1>2, CalmStep, LoadStep
  <2> QED
    BY <2>1, <2>2, <2>3, <2>4 DEF IInv
<1>3. CASE UNCHANGED vars
  <2> USE <1>1, <1>3 DEF vars, air, list, screen, history
  <2>1. Types'
    BY DEF Types, TypeOK, Bounded
  <2>2. RowsInv'
    BY DEF RowsInv, MemoryInv, StoreInv, InboxInv, ViewInv, IsMessage
  <2>3. EnumerationFed' /\ SlotsDistinct'
    BY DEF EnumerationFed, SlotsDistinct, Asking
  <2>4. SureInv' /\ KnownInv'
    BY DEF SureInv, KnownInv, Introduces
  <2>5. CalmInv'
    BY DEF CalmInv, HoldsInv, Listed, TurnInv, RestInv
  <2>6. LoadInv'
    BY DEF LoadInv
  <2> QED
    BY <2>1, <2>2, <2>3, <2>4, <2>5, <2>6 DEF IInv
<1> QED
  BY <1>2, <1>3

LEMMA IInvHolds ==
  Spec => []IInv
BY IInvInit, IInvStep, PTL DEF Spec

LEMMA ListFollows ==
  IInv => ListRight
<1> SUFFICES ASSUME IInv, calm, ~enumerating, \A i \in DOMAIN up : up[i].what # "set"
             PROVE  {<<channels[i].slot, channels[i].name>> : i \in DOMAIN channels}
                      = {<<s, radio[s]>> : s \in {t \in Slots : radio[t] # Empty}}
  BY DEF ListRight, ListMatchesRadio, IInv
<1>1. TypeOK /\ HoldsInv
  BY DEF IInv, Types, CalmInv
<1>2. \A s, name : Will(up, radio, s, name) => radio[s] = name
  BY DEF Will, Holds, IsSet
<1>3. ASSUME NEW i \in DOMAIN channels
      PROVE  /\ channels[i].slot \in Slots /\ radio[channels[i].slot] = channels[i].name
             /\ channels[i].name # Empty
  <2>1. channels[i] \in Recs
    BY <1>1, TypeFacts
  <2>2. channels[i].slot \in Slots /\ channels[i].name \in Names
    BY <2>1, RecParts
  <2> QED
    BY <1>1, <1>2, <2>2, SizesAssumption DEF HoldsInv
<1>4. ASSUME NEW s \in Slots, radio[s] # Empty
      PROVE  \E i \in DOMAIN channels : channels[i].slot = s
  BY <1>1, <1>2, <1>4 DEF HoldsInv, Listed
<1> QED
  BY <1>3, <1>4

LEMMA HistoryFollows ==
  IInv => HistoryIsStored
<1> SUFFICES ASSUME IInv, calm, ~enumerating, NEW i \in DOMAIN channels, channels[i].slot \notin doubt
             PROVE  /\ ToSet(channels[i].msgs) = StoredOf(channels[i].slot)
                    /\ IsInjective(channels[i].msgs)
  BY DEF HistoryIsStored
<1>1. TypeOK /\ Bounded /\ StoreInv /\ LoadInv
  BY DEF IInv, Types, RowsInv
<1>2. channels[i] \in Recs
  BY <1>1, TypeFacts
<1>3. PICK q \in Seq(Rows \ {NoResult}) : q = channels[i].msgs
  BY <1>2, RecParts
<1>4. IsStored(q, channels[i].slot, db)
  BY <1>1, <1>3 DEF LoadInv
<1>5. ToSet(q) = StoredOf(channels[i].slot)
  BY <1>1, <1>4, RowFacts
<1> QED
  BY <1>3, <1>4, <1>5 DEF IsStored

LEMMA ScreenFollows ==
  IInv => ScreenIsOfShown
<1> SUFFICES ASSUME IInv PROVE ScreenIsOfShown
  OBVIOUS
<1>1. ViewInv /\ StoreInv
  BY DEF IInv, RowsInv
<1>2. \A m, s : InSlot(m, s, at) => m # NoResult /\ at[m] = s
  BY DEF InSlot, NoResult
<1> QED
  BY <1>1, <1>2 DEF ScreenIsOfShown, ViewInv, StoreInv

LEMMA CreateStep ==
  IInv => (up # <<>> /\ up' = Tail(up) /\ Head(up).what = "set" /\ Head(up).sure
             => radio[Head(up).slot] = Empty)
<1> SUFFICES ASSUME IInv, up # <<>>, Head(up).what = "set", Head(up).sure
             PROVE  radio[Head(up).slot] = Empty
  OBVIOUS
<1>1. up \in Seq(Frames) /\ SureInv
  BY TypeFacts DEF IInv, Types
<1>2. Head(up) = up[1] /\ 1 \in DOMAIN up /\ DOMAIN up \subseteq Nat \ {0}
  BY <1>1
<1>3. Holds(up, radio, 1, up[1].slot, Empty)
  BY <1>1, <1>2, Zenon DEF SureInv
<1>4. ~ \E j \in DOMAIN up : j < 1
  BY <1>2
<1> QED
  BY <1>2, <1>3, <1>4 DEF Holds
-----------------------------------------------------------------------------
(* The theorems.                                                           *)

(* Every state of the channels is well typed: the names of the radio, the  *)
(* frames both ways, fChannels with its messages, fChannelEnumIndex, the   *)
(* rows stored and the rows on the screen.                                 *)
THEOREM TypeCorrect ==
  Spec => []TypeOK
<1>1. IInv => TypeOK
  BY DEF IInv, Types
<1> QED
  BY <1>1, IInvHolds, PTL

(* _HandleChannelInfo and the creations never list a slot twice, and after *)
(* an enumeration with which nothing interfered fChannels is what the      *)
(* radio holds, once it has served what the user wrote.                    *)
THEOREM ListIsRight ==
  Spec => []ListRight
BY ListFollows, IInvHolds, PTL

(* After such an enumeration the messages of a channel in memory are its   *)
(* rows in the database, each once, through _HandleChannelMsgRecv,         *)
(* _SendChannelMessage, deletions and ClearChat, and for a new channel.    *)
THEOREM MemoryIsStored ==
  Spec => []HistoryIsStored
BY HistoryFollows, IInvHolds, PTL

(* Whatever is received, sent, selected, deleted or searched, the rows on  *)
(* the screen are of fSelectedChannelIdx, outside of search results, and   *)
(* every row in the database is filed under the slot it went through.      *)
THEOREM ScreenOfShown ==
  Spec => []ScreenIsOfShown
BY ScreenFollows, IInvHolds, PTL

(* An enumeration never waits for nothing: while connected,                *)
(* fEnumeratingChannels is only set when an answer, a question or a device *)
(* query is on its way.                                                    *)
THEOREM EnumerationIsFed ==
  Spec => []EnumerationFed
<1>1. IInv => EnumerationFed
  BY DEF IInv
<1> QED
  BY <1>1, IInvHolds, PTL

(* While the list may be trusted, the slot that _CreateChannel and its     *)
(* like write is empty when the radio comes to serve the command: no       *)
(* channel is replaced.                                                    *)
THEOREM CreateReplacesNothing ==
  Spec => CreateKeeps
<1>1. IInv /\ [Next]_vars
        => [up # <<>> /\ up' = Tail(up) /\ Head(up).what = "set" /\ Head(up).sure
              => radio[Head(up).slot] = Empty]_vars
  BY CreateStep
<1> QED
  BY <1>1, IInvHolds, PTL DEF Spec, CreateKeeps
=============================================================================
