------------------------ MODULE MediaTransfer_proofs ------------------------
(***************************************************************************)
(* What holds of MediaTransfer for every set of transfers, every number of *)
(* fragments and every limit: its types, that fragments are written in     *)
(* order and what is said to be complete is whole, and that it stays so.   *)
(***************************************************************************)
EXTENDS MediaTransfer, FiniteSetTheorems, WellFoundedInduction, TLAPS

-----------------------------------------------------------------------------
(* The inductive invariant.                                                *)

(* A manager holds sessions of its kind, each once.                        *)
Apart(t) == \A i, j \in DOMAIN t : t[i].id = t[j].id => i = j
TableOf(k, t) == t \in Seq(Session) /\ (\A i \in DOMAIN t : KindOf(t[i].id) = k) /\ Apart(t)
Tables(T) == T = [k \in Kinds |-> T[k]] /\ \A k \in Kinds : TableOf(k, T[k])
TableInv == Tables(sessions)

(* What is complete here was written whole; what comes from elsewhere      *)
(* counts the fragments it has.                                            *)
Fine(s, session) ==
  /\ s \in Mine =>
       /\ s \in begun
       /\ session.got = Fragments
       /\ session.state = "complete" => Len(wrote[s]) = Frags
  /\ s \in Theirs =>
       /\ session.count = Cardinality(session.got)
       /\ session.state = "complete" => session.got = Fragments
EntryInv == \A s \in Ids : Held(s) => Fine(s, SessionOf(s))

(* The transfer under way was begun, and as many of its fragments were     *)
(* written as the index says.                                              *)
SendInv ==
  /\ \A k \in Kinds : current[k] # None =>
       /\ current[k] \in begun /\ KindOf(current[k]) = k
       /\ Len(wrote[current[k]]) = index[k]
  /\ \A s \in Mine \ begun : wrote[s] = <<>>

SendType ==
  /\ current \in [Kinds -> Ids \cup {None}]
  /\ index \in [Kinds -> 0 .. Frags]
  /\ awaiting \in [Kinds -> BOOLEAN]
  /\ timer \in [Kinds -> {"none", "once", "spent", "every"}]
  /\ queue \in Seq(Kinds \cup {"confirmed"})
  /\ wrote \in [Mine -> Seq(Fragments)]
  /\ begun \subseteq Mine
  /\ aborted \subseteq Mine

IInv == SendType /\ TableInv /\ EntryInv /\ SendInv /\ WrittenInOrder

-----------------------------------------------------------------------------
(* Tables of sessions.                                                     *)

(* A set of numbers that is not empty has a lowest.                        *)
Below == {p \in Nat \X Nat : p[1] < p[2]}

LEMMA LowestExists ==
  ASSUME NEW S \in SUBSET Nat, S # {}
  PROVE  \E x \in S : \A y \in S : x <= y
<1>1. IsWellFoundedOn(Below, Nat)
  BY NatLessThanWellFounded DEF OpToRel, Below
<1>2. PICK x \in S : \A y \in S : ~ (<<y, x>> \in Below)
  BY <1>1, WFMin, Zenon
<1>3. \A y \in S : x <= y
  <2> SUFFICES ASSUME NEW y \in S, ~ (x <= y) PROVE FALSE
    OBVIOUS
  <2>1. <<y, x>> \in Below
    BY <1>2 DEF Below
  <2> QED
    BY <1>2, <2>1, Zenon
<1> QED
  BY <1>2, <1>3

LEMMA KindType == \A s : KindOf(s) \in Kinds
  BY DEF KindOf, Kinds

LEMMA RemoveAtFacts ==
  ASSUME NEW S, NEW t \in Seq(S), NEW c \in DOMAIN t
  PROVE  /\ RemoveAt(t, c) \in Seq(S)
         /\ Len(RemoveAt(t, c)) = Len(t) - 1
         /\ \A i \in 1 .. Len(t) - 1 : RemoveAt(t, c)[i] = IF i < c THEN t[i] ELSE t[i + 1]
<1> DEFINE a == SubSeq(t, 1, c - 1)
           b == SubSeq(t, c + 1, Len(t))
<1>1. c \in 1 .. Len(t) /\ Len(t) \in Nat
  OBVIOUS
<1>2. a \in Seq(S) /\ Len(a) = c - 1 /\ \A i \in 1 .. c - 1 : a[i] = t[i]
  BY <1>1
<1>3. /\ b \in Seq(S) /\ Len(b) = Len(t) - c
      /\ \A i \in 1 .. Len(t) - c : b[i] = t[c + i]
  BY <1>1
<1> HIDE DEF a, b
<1>4. /\ a \o b \in Seq(S) /\ Len(a \o b) = Len(t) - 1
      /\ \A i \in 1 .. Len(t) - 1 : (a \o b)[i] = IF i < c THEN a[i] ELSE b[i - (c - 1)]
  BY <1>1, <1>2, <1>3
<1>5. \A i \in 1 .. Len(t) - 1 : i >= c => b[i - (c - 1)] = t[i + 1]
  <2> SUFFICES ASSUME NEW i \in 1 .. Len(t) - 1, i >= c PROVE b[i - (c - 1)] = t[i + 1]
    OBVIOUS
  <2>1. PICK n \in 1 .. Len(t) - c : n = i - (c - 1) /\ c + n = i + 1
    BY <1>1
  <2> QED
    BY <1>3, <2>1
<1>6. \A i \in 1 .. Len(t) - 1 : (a \o b)[i] = IF i < c THEN t[i] ELSE t[i + 1]
  BY <1>1, <1>2, <1>4, <1>5
<1> QED
  BY <1>4, <1>6 DEF RemoveAt, a, b

(* Every session of r is one of t.                                         *)
LeftOf(t, r) == \A i \in DOMAIN r : \E j \in DOMAIN t : r[i] = t[j]

LEMMA RoomMade ==
  ASSUME NEW k, NEW t, TableOf(k, t)
  PROVE  TableOf(k, MakeRoom(t)) /\ LeftOf(t, MakeRoom(t))
<1>1. CASE MakeRoom(t) = t
  BY <1>1 DEF LeftOf
<1>2. CASE MakeRoom(t) # t
  <2>1. \E c \in DOMAIN t : MakeRoom(t) = RemoveAt(t, c)
    <3> DEFINE c == CHOOSE i \in Removable(t) : \A j \in Removable(t) : i <= j
    <3>1. MakeRoom(t) = RemoveAt(t, c) /\ Removable(t) # {}
      BY <1>2 DEF MakeRoom
    <3>2. Removable(t) \in SUBSET Nat
      BY DEF Removable, TableOf
    <3>3. \E i \in Removable(t) : \A j \in Removable(t) : i <= j
      BY <3>1, <3>2, LowestExists
    <3> QED
      BY <3>1, <3>3 DEF Removable
  <2>2. PICK c \in DOMAIN t : MakeRoom(t) = RemoveAt(t, c)
    BY <2>1
  <2> DEFINE r == RemoveAt(t, c)
  <2>3. t \in Seq(Session) /\ DOMAIN t = 1 .. Len(t) /\ Len(t) \in Nat
    BY DEF TableOf
  <2>4. /\ r \in Seq(Session) /\ Len(r) = Len(t) - 1
        /\ \A i \in 1 .. Len(t) - 1 : r[i] = IF i < c THEN t[i] ELSE t[i + 1]
    BY <2>3, RemoveAtFacts, Zenon
  <2> HIDE DEF r
  <2>5. /\ r \in Seq(Session) /\ DOMAIN r = 1 .. Len(t) - 1
        /\ \A i \in 1 .. Len(t) - 1 : r[i] = IF i < c THEN t[i] ELSE t[i + 1]
    BY <2>3, <2>4
  <2>6. \A i \in DOMAIN r : \E j \in DOMAIN t : r[i] = t[j] /\ j = IF i < c THEN i ELSE i + 1
    BY <2>2, <2>3, <2>5
  <2>7. LeftOf(t, r) /\ \A i \in DOMAIN r : KindOf(r[i].id) = k
    BY <2>6 DEF LeftOf, TableOf
  <2>8. Apart(r)
    BY <2>2, <2>3, <2>5, <2>6 DEF Apart, TableOf
  <2> QED
    BY <2>2, <2>5, <2>7, <2>8 DEF TableOf, r
<1> QED
  BY <1>1, <1>2

LEMMA Appended ==
  ASSUME NEW k, NEW t, TableOf(k, t), NEW e \in Session, KindOf(e.id) = k,
         \A i \in DOMAIN t : t[i].id # e.id
  PROVE  /\ TableOf(k, Append(t, e))
         /\ LeftOf(Append(t, e), t)
         /\ \E i \in DOMAIN Append(t, e) : Append(t, e)[i] = e
         /\ \A i \in DOMAIN Append(t, e) :
              Append(t, e)[i] = e \/ \E j \in DOMAIN t : Append(t, e)[i] = t[j]
<1> DEFINE r == Append(t, e)
<1>1. /\ t \in Seq(Session) /\ r \in Seq(Session) /\ DOMAIN t = 1 .. Len(t) /\ Len(t) \in Nat
      /\ DOMAIN r = 1 .. Len(t) + 1 /\ r[Len(t) + 1] = e
      /\ \A i \in DOMAIN t : r[i] = t[i]
  BY DEF TableOf
<1> HIDE DEF r
<1>2. \A i \in DOMAIN r : i = Len(t) + 1 \/ i \in DOMAIN t
  BY <1>1
<1>3. \A i \in DOMAIN r : r[i] = e \/ \E j \in DOMAIN t : r[i] = t[j]
  BY <1>1, <1>2
<1>4. Apart(r) /\ \A i \in DOMAIN r : KindOf(r[i].id) = k
  BY <1>1, <1>2 DEF Apart, TableOf
<1>5. LeftOf(r, t) /\ \E i \in DOMAIN r : r[i] = e
  BY <1>1 DEF LeftOf
<1> QED
  BY <1>1, <1>3, <1>4, <1>5 DEF TableOf, r

-----------------------------------------------------------------------------
(* What a step does to the sessions, seen through FindSession.             *)

In(T, s) == s \in Ids /\ \E i \in DOMAIN T[KindOf(s)] : T[KindOf(s)][i].id = s
EntryOf(T, s) ==
  T[KindOf(s)][CHOOSE i \in {j \in DOMAIN T[KindOf(s)] : T[KindOf(s)][j].id = s} : TRUE]

LEMMA Views ==
  ASSUME NEW s
  PROVE  /\ (Held(s) <=> In(sessions, s)) /\ SessionOf(s) = EntryOf(sessions, s)
         /\ (Held(s)' <=> In(sessions', s)) /\ SessionOf(s)' = EntryOf(sessions', s)
  BY DEF Held, Places, In, SessionOf, EntryOf

LEMMA ChosenIsIn == \A S : S # {} => (CHOOSE i \in S : TRUE) \in S
  OBVIOUS

LEMMA EntryFacts ==
  ASSUME NEW T, Tables(T), NEW s, In(T, s)
  PROVE  /\ EntryOf(T, s) \in Session /\ EntryOf(T, s).id = s
         /\ \E i \in DOMAIN T[KindOf(s)] : EntryOf(T, s) = T[KindOf(s)][i]
<1> DEFINE k == KindOf(s)
           P == {j \in DOMAIN T[k] : T[k][j].id = s}
           c == CHOOSE i \in P : TRUE
<1>1. P # {}
  BY DEF In
<1>2. EntryOf(T, s) = T[k][c]
  BY DEF EntryOf
<1>3. T[k] \in Seq(Session) /\ \A i \in P : i \in DOMAIN T[k] /\ T[k][i].id = s
  BY KindType DEF Tables, TableOf
<1> HIDE DEF P
<1>4. c \in P
  BY <1>1, ChosenIsIn
<1> HIDE DEF c
<1> QED
  BY <1>2, <1>3, <1>4

LEMMA EntryAt ==
  ASSUME NEW T, Tables(T), NEW s \in Ids, NEW i \in DOMAIN T[KindOf(s)], T[KindOf(s)][i].id = s
  PROVE  In(T, s) /\ EntryOf(T, s) = T[KindOf(s)][i]
<1>1. In(T, s)
  BY DEF In
<1>2. PICK j \in DOMAIN T[KindOf(s)] : EntryOf(T, s) = T[KindOf(s)][j] /\ T[KindOf(s)][j].id = s
  BY <1>1, EntryFacts
<1>3. i = j
  BY <1>2, KindType DEF Tables, TableOf, Apart
<1> QED
  BY <1>1, <1>2, <1>3

(* One session is new and the others are as they were, or gone.            *)
Becomes(T, U, s, new) ==
  /\ Tables(U)
  /\ In(U, s) /\ EntryOf(U, s) = new
  /\ \A u \in Ids \ {s} : In(U, u) => In(T, u) /\ EntryOf(U, u) = EntryOf(T, u)

LEMMA Becoming ==
  ASSUME NEW T, Tables(T), NEW s \in Ids, NEW new, NEW r, TableOf(KindOf(s), r),
         \E i \in DOMAIN r : r[i] = new,
         new.id = s,
         \A i \in DOMAIN r : r[i] = new \/ \E j \in DOMAIN T[KindOf(s)] : r[i] = T[KindOf(s)][j]
  PROVE  Becomes(T, [T EXCEPT ![KindOf(s)] = r], s, new)
<1> DEFINE k == KindOf(s)
           U == [T EXCEPT ![k] = r]
<1>1. /\ U[k] = r /\ (\A l \in Kinds \ {k} : U[l] = T[l]) /\ U = [l \in Kinds |-> U[l]]
      /\ k \in Kinds
  BY KindType DEF Tables
<1> HIDE DEF U
<1>2. Tables(U)
  BY <1>1 DEF Tables
<1>3. In(U, s) /\ EntryOf(U, s) = new
  BY <1>1, <1>2, EntryAt
<1>4. ASSUME NEW u \in Ids \ {s}, In(U, u)
      PROVE  In(T, u) /\ EntryOf(U, u) = EntryOf(T, u)
  <2>1. PICK i \in DOMAIN U[KindOf(u)] : EntryOf(U, u) = U[KindOf(u)][i] /\ EntryOf(U, u).id = u
    BY <1>2, <1>4, EntryFacts
  <2>2. \E j \in DOMAIN T[KindOf(u)] : EntryOf(U, u) = T[KindOf(u)][j]
    <3>1. CASE KindOf(u) = k
      BY <1>1, <2>1, <3>1
    <3>2. CASE KindOf(u) # k
      BY <1>1, <2>1, <3>2, KindType
    <3> QED
      BY <3>1, <3>2
  <2> QED
    BY <2>1, <2>2, EntryAt
<1> QED
  BY <1>2, <1>3, <1>4 DEF Becomes, U

LEMMA Adds ==
  ASSUME NEW T, Tables(T), NEW s \in Ids, ~In(T, s), NEW new \in Session, new.id = s,
         NEW t \in {T[KindOf(s)], MakeRoom(T[KindOf(s)])}
  PROVE  Becomes(T, [T EXCEPT ![KindOf(s)] = Append(t, new)], s, new)
<1> DEFINE k == KindOf(s)
           r == Append(t, new)
<1>1. TableOf(k, T[k])
  BY KindType DEF Tables
<1>2. TableOf(k, t) /\ LeftOf(T[k], t)
  BY <1>1, RoomMade DEF LeftOf
<1>3. \A i \in DOMAIN t : t[i].id # s
  BY <1>2 DEF LeftOf, In
<1>4. /\ TableOf(k, r)
      /\ \E i \in DOMAIN r : r[i] = new
      /\ \A i \in DOMAIN r : r[i] = new \/ \E j \in DOMAIN t : r[i] = t[j]
  BY <1>2, <1>3, Appended
<1> HIDE DEF r
<1>5. \A i \in DOMAIN r : r[i] = new \/ \E j \in DOMAIN T[k] : r[i] = T[k][j]
  BY <1>2, <1>4 DEF LeftOf
<1>6. Becomes(T, [T EXCEPT ![k] = r], s, new)
  BY <1>4, <1>5, Becoming
<1> QED
  BY <1>6 DEF r

LEMMA Replaces ==
  ASSUME TableInv, NEW s, Held(s), NEW new \in Session, new.id = s
  PROVE  Becomes(sessions, With(s, new), s, new)
<1> DEFINE k == KindOf(s)
           t == sessions[k]
           r == [i \in DOMAIN t |-> IF t[i].id = s THEN new ELSE t[i]]
<1>1. TableOf(k, t) /\ Tables(sessions) /\ In(sessions, s) /\ k \in Kinds /\ s \in Ids
  BY KindType, Views DEF TableInv, Tables, In
<1>2. DOMAIN r = DOMAIN t /\ \A i \in DOMAIN t : r[i] = IF t[i].id = s THEN new ELSE t[i]
  OBVIOUS
<1>3. r \in Seq(Session)
  BY <1>1 DEF TableOf
<1>4. With(s, new) = [sessions EXCEPT ![k] = r]
  BY <1>1 DEF With, Tables
<1> HIDE DEF r
<1>5. \A i \in DOMAIN t : r[i].id = t[i].id
  BY <1>2
<1>6. TableOf(k, r)
  BY <1>1, <1>2, <1>3, <1>5 DEF TableOf, Apart
<1>7. \E i \in DOMAIN r : r[i] = new
  BY <1>1, <1>2 DEF In
<1>8. \A i \in DOMAIN r : r[i] = new \/ \E j \in DOMAIN t : r[i] = t[j]
  BY <1>2
<1>9. Becomes(sessions, [sessions EXCEPT ![k] = r], s, new)
  BY <1>1, <1>6, <1>7, <1>8, Becoming
<1> QED
  BY <1>4, <1>9

-----------------------------------------------------------------------------
(* What becomes of a session.                                              *)

LEMMA FragmentsCounted ==
  /\ IsFiniteSet(Fragments) /\ Cardinality(Fragments) = Frags /\ Frags \in Nat \ {0}
  /\ \A g \in SUBSET Fragments :
       /\ IsFiniteSet(g) /\ Cardinality(g) \in 0 .. Frags
       /\ Cardinality(g) >= Frags => g = Fragments
       /\ \A i : Cardinality(g \cup {i}) = IF i \in g THEN Cardinality(g) ELSE Cardinality(g) + 1
<1>1. Frags \in Nat \ {0} /\ Frags - 1 \in Int
  BY BoundsAssumption
<1>2. IsFiniteSet(Fragments) /\ Cardinality(Fragments) = Frags
  BY <1>1, FS_Interval DEF Fragments
<1>3. ASSUME NEW g \in SUBSET Fragments
      PROVE  /\ IsFiniteSet(g) /\ Cardinality(g) \in 0 .. Frags
             /\ Cardinality(g) >= Frags => g = Fragments
             /\ \A i : Cardinality(g \cup {i}) = IF i \in g THEN Cardinality(g) ELSE Cardinality(g) + 1
  <2>1. /\ IsFiniteSet(g) /\ Cardinality(g) <= Frags
        /\ Frags = Cardinality(g) => g = Fragments
    BY <1>2, FS_Subset
  <2>2. Cardinality(g) \in Nat
    BY <2>1, FS_CardinalityType
  <2>3. \A i : Cardinality(g \cup {i}) = IF i \in g THEN Cardinality(g) ELSE Cardinality(g) + 1
    BY <2>1, FS_AddElement
  <2> QED
    BY <1>1, <2>1, <2>2, <2>3
<1> QED
  BY <1>1, <1>2, <1>3

LEMMA FragmentAdded ==
  ASSUME NEW e \in Session, e.count = Cardinality(e.got),
         e.state = "complete" => e.got = Fragments,
         NEW i \in Fragments
  PROVE  LET n == WithFragment(e, i)
         IN  /\ n \in Session /\ n.id = e.id
             /\ n.count = Cardinality(n.got)
             /\ n.state = "complete" => n.got = Fragments
             /\ e.state = "complete" => n.state = "complete"
<1> DEFINE g == e.got \cup {i}
           f == [e EXCEPT !.got = @ \cup {i}, !.count = Counts(e, i),
                          !.state = IF @ = "pending" THEN "loading" ELSE @]
           n == IF f.count >= Frags THEN [f EXCEPT !.state = "complete"] ELSE f
<1>1. g \in SUBSET Fragments /\ e.got \in SUBSET Fragments /\ e.state \in States /\ e.id \in Ids
  BY DEF Session
<1>2. Cardinality(g) = Counts(e, i) /\ Cardinality(g) \in 0 .. Frags /\ Frags \in Nat
      /\ (Cardinality(g) >= Frags => g = Fragments)
  BY <1>1, FragmentsCounted DEF Counts
<1>3. /\ f \in Session /\ f.id = e.id /\ f.got = g /\ f.count = Cardinality(g)
      /\ f.state = IF e.state = "pending" THEN "loading" ELSE e.state
  BY <1>1, <1>2 DEF Session, States
<1>4. WithFragment(e, i) = n
  BY DEF WithFragment, Complete
<1> HIDE DEF f, g
<1>5. /\ n \in Session /\ n.id = e.id /\ n.got = g /\ n.count = Cardinality(g)
      /\ n.state = IF Cardinality(g) >= Frags THEN "complete" ELSE f.state
  BY <1>3 DEF Session, States
<1>6. e.state = "complete" => g = Fragments /\ Cardinality(g) >= Frags
  BY <1>1, <1>2, FragmentsCounted DEF g
<1> HIDE DEF n
<1> QED
  BY <1>2, <1>3, <1>4, <1>5, <1>6

LEMMA Fetched ==
  ASSUME NEW e \in Session
  PROVE  LET n == Fetching(e)
         IN  /\ n \in Session /\ n.id = e.id /\ n.got = e.got /\ n.count = e.count
             /\ n.state = "complete" => e.state = "complete"
             /\ e.state = "complete" /\ e.got = Fragments => n.state = "complete"
  BY DEF Fetching, Missing, Session, States

(* A step leaves the sessions alone or changes one of them, which stays    *)
(* complete if it was, and is what it says of itself.                      *)
Changes(s, new) ==
  /\ Becomes(sessions, sessions', s, new)
  /\ Fine(s, new)'
  /\ begun \subseteq begun'
  /\ \A u \in Mine \ {s} : wrote'[u] = wrote[u]
  /\ Held(s) /\ SessionOf(s).state = "complete" => new.state = "complete"
Moves ==
  \/ UNCHANGED <<sessions, begun, wrote>>
  \/ \E s \in Ids, new \in Session : Changes(s, new)

LEMMA Moved ==
  ASSUME TableInv, EntryInv, Moves
  PROVE  /\ TableInv' /\ EntryInv'
         /\ \A s \in Ids : Held(s) /\ SessionOf(s).state = "complete" /\ Held(s)'
                          => SessionOf(s)'.state = "complete"
<1>1. CASE UNCHANGED <<sessions, begun, wrote>>
  BY <1>1 DEF TableInv, EntryInv, Fine, Held, SessionOf, Places
<1>2. CASE \E s \in Ids, new \in Session : Changes(s, new)
  <2>1. PICK s \in Ids, new \in Session : Changes(s, new)
    BY <1>2
  <2>2. TableInv'
    BY <2>1 DEF Changes, Becomes, TableInv
  <2>3. \A u \in Ids \ {s} : Held(u)' => Held(u) /\ SessionOf(u)' = SessionOf(u)
    BY <2>1, Views DEF Changes, Becomes
  <2>4. SessionOf(s)' = new
    BY <2>1, Views DEF Changes, Becomes
  <2>5. EntryInv'
    <3> SUFFICES ASSUME NEW u \in Ids, Held(u)' PROVE Fine(u, SessionOf(u))'
      BY DEF EntryInv
    <3>1. CASE u = s
      BY <2>1, <2>4, <3>1 DEF Changes, Fine
    <3>2. CASE u # s
      <4>1. Held(u) /\ SessionOf(u)' = SessionOf(u)
        BY <2>3, <3>2
      <4>2. Fine(u, SessionOf(u))
        BY <4>1 DEF EntryInv
      <4> QED
        BY <2>1, <3>2, <4>1, <4>2 DEF Changes, Fine
    <3> QED
      BY <3>1, <3>2
  <2>6. \A u \in Ids : Held(u) /\ SessionOf(u).state = "complete" /\ Held(u)'
                     => SessionOf(u)'.state = "complete"
    BY <2>1, <2>3, <2>4 DEF Changes
  <2> QED
    BY <2>2, <2>5, <2>6
<1> QED
  BY <1>1, <1>2 DEF Moves

-----------------------------------------------------------------------------
(* The steps that change a session.                                        *)

(* The session of the transfer under way, as the tick finds it.            *)
LEMMA Sending ==
  ASSUME IInv, NEW k \in Kinds, Held(current[k])
  PROVE  /\ current[k] \in Mine /\ current[k] \in Ids /\ current[k] \in begun
         /\ KindOf(current[k]) = k
         /\ SessionOf(current[k]) \in Session /\ SessionOf(current[k]).id = current[k]
         /\ SessionOf(current[k]).got = Fragments
         /\ SessionOf(current[k]).state = "complete" => Len(wrote[current[k]]) = Frags
         /\ Len(wrote[current[k]]) = index[k]
<1>1. current[k] \in Ids /\ current[k] # None
  BY IdsAssumption DEF Held
<1>2. current[k] \in begun /\ KindOf(current[k]) = k /\ Len(wrote[current[k]]) = index[k]
  BY <1>1 DEF IInv, SendInv
<1>3. current[k] \in Mine
  BY <1>2 DEF IInv, SendType
<1>4. Fine(current[k], SessionOf(current[k]))
  BY <1>1 DEF IInv, EntryInv
<1>5. SessionOf(current[k]) \in Session /\ SessionOf(current[k]).id = current[k]
  BY Views, EntryFacts DEF IInv, TableInv
<1> QED
  BY <1>1, <1>2, <1>3, <1>4, <1>5 DEF Fine

LEMMA TheirSession ==
  ASSUME IInv, NEW s \in Theirs, Held(s)
  PROVE  /\ SessionOf(s) \in Session /\ SessionOf(s).id = s
         /\ SessionOf(s).count = Cardinality(SessionOf(s).got)
         /\ SessionOf(s).state = "complete" => SessionOf(s).got = Fragments
<1>1. SessionOf(s) \in Session /\ SessionOf(s).id = s
  BY Views, EntryFacts DEF IInv, TableInv
<1>2. Fine(s, SessionOf(s))
  BY DEF IInv, EntryInv, Theirs
<1> QED
  BY <1>1, <1>2 DEF Fine

LEMMA NewSessions ==
  ASSUME NEW s \in Ids
  PROVE  /\ NewOutgoing(s) \in Session /\ NewOutgoing(s).id = s
         /\ NewOutgoing(s).got = Fragments /\ NewOutgoing(s).state # "complete"
         /\ NewIncoming(s) \in Session /\ NewIncoming(s).id = s
         /\ NewIncoming(s).got = {} /\ NewIncoming(s).count = 0
         /\ NewIncoming(s).state # "complete"
<1>1. 0 \in 0 .. Frags /\ Frags \in 0 .. Frags
  BY BoundsAssumption
<1> QED
  BY <1>1 DEF NewOutgoing, NewIncoming, Session, States

(* A session that is held is written back.                                 *)
LEMMA WritesBack ==
  ASSUME IInv, NEW s, Held(s), NEW new \in Session, new.id = s, sessions' = With(s, new),
         Fine(s, new)', UNCHANGED begun, \A u \in Mine \ {s} : wrote'[u] = wrote[u],
         SessionOf(s).state = "complete" => new.state = "complete"
  PROVE  Moves
<1>1. s \in Ids
  BY DEF Held
<1>2. Becomes(sessions, sessions', s, new)
  BY Replaces DEF IInv
<1>3. Changes(s, new)
  BY <1>2 DEF Changes
<1> QED
  BY <1>1, <1>3 DEF Moves

LEMMA BeginMoves == ASSUME IInv, NEW s \in Ids, Begin(s) PROVE Moves
<1>1. s \in Mine /\ s \notin begun /\ begun' = begun \cup {s} /\ UNCHANGED wrote
  BY DEF Begin
<1>2. ~Held(s)
  BY <1>1 DEF IInv, EntryInv, Fine
<1>3. sessions' = [sessions EXCEPT ![KindOf(s)] = Append(sessions[KindOf(s)], NewOutgoing(s))]
  BY DEF Begin
<1>4. Becomes(sessions, sessions', s, NewOutgoing(s))
  BY <1>2, <1>3, Adds, NewSessions, Views DEF IInv, TableInv
<1>5. Fine(s, NewOutgoing(s))'
  BY <1>1, NewSessions DEF Fine, Theirs
<1>6. Changes(s, NewOutgoing(s))
  BY <1>1, <1>2, <1>4, <1>5 DEF Changes
<1> QED
  BY <1>6, NewSessions DEF Moves

LEMMA TickMoves ==
  ASSUME IInv, NEW k \in Kinds, TickEnds(k) \/ TickAborts(k) \/ TickWrites(k)
  PROVE  Moves
<1>1. CASE ~Held(current[k])
  <2>1. TickEnds(k)
    BY <1>1 DEF TickAborts, TickWrites, NothingToSend
  <2> QED
    BY <1>1, <2>1 DEF TickEnds, Moves
<1>2. CASE Held(current[k])
  <2>1. PICK s : s = current[k]
    OBVIOUS
  <2>2. PICK e : e = SessionOf(s)
    OBVIOUS
  <2>3. PICK i : i = index[k]
    OBVIOUS
  <2>4. Held(s)
    BY <1>2, <2>1
  <2>5. /\ s \in Mine /\ s \in Ids /\ s \in begun /\ KindOf(s) = k /\ e \in Session /\ e.id = s
        /\ e.got = Fragments /\ (e.state = "complete" => Len(wrote[s]) = Frags)
        /\ Len(wrote[s]) = index[k] /\ s \notin Theirs
    BY <1>2, <2>1, <2>2, Sending DEF Theirs
  <2>6. index[k] \in 0 .. Frags /\ Frags \in Nat /\ wrote \in [Mine -> Seq(Fragments)]
    BY BoundsAssumption DEF IInv, SendType
  <2>7. CASE TickEnds(k)
    <3> DEFINE n == [e EXCEPT !.state = "complete"]
    <3>1. sessions' = With(s, n) /\ UNCHANGED <<begun, wrote>> /\ index[k] >= Frags
      BY <1>2, <2>7, <2>1, <2>2 DEF TickEnds, NothingToSend
    <3>2. n \in Session /\ n.id = s /\ n.got = Fragments /\ n.state = "complete"
      BY <2>5 DEF Session, States
    <3> HIDE DEF n
    <3>3. Fine(s, n)'
      BY <2>5, <2>6, <3>1, <3>2 DEF Fine
    <3> QED
      BY <2>2, <2>4, <3>1, <3>2, <3>3, WritesBack
  <2>8. CASE TickAborts(k)
    <3> DEFINE n == [e EXCEPT !.state = "failed"]
    <3>1. sessions' = With(s, n) /\ UNCHANGED <<begun, wrote>> /\ ~(index[k] >= Frags)
      BY <1>2, <2>8, <2>1, <2>2 DEF TickAborts, NothingToSend
    <3>2. n \in Session /\ n.id = s /\ n.got = Fragments /\ n.state # "complete"
      BY <2>5 DEF Session, States
    <3> HIDE DEF n
    <3>3. Fine(s, n)' /\ e.state # "complete"
      BY <2>5, <2>6, <3>1, <3>2 DEF Fine
    <3> QED
      BY <2>2, <2>4, <3>1, <3>2, <3>3, WritesBack
  <2>9. CASE TickWrites(k)
    <3>1. /\ UNCHANGED begun /\ ~(index[k] >= Frags) /\ sessions' = Progress(k)
          /\ \A u \in Mine \ {s} : wrote'[u] = wrote[u]
      BY <1>2, <2>6, <2>9, <2>1 DEF TickWrites, NothingToSend
    <3>2. e.state # "complete" /\ index[k] + 1 \in 0 .. Frags
      BY <2>5, <2>6, <3>1
    <3>3. CASE k = "image"
      <4> DEFINE n == [e EXCEPT !.state = "loading", !.count = i + 1]
      <4>1. sessions' = With(s, n)
        BY <2>1, <2>2, <2>3, <3>1, <3>3 DEF Progress
      <4>2. n \in Session /\ n.id = s /\ n.got = Fragments /\ n.state # "complete"
        BY <2>5, <2>3, <3>2 DEF Session, States
      <4> HIDE DEF n
      <4>3. Fine(s, n)'
        BY <2>5, <3>1, <4>2 DEF Fine
      <4> QED
        BY <2>2, <2>4, <3>1, <3>2, <4>1, <4>2, <4>3, WritesBack
    <3>4. CASE k # "image"
      <4>1. UNCHANGED sessions
        BY <3>1, <3>4 DEF Progress
      <4>2. Fine(s, e)'
        BY <2>5, <3>1, <3>2 DEF Fine
      <4>3. Becomes(sessions, sessions', s, e)
        BY <2>2, <2>4, <4>1, Views DEF Becomes, IInv, TableInv
      <4>4. Changes(s, e)
        BY <2>2, <3>1, <4>2, <4>3 DEF Changes
      <4> QED
        BY <2>5, <4>4 DEF Moves
    <3> QED
      BY <3>3, <3>4
  <2> QED
    BY <2>7, <2>8, <2>9
<1> QED
  BY <1>1, <1>2

LEMMA TheirMoves ==
  ASSUME IInv, NEW s \in Ids,
         ReceiveEnvelope(s) \/ UserFetches(s) \/ \E i \in Fragments : ReceiveFragment(s, i)
  PROVE  Moves
<1>1. s \in Theirs /\ s \notin Mine /\ UNCHANGED <<begun, wrote>>
  BY DEF ReceiveEnvelope, UserFetches, ReceiveFragment, Theirs
<1>2. CASE Held(s)
  <2>1. PICK e : e = SessionOf(s)
    OBVIOUS
  <2>2. /\ e \in Session /\ e.id = s /\ e.count = Cardinality(e.got)
        /\ e.state = "complete" => e.got = Fragments
    BY <1>1, <1>2, <2>1, TheirSession
  <2>3. \E new \in Session :
          /\ sessions' = With(s, new) /\ new.id = s
          /\ new.count = Cardinality(new.got) /\ (new.state = "complete" => new.got = Fragments)
          /\ e.state = "complete" => new.state = "complete"
    <3>1. CASE ReceiveEnvelope(s)
      <4>1. PICK new \in {e, Fetching(e)} : sessions' = With(s, new)
        BY <1>2, <2>1, <3>1 DEF ReceiveEnvelope
      <4> QED
        BY <2>2, <4>1, Fetched
    <3>2. CASE UserFetches(s)
      <4>1. sessions' = With(s, Fetching(e))
        BY <2>1, <3>2 DEF UserFetches
      <4> QED
        BY <2>2, <4>1, Fetched
    <3>3. CASE \E i \in Fragments : ReceiveFragment(s, i)
      <4>1. PICK i \in Fragments : sessions' = With(s, WithFragment(e, i))
        BY <2>1, <3>3 DEF ReceiveFragment
      <4> QED
        BY <2>2, <4>1, FragmentAdded
    <3> QED
      BY <3>1, <3>2, <3>3
  <2>4. PICK new \in Session :
          /\ sessions' = With(s, new) /\ new.id = s
          /\ new.count = Cardinality(new.got) /\ (new.state = "complete" => new.got = Fragments)
          /\ e.state = "complete" => new.state = "complete"
    BY <2>3
  <2>5. Fine(s, new)'
    BY <1>1, <2>4 DEF Fine
  <2> QED
    BY <1>1, <1>2, <2>1, <2>4, <2>5, WritesBack
<1>3. CASE ~Held(s)
  <2>1. ReceiveEnvelope(s)
    BY <1>3 DEF UserFetches, ReceiveFragment
  <2>2. PICK new \in {NewIncoming(s), Fetching(NewIncoming(s))} :
          sessions' = [sessions EXCEPT ![KindOf(s)] = Append(MakeRoom(sessions[KindOf(s)]), new)]
    BY <1>3, <2>1 DEF ReceiveEnvelope
  <2>3. /\ new \in Session /\ new.id = s /\ new.got = {} /\ new.count = 0
        /\ new.state # "complete"
    BY <2>2, NewSessions, Fetched
  <2>4. Becomes(sessions, sessions', s, new)
    BY <1>3, <2>2, <2>3, Adds, Views DEF IInv, TableInv
  <2>5. Fine(s, new)'
    BY <1>1, <2>3, FS_EmptySet DEF Fine
  <2>6. Changes(s, new)
    BY <1>1, <1>3, <2>4, <2>5 DEF Changes
  <2> QED
    BY <2>3, <2>6 DEF Moves
<1> QED
  BY <1>2, <1>3

LEMMA MovesStep == IInv /\ [Next]_vars => Moves
<1> SUFFICES ASSUME IInv, [Next]_vars PROVE Moves
  OBVIOUS
<1>1. ASSUME NEW k \in Kinds, TickEnds(k) \/ TickAborts(k) \/ TickWrites(k) PROVE Moves
  BY <1>1, TickMoves
<1>2. ASSUME NEW s \in Ids, Begin(s) PROVE Moves
  BY <1>2, BeginMoves
<1>3. ASSUME NEW s \in Ids, ReceiveEnvelope(s) \/ UserFetches(s) PROVE Moves
  BY <1>3, TheirMoves
<1>4. ASSUME NEW s \in Ids, NEW i \in Fragments, ReceiveFragment(s, i) PROVE Moves
  BY <1>4, TheirMoves
<1>5. CASE HandleConfirmed \/ ConfirmationComes \/ \E k \in Kinds : TimerFires(k)
  BY <1>5 DEF HandleConfirmed, ConfirmationComes, TimerFires, Moves
<1>6. CASE UNCHANGED vars
  BY <1>6 DEF vars, Moves
<1> QED
  BY <1>1, <1>2, <1>3, <1>4, <1>5, <1>6 DEF Next, Handles

-----------------------------------------------------------------------------
(* The fragments written.                                                  *)

LEMMA QueueTyped ==
  ASSUME NEW q \in Seq(Kinds \cup {"confirmed"})
  PROVE  /\ \A e \in Kinds \cup {"confirmed"} : Append(q, e) \in Seq(Kinds \cup {"confirmed"})
         /\ q # <<>> => Tail(q) \in Seq(Kinds \cup {"confirmed"})
  OBVIOUS

(* What neither begins a transfer nor writes leaves the order alone.       *)
LEMMA OrderKept ==
  ASSUME IInv, UNCHANGED <<current, index, begun, wrote>>
  PROVE  SendInv' /\ WrittenInOrder'
  BY DEF IInv, SendInv, WrittenInOrder

LEMMA BeginOrder ==
  ASSUME IInv, NEW s \in Ids, Begin(s)
  PROVE  SendType' /\ SendInv' /\ WrittenInOrder'
<1>1. SendType /\ SendInv /\ WrittenInOrder
  BY DEF IInv
<1>2. PICK k \in Kinds : k = KindOf(s)
  BY KindType
<1>3. /\ s \in Mine /\ s \notin begun /\ begun' = begun \cup {s}
      /\ current' = [current EXCEPT ![k] = s] /\ index' = [index EXCEPT ![k] = 0]
      /\ awaiting' = [awaiting EXCEPT ![k] = TRUE] /\ timer' = [timer EXCEPT ![k] = "once"]
      /\ UNCHANGED <<queue, wrote, aborted>>
  BY <1>2 DEF Begin, FirstIndex
<1>4. 0 \in 0 .. Frags /\ s \in Ids
  BY BoundsAssumption
<1>5. awaiting' \in [Kinds -> BOOLEAN]
  BY <1>1, <1>3, Zenon DEF SendType
<1>6. timer' \in [Kinds -> {"none", "once", "spent", "every"}]
  BY <1>1, <1>3 DEF SendType
<1>7. SendType'
  BY <1>1, <1>3, <1>4, <1>5, <1>6 DEF SendType
<1>8. SendInv'
  <2>1. wrote[s] = <<>>
    BY <1>1, <1>3 DEF SendInv
  <2>2. ASSUME NEW l \in Kinds, current'[l] # None
        PROVE  /\ current'[l] \in begun' /\ KindOf(current'[l]) = l
               /\ Len(wrote'[current'[l]]) = index'[l]
    <3>1. CASE l = k
      BY <1>1, <1>2, <1>3, <2>1, <3>1 DEF SendType
    <3>2. CASE l # k
      <4>1. current'[l] = current[l] /\ index'[l] = index[l]
        BY <1>1, <1>3, <3>2 DEF SendType
      <4> QED
        BY <1>1, <1>3, <2>2, <4>1 DEF SendInv
    <3> QED
      BY <3>1, <3>2
  <2>3. \A u \in Mine \ begun' : wrote'[u] = <<>>
    BY <1>1, <1>3 DEF SendInv
  <2> QED
    BY <2>2, <2>3 DEF SendInv
<1>9. WrittenInOrder'
  BY <1>1, <1>3 DEF WrittenInOrder
<1> QED
  BY <1>7, <1>8, <1>9

LEMMA WriteOrder ==
  ASSUME IInv, NEW k \in Kinds, TickWrites(k)
  PROVE  SendType' /\ SendInv' /\ WrittenInOrder'
<1>1. SendType /\ SendInv /\ WrittenInOrder
  BY DEF IInv
<1>2. PICK s : s = current[k]
  OBVIOUS
<1>3. PICK i : i = index[k]
  OBVIOUS
<1>4. s \in Mine /\ s \in begun /\ KindOf(s) = k /\ Len(wrote[s]) = i
  BY <1>2, <1>3, Sending DEF TickWrites, NothingToSend
<1>5. /\ wrote' = [wrote EXCEPT ![s] = Append(wrote[s], i)]
      /\ index' = [index EXCEPT ![k] = i + 1]
      /\ queue # <<>> /\ queue' = Tail(queue)
      /\ timer' = Repeats(k) /\ awaiting' = [awaiting EXCEPT ![k] = FALSE]
      /\ ~(i >= Frags)
      /\ UNCHANGED <<current, begun, aborted>>
  BY <1>2, <1>3 DEF TickWrites, TickOf, NothingToSend
<1>6. i \in Fragments /\ i + 1 \in 0 .. Frags /\ i \in Nat
  BY <1>1, <1>3, <1>5, BoundsAssumption DEF SendType, Fragments
<1>7. wrote[s] \in Seq(Fragments)
  BY <1>1, <1>4 DEF SendType
<1>8. /\ Append(wrote[s], i) \in Seq(Fragments)
      /\ Len(Append(wrote[s], i)) = i + 1
      /\ \A n \in DOMAIN Append(wrote[s], i) :
           \/ n = i + 1 /\ Append(wrote[s], i)[n] = i
           \/ n \in DOMAIN wrote[s] /\ Append(wrote[s], i)[n] = wrote[s][n]
  BY <1>4, <1>6, <1>7
<1>9. wrote' \in [Mine -> Seq(Fragments)]
  BY <1>1, <1>4, <1>5, <1>8 DEF SendType
<1>10. wrote'[s] = Append(wrote[s], i) /\ \A u \in Mine \ {s} : wrote'[u] = wrote[u]
  BY <1>1, <1>4, <1>5 DEF SendType
<1>11. awaiting' \in [Kinds -> BOOLEAN]
  BY <1>1, <1>5, Zenon DEF SendType
<1>12. timer' \in [Kinds -> {"none", "once", "spent", "every"}]
  BY <1>1, <1>5 DEF SendType, Repeats
<1>13. index' \in [Kinds -> 0 .. Frags] /\ queue' \in Seq(Kinds \cup {"confirmed"})
  BY <1>1, <1>5, <1>6, QueueTyped DEF SendType
<1>14. SendType'
  BY <1>1, <1>5, <1>9, <1>11, <1>12, <1>13 DEF SendType
<1>15. SendInv'
  <2>1. ASSUME NEW l \in Kinds, current'[l] # None
        PROVE  /\ current'[l] \in begun' /\ KindOf(current'[l]) = l
               /\ Len(wrote'[current'[l]]) = index'[l]
    <3>1. current'[l] = current[l] /\ current[l] \in begun /\ KindOf(current[l]) = l
          /\ Len(wrote[current[l]]) = index[l]
      BY <1>1, <1>5, <2>1 DEF SendInv
    <3>2. CASE l = k
      BY <1>1, <1>2, <1>5, <1>8, <1>10, <3>1, <3>2 DEF SendType
    <3>3. CASE l # k
      <4>1. current[l] # s /\ index'[l] = index[l] /\ current[l] \in Mine
        BY <1>1, <1>4, <1>5, <3>1, <3>3 DEF SendType
      <4> QED
        BY <1>5, <1>10, <3>1, <4>1
    <3> QED
      BY <3>2, <3>3
  <2>2. \A u \in Mine \ begun' : wrote'[u] = <<>>
    BY <1>1, <1>4, <1>5, <1>10 DEF SendInv
  <2> QED
    BY <2>1, <2>2 DEF SendInv
<1>16. WrittenInOrder'
  <2> SUFFICES ASSUME NEW u \in Mine, NEW n \in DOMAIN wrote'[u] PROVE wrote'[u][n] = n - 1
    BY DEF WrittenInOrder
  <2>1. CASE u = s
    BY <1>1, <1>4, <1>6, <1>8, <1>10, <2>1 DEF WrittenInOrder
  <2>2. CASE u # s
    BY <1>1, <1>10, <2>2 DEF WrittenInOrder
  <2> QED
    BY <2>1, <2>2
<1> QED
  BY <1>14, <1>15, <1>16

LEMMA SendStep == IInv /\ [Next]_vars => SendType' /\ SendInv' /\ WrittenInOrder'
<1> SUFFICES ASSUME IInv, [Next]_vars PROVE SendType' /\ SendInv' /\ WrittenInOrder'
  OBVIOUS
<1>1. SendType
  BY DEF IInv
<1>2. ASSUME NEW s \in Ids, Begin(s) PROVE SendType' /\ SendInv' /\ WrittenInOrder'
  BY <1>2, BeginOrder
<1>3. ASSUME NEW k \in Kinds, TickWrites(k) PROVE SendType' /\ SendInv' /\ WrittenInOrder'
  BY <1>3, WriteOrder
<1>4. ASSUME NEW k \in Kinds, TickEnds(k) \/ TickAborts(k)
      PROVE  SendType' /\ SendInv' /\ WrittenInOrder'
  <2>1. /\ queue # <<>> /\ queue' = Tail(queue) /\ timer' = [timer EXCEPT ![k] = "none"]
        /\ UNCHANGED <<current, index, awaiting, begun, wrote>>
    BY <1>4 DEF TickEnds, TickAborts, TickOf
  <2>2. aborted' \subseteq Mine
    <3>1. CASE TickEnds(k)
      BY <1>1, <3>1 DEF TickEnds, SendType
    <3>2. CASE TickAborts(k)
      <4>1. current[k] \in Mine /\ aborted' = aborted \cup {current[k]}
        BY <3>2, Sending DEF TickAborts, NothingToSend
      <4> QED
        BY <1>1, <4>1 DEF SendType
    <3> QED
      BY <1>4, <3>1, <3>2
  <2>3. SendType'
    BY <1>1, <2>1, <2>2, QueueTyped DEF SendType
  <2> QED
    BY <2>1, <2>3, OrderKept
<1>5. CASE HandleConfirmed
  <2>1. /\ queue # <<>> /\ queue' = Tail(queue)
        /\ UNCHANGED <<current, index, begun, wrote, aborted>>
    BY <1>5 DEF HandleConfirmed
  <2>2. awaiting' \in [Kinds -> BOOLEAN]
    BY <1>5 DEF HandleConfirmed
  <2>3. timer' \in [Kinds -> {"none", "once", "spent", "every"}]
    BY <1>1, <1>5 DEF HandleConfirmed, SendType
  <2>4. SendType'
    BY <1>1, <2>1, <2>2, <2>3, QueueTyped DEF SendType
  <2> QED
    BY <2>1, <2>4, OrderKept
<1>6. CASE ConfirmationComes
  <2>1. queue' = Append(queue, "confirmed") /\ UNCHANGED <<sendVars, begun, wrote, aborted>>
    BY <1>6 DEF ConfirmationComes
  <2>2. SendType'
    BY <1>1, <2>1, QueueTyped DEF SendType, sendVars
  <2> QED
    BY <2>1, <2>2, OrderKept DEF sendVars
<1>7. ASSUME NEW k \in Kinds, TimerFires(k) PROVE SendType' /\ SendInv' /\ WrittenInOrder'
  <2>1. queue' = Append(queue, k) /\ UNCHANGED <<current, index, awaiting, begun, wrote, aborted>>
    BY <1>7 DEF TimerFires
  <2>2. timer' \in [Kinds -> {"none", "once", "spent", "every"}]
    BY <1>1, <1>7 DEF TimerFires, SendType
  <2>3. SendType'
    BY <1>1, <2>1, <2>2, QueueTyped DEF SendType
  <2> QED
    BY <2>1, <2>3, OrderKept
<1>8. ASSUME UNCHANGED <<sendVars, queue, begun, wrote, aborted>>
      PROVE  SendType' /\ SendInv' /\ WrittenInOrder'
  <2>1. SendType'
    BY <1>1, <1>8 DEF SendType, sendVars
  <2> QED
    BY <1>8, <2>1, OrderKept DEF sendVars
<1>9. ASSUME NEW s \in Ids,
             ReceiveEnvelope(s) \/ UserFetches(s) \/ \E i \in Fragments : ReceiveFragment(s, i)
      PROVE  SendType' /\ SendInv' /\ WrittenInOrder'
  BY <1>8, <1>9 DEF ReceiveEnvelope, UserFetches, ReceiveFragment
<1>10. CASE UNCHANGED vars
  BY <1>8, <1>10 DEF vars
<1> QED
  BY <1>2, <1>3, <1>4, <1>5, <1>6, <1>7, <1>9, <1>10 DEF Next, Handles

-----------------------------------------------------------------------------
(* The theorems.                                                           *)

LEMMA InitIInv == Init => IInv
<1> SUFFICES ASSUME Init PROVE IInv
  OBVIOUS
<1>1. 0 \in 0 .. Frags
  BY BoundsAssumption
<1>2. awaiting \in [Kinds -> BOOLEAN]
  BY DEF Init
<1>3. SendType
  BY <1>1, <1>2 DEF Init, SendType
<1>4. TableInv
  BY DEF Init, TableInv, Tables, TableOf, Apart
<1>5. \A s : ~Held(s)
  BY KindType DEF Init, Held, Places
<1>6. EntryInv
  BY <1>5 DEF EntryInv
<1>7. SendInv /\ WrittenInOrder
  BY DEF Init, SendInv, WrittenInOrder
<1> QED
  BY <1>3, <1>4, <1>6, <1>7 DEF IInv

LEMMA StepIInv == IInv /\ [Next]_vars => IInv'
  BY MovesStep, Moved, SendStep DEF IInv

LEMMA Invariance == Spec => []IInv
  BY InitIInv, StepIInv, PTL DEF Spec

(* The sessions, the transfers under way, the timers and the queue keep    *)
(* their types; no more fragments are counted than there are.              *)
THEOREM TypeCorrect == Spec => []TypeOK
<1>1. IInv => TypeOK
  BY DEF IInv, SendType, TableInv, Tables, TableOf, TypeOK
<1> QED
  BY <1>1, Invariance, PTL

(* Fragments are written in order, each once, and a session is complete    *)
(* only with all of them, whatever stale ticks, confirmations, failed      *)
(* writes, repeated envelopes and fragments come between.                  *)
THEOREM FragmentsAreTrue == Spec => []FragmentsTrue
<1>1. IInv => FragmentsTrue
  <2> SUFFICES ASSUME IInv, NEW s \in Ids, Held(s), SessionOf(s).state = "complete"
               PROVE  /\ SessionOf(s).got = Fragments
                      /\ s \in Mine => Len(wrote[s]) = Frags
    BY DEF FragmentsTrue, CompleteIsWhole, IInv
  <2> QED
    BY DEF IInv, EntryInv, Fine, Theirs
<1> QED
  BY <1>1, Invariance, PTL

(* No envelope, fragment, click or tick makes a complete session           *)
(* incomplete again.                                                       *)
THEOREM CompleteStaysComplete == Spec => CompleteStays
<1>1. IInv /\ [Next]_vars =>
        \A s \in Ids : Held(s) /\ SessionOf(s).state = "complete" /\ Held(s)'
                     => SessionOf(s).state' = "complete"
  BY MovesStep, Moved DEF IInv
<1> QED
  BY <1>1, Invariance, PTL DEF CompleteStays, Spec

-----------------------------------------------------------------------------
(* The promise of TransferPromise.                                         *)

(* The session of s is new, and of the others one at most is gone, which   *)
(* was not being sent.                                                     *)
Swaps(s, new, lost) ==
  /\ Becomes(sessions, sessions', s, new)
  /\ Held(lost) => SessionOf(lost).state # "sending"
  /\ \A u \in Ids \ {s} : Held(u) /\ u # lost => Held(u)'

(* Room is made by removing one session that is not being sent.            *)
LEMMA OneLost ==
  ASSUME NEW k, NEW t, TableOf(k, t)
  PROVE  \E lost :
           /\ lost = None \/ KindOf(lost) = k
           /\ \A i \in DOMAIN t : t[i].id = lost => t[i].state # "sending"
           /\ \A i \in DOMAIN t : t[i].id # lost
                => \E j \in DOMAIN MakeRoom(t) : MakeRoom(t)[j] = t[i]
<1>1. t \in Seq(Session) /\ DOMAIN t = 1 .. Len(t) /\ Len(t) \in Nat /\ Apart(t)
  BY DEF TableOf
<1>2. CASE MakeRoom(t) = t
  <2>1. ASSUME NEW i \in DOMAIN t PROVE t[i].id # None
    <3>1. t[i] \in Session
      BY <1>1
    <3>2. t[i].id \in Ids
      BY <3>1 DEF Session
    <3> QED
      BY <3>2, IdsAssumption
  <2> QED
    BY <1>2, <2>1
<1>3. CASE MakeRoom(t) # t
  <2> DEFINE c == CHOOSE i \in Removable(t) : \A j \in Removable(t) : i <= j
  <2>1. MakeRoom(t) = RemoveAt(t, c) /\ Removable(t) # {}
    BY <1>3 DEF MakeRoom
  <2>2. Removable(t) \in SUBSET Nat
    BY <1>1 DEF Removable
  <2>3. \E i \in Removable(t) : \A j \in Removable(t) : i <= j
    BY <2>1, <2>2, LowestExists
  <2>4. c \in Removable(t)
    BY <2>3
  <2> HIDE DEF c
  <2>5. c \in DOMAIN t /\ t[c].state # "sending"
    BY <2>4 DEF Removable
  <2>6. PICK r : r = RemoveAt(t, c)
    OBVIOUS
  <2>7. /\ r \in Seq(Session) /\ Len(r) = Len(t) - 1
        /\ \A i \in 1 .. Len(t) - 1 : r[i] = IF i < c THEN t[i] ELSE t[i + 1]
    BY <1>1, <2>5, <2>6, RemoveAtFacts, Zenon
  <2>8. DOMAIN r = 1 .. Len(t) - 1
    BY <2>7
  <2>9. ASSUME NEW i \in DOMAIN t, i # c
        PROVE  \E j \in DOMAIN r : r[j] = t[i]
    <3>1. CASE i < c
      <4>1. i \in 1 .. Len(t) - 1
        BY <1>1, <2>5, <3>1
      <4> QED
        BY <2>7, <2>8, <3>1, <4>1
    <3>2. CASE ~(i < c)
      <4>1. PICK j \in 1 .. Len(t) - 1 : j = i - 1 /\ ~(j < c) /\ j + 1 = i
        BY <1>1, <2>5, <2>9, <3>2
      <4> QED
        BY <2>7, <2>8, <4>1
    <3> QED
      BY <3>1, <3>2
  <2>10. \A i \in DOMAIN t : t[i].id = t[c].id => i = c
    BY <1>1, <2>5 DEF Apart
  <2>11. \A i \in DOMAIN t : t[i].id = t[c].id => t[i].state # "sending"
    BY <2>5, <2>10
  <2>12. \A i \in DOMAIN t : t[i].id # t[c].id
           => \E j \in DOMAIN MakeRoom(t) : MakeRoom(t)[j] = t[i]
    BY <2>1, <2>6, <2>9
  <2>13. KindOf(t[c].id) = k
    BY <2>5 DEF TableOf
  <2> QED
    BY <2>11, <2>12, <2>13
<1> QED
  BY <1>2, <1>3

(* A table with a session appended to what t is holds all that t held.     *)
LEMMA AppendKeeps ==
  ASSUME NEW k, NEW t, TableOf(k, t), NEW e
  PROVE  \A i \in DOMAIN t : \E j \in DOMAIN Append(t, e) : Append(t, e)[j] = t[i]
  BY DEF TableOf

LEMMA AddSwaps ==
  ASSUME TableInv, NEW s \in Ids, ~Held(s), NEW new \in Session, new.id = s,
         NEW t \in {sessions[KindOf(s)], MakeRoom(sessions[KindOf(s)])},
         sessions' = [sessions EXCEPT ![KindOf(s)] = Append(t, new)],
         NEW lost, lost = None \/ KindOf(lost) = KindOf(s),
         \A i \in DOMAIN sessions[KindOf(s)] :
           sessions[KindOf(s)][i].id = lost => sessions[KindOf(s)][i].state # "sending",
         \A i \in DOMAIN sessions[KindOf(s)] :
           sessions[KindOf(s)][i].id # lost => \E j \in DOMAIN t : t[j] = sessions[KindOf(s)][i]
  PROVE  Swaps(s, new, lost)
<1> DEFINE k == KindOf(s)
           old == sessions[k]
<1>1. Tables(sessions) /\ k \in Kinds /\ TableOf(k, old) /\ ~In(sessions, s)
  BY KindType, Views DEF TableInv, Tables
<1>2. Becomes(sessions, sessions', s, new)
  BY <1>1, Adds
<1>3. TableOf(k, t)
  BY <1>1, RoomMade
<1>4. sessions'[k] = Append(t, new) /\ \A l \in Kinds \ {k} : sessions'[l] = sessions[l]
  BY <1>1 DEF Tables
<1>5. ASSUME NEW u \in Ids \ {s}, Held(u), u # lost
      PROVE  Held(u)'
  <2>1. PICK i \in DOMAIN sessions[KindOf(u)] : sessions[KindOf(u)][i].id = u
    BY <1>5, Views DEF In
  <2>2. \E j \in DOMAIN sessions'[KindOf(u)] : sessions'[KindOf(u)][j] = sessions[KindOf(u)][i]
    <3>1. CASE KindOf(u) = k
      <4>1. PICK j \in DOMAIN t : t[j] = old[i]
        BY <1>5, <2>1, <3>1
      <4>2. \E l \in DOMAIN Append(t, new) : Append(t, new)[l] = t[j]
        BY <1>3, AppendKeeps
      <4> QED
        BY <1>4, <3>1, <4>1, <4>2
    <3>2. CASE KindOf(u) # k
      <4>1. sessions'[KindOf(u)] = sessions[KindOf(u)]
        BY <1>4, <3>2, KindType
      <4> QED
        BY <4>1
    <3> QED
      BY <3>1, <3>2
  <2>3. In(sessions', u)
    BY <2>1, <2>2 DEF In
  <2> QED
    BY <2>3, Views
<1>6. ASSUME Held(lost) PROVE SessionOf(lost).state # "sending"
  <2>1. KindOf(lost) = k
    BY <1>6, IdsAssumption DEF Held
  <2>2. In(sessions, lost) /\ SessionOf(lost) = EntryOf(sessions, lost)
    BY <1>6, Views
  <2>3. PICK i \in DOMAIN old : SessionOf(lost) = old[i] /\ old[i].id = lost
    BY <1>1, <2>1, <2>2, EntryFacts
  <2> QED
    BY <2>3
<1> QED
  BY <1>2, <1>5, <1>6 DEF Swaps

LEMMA ReplaceSwaps ==
  ASSUME TableInv, NEW s, Held(s), NEW new \in Session, new.id = s, sessions' = With(s, new)
  PROVE  Swaps(s, new, None)
<1>1. Becomes(sessions, sessions', s, new) /\ Tables(sessions)
  BY Replaces DEF TableInv
<1>2. ASSUME NEW u \in Ids \ {s}, Held(u)
      PROVE  Held(u)'
  <2>1. PICK i \in DOMAIN sessions[KindOf(u)] : sessions[KindOf(u)][i].id = u
    BY <1>2, Views DEF In
  <2>2. i \in DOMAIN sessions'[KindOf(u)] /\ sessions'[KindOf(u)][i].id = u
    <3> DEFINE t == sessions[KindOf(s)]
    <3>1. sessions' = [sessions EXCEPT ![KindOf(s)] =
                         [n \in DOMAIN t |-> IF t[n].id = s THEN new ELSE t[n]]]
      BY DEF With
    <3>2. /\ sessions'[KindOf(s)] = [n \in DOMAIN t |-> IF t[n].id = s THEN new ELSE t[n]]
          /\ \A l \in Kinds \ {KindOf(s)} : sessions'[l] = sessions[l]
      BY <1>1, <3>1, KindType DEF Tables
    <3>3. CASE KindOf(u) = KindOf(s)
      BY <2>1, <3>2, <3>3
    <3>4. CASE KindOf(u) # KindOf(s)
      BY <2>1, <3>2, <3>4, KindType
    <3> QED
      BY <3>3, <3>4
  <2>3. In(sessions', u)
    BY <2>2 DEF In
  <2> QED
    BY <2>3, Views
<1>3. ~Held(None)
  BY IdsAssumption DEF Held
<1> QED
  BY <1>1, <1>2, <1>3 DEF Swaps

(* A voice clip that is sent is "sending" until it fails or is complete.   *)
VoiceInv ==
  \A s \in Mine \cap Voices :
    Held(s) => SessionOf(s).state \in {"sending", "failed", "complete"}

(* The steps, as the promise sees them.                                    *)
SameSends == UNCHANGED <<current, begun, wrote>>
Starts(s) ==
  /\ s \in Mine \ begun /\ ~Held(s)
  /\ begun' = begun \cup {s}
  /\ current' = [current EXCEPT ![KindOf(s)] = s]
  /\ wrote' = wrote
  /\ Swaps(s, NewOutgoing(s), None)
Ends(s, new) ==
  /\ SameSends /\ Swaps(s, new, None) /\ Len(wrote[s]) = Frags /\ new.state = "complete"
Aborts(s, new) ==
  /\ SameSends /\ Swaps(s, new, None) /\ Len(wrote[s]) < Frags /\ new.state = "failed"
Writes(s, new) ==
  /\ UNCHANGED <<current, begun>>
  /\ wrote' = [wrote EXCEPT ![s] = Append(@, Len(wrote[s]))]
  /\ Swaps(s, new, None)
  /\ Len(wrote[s]) < Frags
  /\ new.state = IF s \in Images THEN "loading" ELSE SessionOf(s).state
Ticks(s) ==
  /\ s \in Mine /\ Held(s) /\ current[KindOf(s)] = s
  /\ \E new \in Session : Ends(s, new) \/ Aborts(s, new) \/ Writes(s, new)
Receives(s) ==
  /\ s \in Theirs /\ SameSends
  /\ \E new, lost : Swaps(s, new, lost)

LEMMA BeginStarts == ASSUME IInv, NEW s \in Ids, Begin(s) PROVE Starts(s)
<1>1. s \in Mine /\ s \notin begun /\ begun' = begun \cup {s} /\ wrote' = wrote
      /\ current' = [current EXCEPT ![KindOf(s)] = s]
      /\ sessions' = [sessions EXCEPT ![KindOf(s)] = Append(sessions[KindOf(s)], NewOutgoing(s))]
  BY DEF Begin
<1>2. ~Held(s)
  BY <1>1 DEF IInv, EntryInv, Fine
<1>3. TableOf(KindOf(s), sessions[KindOf(s)])
  BY KindType DEF IInv, TableInv, Tables
<1>4. \A i \in DOMAIN sessions[KindOf(s)] : sessions[KindOf(s)][i].id # None
  <2> SUFFICES ASSUME NEW i \in DOMAIN sessions[KindOf(s)]
               PROVE  sessions[KindOf(s)][i].id # None
    OBVIOUS
  <2>1. sessions[KindOf(s)][i] \in Session
    BY <1>3 DEF TableOf
  <2>2. sessions[KindOf(s)][i].id \in Ids
    BY <2>1 DEF Session
  <2> QED
    BY <2>2, IdsAssumption
<1>5. Swaps(s, NewOutgoing(s), None)
  BY <1>1, <1>2, <1>4, NewSessions, AddSwaps DEF IInv
<1> QED
  BY <1>1, <1>2, <1>5 DEF Starts

LEMMA TickTicks ==
  ASSUME IInv, NEW k \in Kinds, TickEnds(k) \/ TickAborts(k) \/ TickWrites(k), Held(current[k])
  PROVE  Ticks(current[k])
<1>1. PICK s : s = current[k]
  OBVIOUS
<1>2. PICK e : e = SessionOf(s)
  OBVIOUS
<1>3. /\ s \in Mine /\ Held(s) /\ KindOf(s) = k /\ current[KindOf(s)] = s
      /\ e \in Session /\ e.id = s /\ Len(wrote[s]) = index[k]
  BY <1>1, <1>2, Sending
<1>4. index[k] \in 0 .. Frags /\ Frags \in Nat /\ index[k] \in Int
  BY BoundsAssumption DEF IInv, SendType
<1>5. TableInv /\ Tables(sessions)
  BY DEF IInv, TableInv
<1>6. ASSUME NEW new \in Session, new.id = s, sessions' = With(s, new) PROVE Swaps(s, new, None)
  BY <1>3, <1>5, <1>6, ReplaceSwaps
<1>7. CASE TickEnds(k)
  <2> DEFINE n == [e EXCEPT !.state = "complete"]
  <2>1. sessions' = With(s, n) /\ SameSends /\ index[k] >= Frags
    BY <1>1, <1>2, <1>3, <1>7 DEF TickEnds, NothingToSend, SameSends
  <2>2. n \in Session /\ n.id = s /\ n.state = "complete"
    BY <1>3 DEF Session, States
  <2> HIDE DEF n
  <2>3. Ends(s, n)
    BY <1>3, <1>4, <1>6, <2>1, <2>2 DEF Ends
  <2> QED
    BY <1>1, <1>3, <2>2, <2>3 DEF Ticks
<1>8. CASE TickAborts(k)
  <2> DEFINE n == [e EXCEPT !.state = "failed"]
  <2>1. sessions' = With(s, n) /\ SameSends /\ ~(index[k] >= Frags)
    BY <1>1, <1>2, <1>3, <1>8 DEF TickAborts, NothingToSend, SameSends
  <2>2. n \in Session /\ n.id = s /\ n.state = "failed"
    BY <1>3 DEF Session, States
  <2> HIDE DEF n
  <2>3. Aborts(s, n)
    BY <1>3, <1>4, <1>6, <2>1, <2>2 DEF Aborts
  <2> QED
    BY <1>1, <1>3, <2>2, <2>3 DEF Ticks
<1>9. CASE TickWrites(k)
  <2>1. /\ UNCHANGED <<current, begun>> /\ ~(index[k] >= Frags) /\ sessions' = Progress(k)
        /\ wrote' = [wrote EXCEPT ![s] = Append(@, Len(wrote[s]))]
    BY <1>1, <1>3, <1>9 DEF TickWrites, NothingToSend
  <2>2. Len(wrote[s]) < Frags
    BY <1>3, <1>4, <2>1
  <2>3. \E n \in Session :
          /\ Swaps(s, n, None)
          /\ n.state = IF s \in Images THEN "loading" ELSE SessionOf(s).state
    <3>1. CASE k = "image"
      <4> DEFINE n == [e EXCEPT !.state = "loading", !.count = index[k] + 1]
      <4>1. sessions' = With(s, n) /\ s \in Images
        BY <1>1, <1>2, <1>3, <2>1, <3>1 DEF Progress, KindOf
      <4>2. index[k] + 1 \in 0 .. Frags
        BY <1>4, <2>1
      <4>3. n \in Session /\ n.id = s /\ n.state = "loading"
        BY <1>3, <4>2 DEF Session, States
      <4> HIDE DEF n
      <4> QED
        BY <1>6, <4>1, <4>3
    <3>2. CASE k # "image"
      <4>1. sessions' = sessions /\ s \notin Images
        BY <1>3, <2>1, <3>2 DEF Progress, KindOf
      <4>2. In(sessions, s) /\ e = EntryOf(sessions, s)
        BY <1>2, <1>3, Views
      <4>3. Becomes(sessions, sessions', s, e)
        BY <1>5, <4>1, <4>2 DEF Becomes
      <4>4. \A u \in Ids \ {s} : Held(u) => Held(u)'
        BY <4>1, Views
      <4>5. ~Held(None)
        BY IdsAssumption DEF Held
      <4>6. Swaps(s, e, None)
        BY <4>3, <4>4, <4>5 DEF Swaps
      <4> QED
        BY <1>2, <1>3, <4>1, <4>6
    <3> QED
      BY <3>1, <3>2
  <2>4. PICK n \in Session :
          /\ Swaps(s, n, None)
          /\ n.state = IF s \in Images THEN "loading" ELSE SessionOf(s).state
    BY <2>3
  <2>5. Writes(s, n)
    BY <2>1, <2>2, <2>4 DEF Writes
  <2> QED
    BY <1>1, <1>3, <2>4, <2>5 DEF Ticks
<1> QED
  BY <1>7, <1>8, <1>9

LEMMA TheirsReceive ==
  ASSUME IInv, NEW s \in Ids,
         ReceiveEnvelope(s) \/ UserFetches(s) \/ \E i \in Fragments : ReceiveFragment(s, i)
  PROVE  Receives(s)
<1>1. s \in Theirs /\ SameSends
  BY DEF ReceiveEnvelope, UserFetches, ReceiveFragment, sendVars, SameSends
<1>2. TableInv
  BY DEF IInv
<1>3. CASE Held(s)
  <2>1. PICK e : e = SessionOf(s)
    OBVIOUS
  <2>2. /\ e \in Session /\ e.id = s /\ e.count = Cardinality(e.got)
        /\ e.state = "complete" => e.got = Fragments
    BY <1>1, <1>3, <2>1, TheirSession
  <2>3. \E new \in Session : sessions' = With(s, new) /\ new.id = s
    <3>1. CASE ReceiveEnvelope(s)
      <4>1. PICK new \in {e, Fetching(e)} : sessions' = With(s, new)
        BY <1>3, <2>1, <3>1 DEF ReceiveEnvelope
      <4> QED
        BY <2>2, <4>1, Fetched
    <3>2. CASE UserFetches(s)
      <4>1. sessions' = With(s, Fetching(e))
        BY <2>1, <3>2 DEF UserFetches
      <4> QED
        BY <2>2, <4>1, Fetched
    <3>3. CASE \E i \in Fragments : ReceiveFragment(s, i)
      <4>1. PICK i \in Fragments : sessions' = With(s, WithFragment(e, i))
        BY <2>1, <3>3 DEF ReceiveFragment
      <4> QED
        BY <2>2, <4>1, FragmentAdded
    <3> QED
      BY <3>1, <3>2, <3>3
  <2>4. PICK new \in Session : sessions' = With(s, new) /\ new.id = s
    BY <2>3
  <2>5. Swaps(s, new, None)
    BY <1>2, <1>3, <2>4, ReplaceSwaps
  <2> QED
    BY <1>1, <2>5 DEF Receives
<1>4. CASE ~Held(s)
  <2>1. ReceiveEnvelope(s)
    BY <1>4 DEF UserFetches, ReceiveFragment
  <2>2. PICK new \in {NewIncoming(s), Fetching(NewIncoming(s))} :
          sessions' = [sessions EXCEPT ![KindOf(s)] = Append(MakeRoom(sessions[KindOf(s)]), new)]
    BY <1>4, <2>1 DEF ReceiveEnvelope
  <2>3. new \in Session /\ new.id = s
    BY <2>2, NewSessions, Fetched
  <2>4. TableOf(KindOf(s), sessions[KindOf(s)])
    BY <1>2, KindType DEF TableInv, Tables
  <2>5. PICK lost :
          /\ lost = None \/ KindOf(lost) = KindOf(s)
          /\ \A i \in DOMAIN sessions[KindOf(s)] :
               sessions[KindOf(s)][i].id = lost => sessions[KindOf(s)][i].state # "sending"
          /\ \A i \in DOMAIN sessions[KindOf(s)] : sessions[KindOf(s)][i].id # lost
               => \E j \in DOMAIN MakeRoom(sessions[KindOf(s)]) :
                    MakeRoom(sessions[KindOf(s)])[j] = sessions[KindOf(s)][i]
    BY <2>4, OneLost
  <2>6. Swaps(s, new, lost)
    BY <1>2, <1>4, <2>2, <2>3, <2>5, AddSwaps
  <2> QED
    BY <1>1, <2>6 DEF Receives
<1> QED
  BY <1>3, <1>4

LEMMA Shapes ==
  ASSUME IInv, [Next]_vars
  PROVE  \/ SameSends /\ UNCHANGED sessions
         \/ \E s \in Ids : Starts(s) \/ Ticks(s) \/ Receives(s)
<1>1. ASSUME NEW k \in Kinds, TickEnds(k) \/ TickAborts(k) \/ TickWrites(k), Held(current[k])
      PROVE  \E s \in Ids : Ticks(s)
  BY <1>1, TickTicks, Sending
<1>2. ASSUME NEW k \in Kinds, TickEnds(k) \/ TickAborts(k) \/ TickWrites(k), ~Held(current[k])
      PROVE  SameSends /\ UNCHANGED sessions
  BY <1>2 DEF TickEnds, TickAborts, TickWrites, NothingToSend, SameSends
<1>3. ASSUME NEW s \in Ids, Begin(s) PROVE Starts(s)
  BY <1>3, BeginStarts
<1>4. ASSUME NEW s \in Ids, ReceiveEnvelope(s) \/ UserFetches(s) PROVE Receives(s)
  BY <1>4, TheirsReceive
<1>5. ASSUME NEW s \in Ids, NEW i \in Fragments, ReceiveFragment(s, i) PROVE Receives(s)
  BY <1>5, TheirsReceive
<1>6. CASE HandleConfirmed \/ ConfirmationComes \/ \E k \in Kinds : TimerFires(k)
  BY <1>6 DEF HandleConfirmed, ConfirmationComes, TimerFires, SameSends, sendVars
<1>7. CASE UNCHANGED vars
  BY <1>7 DEF vars, sendVars, SameSends
<1> QED
  BY <1>1, <1>2, <1>3, <1>4, <1>5, <1>6, <1>7 DEF Next, Handles

LEMMA Swapped ==
  ASSUME NEW s, NEW new, NEW lost, Swaps(s, new, lost)
  PROVE  /\ Held(s)' /\ SessionOf(s)' = new
         /\ \A u \in Ids \ {s} : Held(u)' => Held(u) /\ SessionOf(u)' = SessionOf(u)
         /\ \A u \in Ids \ {s} : Held(u) /\ u # lost => Held(u)'
  BY Views DEF Swaps, Becomes

LEMMA VoiceStep == IInv /\ VoiceInv /\ [Next]_vars => VoiceInv'
<1> SUFFICES ASSUME IInv, VoiceInv, [Next]_vars, NEW u \in Mine \cap Voices, Held(u)'
             PROVE  SessionOf(u)'.state \in {"sending", "failed", "complete"}
  BY DEF VoiceInv
<1>1. u \in Ids /\ u \notin Images /\ u \notin Theirs
  BY IdsAssumption DEF Theirs
<1>2. Held(u) => SessionOf(u).state \in {"sending", "failed", "complete"}
  BY DEF VoiceInv
<1>3. CASE SameSends /\ UNCHANGED sessions
  BY <1>2, <1>3, Views
<1>4. ASSUME NEW s \in Ids, Starts(s) \/ Ticks(s) \/ Receives(s)
      PROVE  SessionOf(u)'.state \in {"sending", "failed", "complete"}
  <2>1. PICK new, lost : Swaps(s, new, lost)
    BY <1>4 DEF Starts, Ticks, Ends, Aborts, Writes, Receives
  <2>2. CASE u # s
    BY <1>1, <1>2, <2>1, <2>2, Swapped
  <2>3. CASE u = s
    <3>1. CASE Starts(s)
      <4>1. SessionOf(u)' = NewOutgoing(u)
        BY <2>3, <3>1, Swapped DEF Starts
      <4> QED
        BY <1>1, <4>1 DEF NewOutgoing
    <3>2. CASE Ticks(s)
      <4>1. PICK n \in Session : Ends(s, n) \/ Aborts(s, n) \/ Writes(s, n)
        BY <3>2 DEF Ticks
      <4>2. SessionOf(u)' = n
        BY <2>3, <4>1, Swapped DEF Ends, Aborts, Writes
      <4>3. n.state \in {"complete", "failed", SessionOf(u).state}
        BY <1>1, <2>3, <4>1 DEF Ends, Aborts, Writes
      <4> QED
        BY <1>2, <2>3, <3>2, <4>2, <4>3 DEF Ticks
    <3> QED
      BY <1>1, <1>4, <2>3, <3>1, <3>2 DEF Receives
  <2> QED
    BY <2>2, <2>3
<1> QED
  BY <1>3, <1>4, Shapes

(* The fate of a transfer from what decides it.                            *)
FateOf(started, held, state, latest) ==
  IF ~started THEN "new"
  ELSE IF ~held THEN "left"
  ELSE IF state = "complete" THEN "complete"
  ELSE IF ~latest THEN "left"
  ELSE IF state = "failed" THEN "failed" ELSE "underway"

LEMMA FateSeen ==
  ASSUME NEW s
  PROVE  /\ Fate(s) = FateOf(s \in begun, Held(s), SessionOf(s).state, current[KindOf(s)] = s)
         /\ Fate(s)' = FateOf(s \in begun', Held(s)', SessionOf(s)'.state, current'[KindOf(s)] = s)
<1>1. Fate(s) = FateOf(s \in begun, Held(s), SessionOf(s).state, current[KindOf(s)] = s)
  BY DEF Fate, FateOf
<1>2. Fate(s)' = FateOf(s \in begun', Held(s)', SessionOf(s)'.state, current'[KindOf(s)] = s)
  BY DEF Fate, FateOf
<1> QED
  BY <1>1, <1>2

LEMMA FateTyped == \A s : Fate(s) \in Out!Fates /\ Fate(s)' \in Out!Fates
  BY FateSeen DEF FateOf, Out!Fates, Out!Going

(* What is as it was has the same fate.                                    *)
LEMMA FateKept ==
  ASSUME NEW s, s \in begun' <=> s \in begun, Held(s)' <=> Held(s),
         Held(s) => SessionOf(s)' = SessionOf(s),
         current'[KindOf(s)] = s <=> current[KindOf(s)] = s
  PROVE  Fate(s)' = Fate(s)
  BY FateSeen DEF FateOf

LEMMA RivalsAre ==
  ASSUME NEW s \in Mine, NEW r \in Mine \ {s}
  PROVE  r \in Out!Rivals(s) <=> KindOf(r) = KindOf(s)
<1>1. r \in Out!Rivals(s) <=> \E g \in {Mine \cap Images, Mine \cap Voices} : s \in g /\ r \in g
  BY DEF Out!Rivals
<1>2. (s \in Images \/ s \in Voices) /\ (r \in Images \/ r \in Voices)
  BY IdsAssumption DEF Ids
<1>3. ~(s \in Images /\ s \in Voices) /\ ~(r \in Images /\ r \in Voices)
  BY IdsAssumption
<1> QED
  BY <1>1, <1>2, <1>3 DEF KindOf

(* A step that changes the fate of s alone.                                *)
LEMMA OneFate ==
  ASSUME NEW s \in Mine, \A u \in Mine \ {s} : Fate(u)' = Fate(u), NEW f, Fate(s)' = f
  PROVE  Out!Becomes(s, f) /\ [u \in Mine |-> Fate(u)'] \in [Mine -> Out!Fates]
  BY FateTyped DEF Out!Becomes

LEMMA StartKeeps ==
  ASSUME IInv, NEW s \in Ids, Starts(s)
  PROVE  Out!Step
<1>1. /\ s \in Mine /\ s \notin begun /\ begun' = begun \cup {s}
      /\ current' = [current EXCEPT ![KindOf(s)] = s] /\ wrote' = wrote
      /\ Swaps(s, NewOutgoing(s), None)
  BY DEF Starts
<1>2. current'[KindOf(s)] = s /\ \A l \in Kinds \ {KindOf(s)} : current'[l] = current[l]
  BY <1>1, KindType DEF IInv, SendType
<1>3. Fate(s) = "new" /\ Len(wrote[s]) = 0
  BY <1>1, FateSeen DEF FateOf, IInv, SendInv
<1>4. Fate(s)' = "underway"
  <2>1. Held(s)' /\ SessionOf(s)'.state \in {"loading", "sending"}
    BY <1>1, Swapped DEF NewOutgoing
  <2> QED
    BY <1>1, <1>2, <2>1, FateSeen DEF FateOf
<1>5. ASSUME NEW r \in Mine \ {s}
      PROVE  Fate(r)' = IF r \in Out!Rivals(s) /\ Fate(r) \in Out!Going THEN "left" ELSE Fate(r)
  <2>1. r \in Ids /\ r # None /\ (r \in begun' <=> r \in begun)
    BY <1>1, IdsAssumption
  <2>2. (Held(r)' <=> Held(r)) /\ (Held(r) => SessionOf(r)' = SessionOf(r))
    BY <1>1, <2>1, Swapped
  <2>3. CASE KindOf(r) # KindOf(s)
    <3>1. current'[KindOf(r)] = current[KindOf(r)]
      BY <1>2, <2>3, KindType
    <3>2. Fate(r)' = Fate(r)
      BY <2>1, <2>2, <3>1, FateKept
    <3> QED
      BY <1>1, <2>3, <3>2, RivalsAre
  <2>4. CASE KindOf(r) = KindOf(s)
    <3>1. current'[KindOf(r)] # r /\ r \in Out!Rivals(s)
      BY <1>1, <1>2, <2>4, RivalsAre
    <3> QED
      BY <2>1, <2>2, <3>1, FateSeen DEF FateOf, Out!Going
  <2> QED
    BY <2>3, <2>4
<1>6. Out!Start(s)
  BY <1>1, <1>3, <1>4, <1>5 DEF Out!Start
<1>7. [u \in Mine |-> Fate(u)'] \in [Mine -> Out!Fates]
  BY FateTyped
<1> QED
  BY <1>1, <1>6, <1>7 DEF Out!Step

LEMMA TickKeeps ==
  ASSUME IInv, NEW s \in Ids, Ticks(s)
  PROVE  Out!Step \/ UNCHANGED Out!promiseVars
<1>1. s \in Mine /\ Held(s) /\ current[KindOf(s)] = s
  BY DEF Ticks
<1>2. PICK n \in Session : Ends(s, n) \/ Aborts(s, n) \/ Writes(s, n)
  BY DEF Ticks
<1>3. UNCHANGED <<current, begun>> /\ Swaps(s, n, None) /\ s \in begun
  BY <1>1, <1>2 DEF Ends, Aborts, Writes, SameSends, IInv, EntryInv, Fine
<1>4. Held(s)' /\ SessionOf(s)' = n
  BY <1>3, Swapped
<1>5. ASSUME NEW u \in Mine \ {s} PROVE Fate(u)' = Fate(u)
  <2>1. u \in Ids /\ u # None
    BY IdsAssumption
  <2>2. (Held(u)' <=> Held(u)) /\ (Held(u) => SessionOf(u)' = SessionOf(u))
    BY <1>3, <2>1, Swapped
  <2> QED
    BY <1>3, <2>2, FateKept
<1>6. Out!Becomes(s, Fate(s)') /\ [u \in Mine |-> Fate(u)'] \in [Mine -> Out!Fates]
  BY <1>1, <1>5, OneFate
<1>7. /\ Fate(s) = FateOf(TRUE, TRUE, SessionOf(s).state, TRUE)
      /\ Fate(s)' = FateOf(TRUE, TRUE, n.state, TRUE)
  BY <1>1, <1>3, <1>4, FateSeen
<1>8. SessionOf(s).state = "complete" => Len(wrote[s]) = Frags
  BY <1>1 DEF IInv, EntryInv, Fine
<1>9. Len(wrote[s]) \in Nat /\ Frags \in Nat /\ wrote \in [Mine -> Seq(Fragments)]
  BY <1>1, BoundsAssumption DEF IInv, SendType
<1>10. CASE Ends(s, n)
  <2>1. wrote' = wrote /\ Len(wrote[s]) = Frags /\ Fate(s)' = "complete"
    BY <1>7, <1>10 DEF Ends, SameSends, FateOf
  <2>2. CASE SessionOf(s).state = "complete"
    <3>1. \A u \in Mine : Fate(u)' = Fate(u)
      BY <1>5, <1>7, <2>1, <2>2 DEF FateOf
    <3> QED
      BY <2>1, <3>1 DEF Out!promiseVars
  <2>3. CASE SessionOf(s).state # "complete"
    <3>1. Fate(s) \in Out!Going
      BY <1>7, <2>3 DEF FateOf, Out!Going
    <3>2. Out!Finish(s)
      BY <1>1, <1>6, <2>1, <3>1 DEF Out!Finish
    <3> QED
      BY <1>1, <1>6, <3>2 DEF Out!Step
  <2> QED
    BY <2>2, <2>3
<1>11. CASE Aborts(s, n)
  <2>1. wrote' = wrote /\ Len(wrote[s]) < Frags /\ Fate(s)' = "failed"
    BY <1>7, <1>11 DEF Aborts, SameSends, FateOf
  <2>2. Fate(s) \in {"underway", "failed"}
    BY <1>7, <1>8, <1>9, <2>1 DEF FateOf
  <2>3. CASE Fate(s) = "failed"
    <3>1. \A u \in Mine : Fate(u)' = Fate(u)
      BY <1>5, <2>1, <2>3
    <3> QED
      BY <2>1, <3>1 DEF Out!promiseVars
  <2>4. CASE Fate(s) = "underway"
    <3>1. Out!Fail(s)
      BY <1>1, <1>6, <2>1, <2>4 DEF Out!Fail
    <3> QED
      BY <1>1, <1>6, <3>1 DEF Out!Step
  <2> QED
    BY <2>2, <2>3, <2>4
<1>12. CASE Writes(s, n)
  <2>1. /\ Len(wrote[s]) < Frags /\ wrote' = [wrote EXCEPT ![s] = Append(@, Len(wrote[s]))]
        /\ n.state \in {"loading", SessionOf(s).state}
    BY <1>12 DEF Writes
  <2>2. Fate(s) \in {"underway", "failed"} /\ Fate(s)' \in {Fate(s), "underway"}
    BY <1>7, <1>8, <1>9, <2>1 DEF FateOf
  <2>3. \A u \in Mine : Len(wrote'[u]) = IF u = s THEN Len(wrote[s]) + 1 ELSE Len(wrote[u])
    BY <1>1, <1>9, <2>1
  <2>4. [u \in Mine |-> Len(wrote'[u])]
          = [[u \in Mine |-> Len(wrote[u])] EXCEPT ![s] = @ + 1]
    BY <1>1, <2>3
  <2>5. Out!Send(s)
    BY <1>1, <1>6, <2>1, <2>2, <2>4 DEF Out!Send, Out!Going
  <2> QED
    BY <1>1, <1>6, <2>5 DEF Out!Step
<1> QED
  BY <1>2, <1>10, <1>11, <1>12

LEMMA ReceiptKeeps ==
  ASSUME IInv, VoiceInv, NEW s \in Ids, Receives(s)
  PROVE  Out!Step \/ UNCHANGED Out!promiseVars
<1>1. s \notin Mine /\ UNCHANGED <<current, begun, wrote>>
  BY DEF Receives, Theirs, SameSends
<1>2. PICK new, lost : Swaps(s, new, lost)
  BY DEF Receives
<1>3. ASSUME NEW u \in Mine, u # lost \/ ~Held(u) \/ Held(u)' PROVE Fate(u)' = Fate(u)
  <2>1. u \in Ids \ {s}
    BY <1>1, IdsAssumption
  <2>2. (Held(u)' <=> Held(u)) /\ (Held(u) => SessionOf(u)' = SessionOf(u))
    BY <1>2, <1>3, <2>1, Swapped
  <2> QED
    BY <1>1, <2>2, FateKept
<1>4. CASE \A u \in Mine : u # lost \/ ~Held(u) \/ Held(u)'
  <2>1. \A u \in Mine : Fate(u)' = Fate(u)
    BY <1>3, <1>4
  <2> QED
    BY <1>1, <2>1 DEF Out!promiseVars
<1>5. CASE lost \in Mine /\ Held(lost) /\ ~Held(lost)'
  <2>1. lost \in begun /\ SessionOf(lost).state # "sending"
    BY <1>2, <1>5 DEF Swaps, IInv, EntryInv, Fine, Held
  <2>2. Fate(lost)' = "left"
    BY <1>1, <1>5, <2>1, FateSeen DEF FateOf
  <2>3. \A u \in Mine \ {lost} : Fate(u)' = Fate(u)
    BY <1>3
  <2>4. Out!Becomes(lost, "left") /\ [u \in Mine |-> Fate(u)'] \in [Mine -> Out!Fates]
    BY <1>5, <2>2, <2>3, OneFate
  <2>5. Fate(lost) = FateOf(TRUE, TRUE, SessionOf(lost).state, current[KindOf(lost)] = lost)
    BY <1>5, <2>1, FateSeen
  <2>6. CASE Fate(lost) = "left"
    <3>1. \A u \in Mine : Fate(u)' = Fate(u)
      BY <2>2, <2>3, <2>6
    <3> QED
      BY <1>1, <3>1 DEF Out!promiseVars
  <2>7. CASE Fate(lost) # "left"
    <3>1. Fate(lost) \in Out!Going \cup {"complete"}
      BY <2>5, <2>7 DEF FateOf, Out!Going
    <3>2. Fate(lost) = "underway" => lost \notin Mine \cap Voices
      BY <1>5, <2>1, <2>5 DEF FateOf, VoiceInv
    <3>3. Out!Leave(lost)
      BY <1>1, <1>5, <2>4, <3>1, <3>2 DEF Out!Leave
    <3> QED
      BY <1>5, <2>4, <3>3 DEF Out!Step
  <2> QED
    BY <2>6, <2>7
<1> QED
  BY <1>4, <1>5

(* Whatever stale ticks, confirmations, failed writes and envelopes come   *)
(* between, of a kind at most the newest transfer goes on; it sends one    *)
(* fragment at a time and is complete only once all were sent; one that is *)
(* left is never sent on, and a voice clip that goes well keeps its place. *)
THEOREM TransfersKeepPromise == Spec => KeepsPromise
<1>1. Init => Out!Begin /\ VoiceInv
  <2> SUFFICES ASSUME Init PROVE Out!Begin /\ VoiceInv
    OBVIOUS
  <2>1. \A s : Fate(s) = "new"
    BY FateSeen DEF Init, FateOf
  <2>2. \A s \in Mine : Len(wrote[s]) = 0
    BY DEF Init
  <2>3. \A s : ~Held(s)
    BY KindType DEF Init, Held, Places
  <2> QED
    BY <2>1, <2>2, <2>3 DEF Out!Begin, VoiceInv
<1>2. IInv /\ VoiceInv /\ [Next]_vars => [Out!Step]_(Out!promiseVars)
  <2> SUFFICES ASSUME IInv, VoiceInv, [Next]_vars
               PROVE  Out!Step \/ UNCHANGED Out!promiseVars
    OBVIOUS
  <2>1. CASE SameSends /\ UNCHANGED sessions
    <3>1. \A u \in Mine : Fate(u)' = Fate(u)
      BY <2>1, Views, FateKept DEF SameSends
    <3> QED
      BY <2>1, <3>1 DEF SameSends, Out!promiseVars
  <2>2. ASSUME NEW s \in Ids, Starts(s) \/ Ticks(s) \/ Receives(s)
        PROVE  Out!Step \/ UNCHANGED Out!promiseVars
    BY <2>2, StartKeeps, TickKeeps, ReceiptKeeps
  <2> QED
    BY <2>1, <2>2, Shapes
<1> QED
  BY <1>1, <1>2, VoiceStep, Invariance, PTL DEF Spec, KeepsPromise, Out!Promise
=============================================================================
