------------------------ MODULE SerialFraming_proofs ------------------------
(***************************************************************************)
(* The reader stores nothing outside fFrameBuffer, and raw mode lets at    *)
(* most one frame through, for every stream, every size of frame and line, *)
(* and wherever SetRawMode falls between two steps of the reader.          *)
(*                                                                         *)
(* And what it posts is what was sent.  That is shown by saying of every   *)
(* state how much of the stream was taken apart, which byte of which item  *)
(* comes next, and what the fields hold then.                              *)
(***************************************************************************)
EXTENDS SerialFraming, TLAPS, WellFoundedInduction

(* There is a byte at hand except between two reads.                       *)
ByteInv == at # "read" => Len(buf) > 0

(* What a test of fFramePos established holds until the store, or the      *)
(* position was reset.                                                     *)
PosInv ==
  /\ at = "length" => pos <= 1
  /\ at = "lengthStore" => slot <= 1
  /\ at \in {"load", "payloadStore"} => offset < expected
  /\ at = "load" => pos <= offset + 2
  /\ at = "payloadStore" => slot <= offset + 2

(* Once a frame was posted in raw mode, none is under way.                 *)
RawInv ==
  /\ afterRaw <= 1
  /\ afterRaw = 1 => raw /\ ~inFrame /\ at \in {"read", "scan"}

IInv == TypeOK /\ ByteInv /\ PosInv /\ RawInv

(* More than one byte leaves a byte.                                       *)
LEMMA TailLen == ASSUME NEW S, NEW s \in Seq(S), Len(s) > 0, Len(s) # 1 PROVE Len(Tail(s)) > 0
<1>1. Len(Tail(s)) = Len(s) - 1
  BY s # <<>>
<1>2. PICK n \in Nat : n = Len(s)
  OBVIOUS
<1>3. n > 0 /\ n # 1 /\ Len(Tail(s)) = n - 1
  BY <1>1, <1>2
<1> QED
  BY ONLY <1>3

USE BoundsAssumption

(* The byte at hand is a byte, and so are those after it.                  *)
LEMMA ByteType == ASSUME TypeOK, ByteInv, at # "read" PROVE byte \in Byte /\ Tail(buf) \in Seq(Byte)
BY DEF TypeOK, ByteInv, byte

(* After a byte the reader is between two reads or has another byte.       *)
LEMMA ConsumeType ==
  ASSUME TypeOK, ByteInv, at # "read", Consume
  PROVE /\ buf' \in Seq(Byte)
        /\ at' \in {"read", "scan"}
        /\ at' # "read" => Len(buf') > 0
<1>1. buf \in Seq(Byte) /\ Len(buf) > 0
  BY DEF TypeOK, ByteInv
<1>2. Len(buf) # 1 => Len(Tail(buf)) > 0
  BY <1>1, TailLen
<1> QED
  BY ByteType, <1>2 DEF Consume

(* A flushed line is something the window may be posted.                   *)
LEMMA FlushedType == ASSUME TypeOK PROVE Flushed \in Seq(Posts)
<1>1. line \in Seq(Byte) /\ delivered \in Seq(Posts)
  BY DEF TypeOK
<1>2. Post("line", line) \in Posts
  BY <1>1 DEF Posts, Post
<1> QED
  BY <1>1, <1>2 DEF Flushed

(* What the device writes is bytes.                                        *)
LEMMA WireType == ASSUME NEW item \in Items, WellFormed(item) PROVE Wire(item) \in Seq(Byte)
<1>1. item.body \in Seq(Byte) /\ item.lo \in Byte /\ item.hi \in Byte
  BY DEF Items
<1>2. Marker \in Byte /\ Newline \in Byte
  BY DEF Marker, Newline, Byte
<1>3. Header(item) \in Seq(Byte)
  BY <1>1, <1>2 DEF Header
<1>4. item.kind = "cut" => Front(item.body) \in Seq(Byte)
  <2>1. SUFFICES ASSUME item.kind = "cut" PROVE Front(item.body) \in Seq(Byte)
    OBVIOUS
  <2>2. Len(item.body) \in Nat /\ Len(item.body) # 0
    BY <1>1, <2>1 DEF WellFormed
  <2> QED
    BY <1>1, <2>2 DEF Front
<1>5. Rest(item) \in Seq(Byte)
  BY <1>1, <1>2, <1>4 DEF Rest
<1> QED
  BY <1>3, <1>5 DEF Wire

(* A port that was just opened.                                            *)
LEMMA InitIInv == Init => IInv
<1> SUFFICES ASSUME Init PROVE IInv
  OBVIOUS
<1>1. TypeOK
  <2>1. todo \in Seq({item \in Items : WellFormed(item)})
    <3> DEFINE Scriptable == Seq({item \in Items : WellFormed(item)})
    <3>1. script \in Scripts /\ todo = script
      BY DEF Init
    <3>2. Scripts \subseteq Scriptable
      BY Zenon, ScriptsAssumption
    <3> HIDE DEF Scriptable
    <3>3. todo \in Scriptable
      BY <3>1, <3>2
    <3> QED
      BY <3>3 DEF Scriptable
  <2>2. frame \in [Slots -> Byte]
    BY DEF Init, Byte
  <2>3. 0 \in 0 .. MaxPayload + 2 /\ 0 \in 0 .. MaxPayload
    OBVIOUS
  <2>4. script \in Scripts /\ expected = 0 /\ pos = 0 /\ slot = 0 /\ offset = 0 /\ afterRaw = 0
    BY DEF Init
  <2>5. wire \in Seq(Byte) /\ buf \in Seq(Byte) /\ line \in Seq(Byte) /\ delivered \in Seq(Posts)
    BY DEF Init
  <2>6. at = "read" /\ setting = "no" /\ inFrame = FALSE /\ raw = FALSE
    BY DEF Init
  <2> QED
    BY <2>1, <2>2, <2>3, <2>4, <2>5, <2>6 DEF TypeOK
<1> QED
  BY <1>1 DEF Init, IInv, ByteInv, PosInv, RawInv

-----------------------------------------------------------------------------
(* One lemma per step of the device, the reader and SetRawMode.            *)

LEMMA StepWrite == ASSUME IInv, Write PROVE IInv'
<1> USE DEF IInv, Write, readerVars, frameVars, outVars
<1>1. todo \in Seq({item \in Items : WellFormed(item)}) /\ wire \in Seq(Byte)
  BY DEF TypeOK
<1>2. Head(todo) \in Items /\ WellFormed(Head(todo)) /\ Tail(todo) \in Seq({item \in Items : WellFormed(item)})
  BY <1>1
<1>3. wire' \in Seq(Byte)
  BY <1>1, <1>2, WireType
<1>4. TypeOK'
  BY <1>2, <1>3 DEF TypeOK
<1> QED
  BY <1>4 DEF ByteInv, PosInv, RawInv

LEMMA StepRead == ASSUME IInv, Read PROVE IInv'
<1> USE DEF IInv, frameVars, outVars
<1>1. PICK n \in 1 .. MaxRead :
        n <= Len(wire) /\ buf' = SubSeq(wire, 1, n) /\ wire' = SubSeq(wire, n + 1, Len(wire))
  BY DEF Read
<1>2. wire \in Seq(Byte)
  BY DEF TypeOK
<1>3. buf' \in Seq(Byte) /\ Len(buf') = n
  BY <1>1, <1>2
<1>4. wire' \in Seq(Byte)
  BY <1>1, <1>2
<1>5. TypeOK'
  BY <1>3, <1>4 DEF TypeOK, Read
<1> QED
  BY <1>3, <1>5 DEF ByteInv, PosInv, RawInv, Read

LEMMA StepScanText == ASSUME IInv, ScanText PROVE IInv'
<1> USE DEF IInv, ScanText, frameVars
<1>1. byte \in Byte
  BY ByteType
<1>2. buf' \in Seq(Byte) /\ at' \in {"read", "scan"} /\ (at' # "read" => Len(buf') > 0)
  BY ConsumeType
<1>3. line' \in Seq(Byte)
  <2>1. line \in Seq(Byte) /\ Append(line, byte) \in Seq(Byte)
    BY <1>1 DEF TypeOK
  <2>2. CASE line' = <<>>
    BY <2>2
  <2>3. CASE line' # <<>>
    <3>1. line' = IF Printable(byte) /\ Len(line) < MaxLine THEN Append(line, byte) ELSE line
      BY <2>3
    <3> QED
      BY ONLY <2>1, <3>1
  <2> QED
    BY <2>2, <2>3
<1>4. delivered' \in Seq(Posts)
  BY FlushedType DEF TypeOK
<1>5. TypeOK'
  BY <1>2, <1>3, <1>4 DEF TypeOK
<1> QED
  BY <1>2, <1>5 DEF ByteInv, PosInv, RawInv

LEMMA StepScanMarker == ASSUME IInv, ScanMarker PROVE IInv'
<1> USE DEF IInv, ScanMarker, frameVars, outVars
<1>1. TypeOK'
  BY DEF TypeOK
<1> QED
  BY <1>1 DEF ByteInv, PosInv, RawInv, StartsFrame

LEMMA StepBegin == ASSUME IInv, Begin PROVE IInv'
<1> USE DEF IInv, Begin
<1>1. buf' \in Seq(Byte) /\ at' \in {"read", "scan"} /\ (at' # "read" => Len(buf') > 0)
  BY ConsumeType
<1>2. delivered' \in Seq(Posts)
  BY FlushedType
<1>3. TypeOK'
  BY <1>1, <1>2 DEF TypeOK
<1> QED
  BY <1>1, <1>3 DEF ByteInv, PosInv, RawInv

LEMMA StepScanFrame == ASSUME IInv, ScanFrame PROVE IInv'
<1> USE DEF IInv, ScanFrame, frameVars, outVars
<1>1. TypeOK'
  BY DEF TypeOK
<1> QED
  BY <1>1 DEF TypeOK, ByteInv, PosInv, RawInv

LEMMA StepLoad == ASSUME IInv, LoadLength \/ LoadPayload PROVE IInv'
<1> USE DEF IInv, LoadLength, LoadPayload, Load, frameVars, outVars
<1>1. TypeOK'
  BY DEF TypeOK
<1> QED
  BY <1>1 DEF TypeOK, ByteInv, PosInv, RawInv

LEMMA StepStoreLength == ASSUME IInv, StoreLength PROVE IInv'
<1> USE DEF IInv, StoreLength, outVars
<1>1. byte \in Byte /\ slot \in {0, 1}
  BY ByteType DEF TypeOK, PosInv
<1>2. buf' \in Seq(Byte) /\ at' \in {"read", "scan"} /\ (at' # "read" => Len(buf') > 0)
  BY ConsumeType
<1>3. frame' \in [Slots -> Byte]
  BY <1>1 DEF TypeOK
<1>4. Size(frame'[0], frame'[1]) \in Nat
  <2>1. 0 \in Slots /\ 1 \in Slots
    BY DEF Slots
  <2>2. frame'[0] \in 0 .. 255 /\ frame'[1] \in 0 .. 255
    BY <1>3, <2>1 DEF Byte
  <2>3. \A lo, hi \in 0 .. 255 : lo + 256 * hi \in Nat
    BY ONLY SMT
  <2> QED
    BY ONLY <2>2, <2>3 DEF Size
<1>5. pos' \in 0 .. MaxPayload + 2 /\ inFrame' \in BOOLEAN
  <2>1. slot + 1 \in 0 .. MaxPayload + 2 /\ 0 \in 0 .. MaxPayload + 2
    BY <1>1
  <2>2. pos' \in {slot + 1, 0}
    BY DEF LeaveFrame
  <2>3. inFrame' \in BOOLEAN
    BY DEF LeaveFrame, TypeOK
  <2> QED
    BY <2>1, <2>2, <2>3
<1>6. expected' \in 0 .. MaxPayload
  BY <1>4 DEF TypeOK, TooLong
<1>7. TypeOK'
  BY <1>2, <1>3, <1>5, <1>6 DEF TypeOK
<1> QED
  BY <1>2, <1>7 DEF ByteInv, PosInv, RawInv

LEMMA StepInPayload == ASSUME IInv, InPayload PROVE IInv'
<1> USE DEF IInv, InPayload, outVars
<1>1. pos \in 0 .. MaxPayload + 2 /\ expected \in 0 .. MaxPayload /\ at = "payload"
  BY DEF TypeOK
<1>2. CASE pos >= 2 /\ pos - 2 < expected
  <2>1. offset' = pos - 2 /\ at' = "load" /\ offset' \in Nat
    BY <1>1, <1>2
  <2>2. TypeOK'
    BY <1>2, <2>1 DEF TypeOK
  <2>3. pos' = pos /\ expected' = expected
    BY <1>2
  <2>4. PosInv'
    BY <1>1, <1>2, <2>1, <2>3 DEF PosInv
  <2>5. RawInv'
    BY <1>1, <2>1 DEF RawInv, TypeOK
  <2> QED
    BY <1>1, <2>2, <2>4, <2>5 DEF ByteInv
<1>3. CASE ~(pos >= 2 /\ pos - 2 < expected)
  <2>1. pos' = 0 /\ inFrame' = FALSE /\ at' = "scan" /\ offset' = offset
    BY <1>3 DEF LeaveFrame
  <2>2. pos' \in 0 .. MaxPayload + 2 /\ inFrame' \in BOOLEAN /\ offset' \in Nat
    <3>1. 0 \in 0 .. MaxPayload + 2 /\ offset \in Nat
      BY DEF TypeOK
    <3> QED
      BY ONLY <2>1, <3>1
  <2>3. TypeOK'
    BY <2>1, <2>2 DEF TypeOK
  <2> QED
    BY <1>1, <2>1, <2>3 DEF ByteInv, PosInv, RawInv
<1> QED
  BY <1>2, <1>3

LEMMA StepStorePayload == ASSUME IInv, StorePayload PROVE IInv'
<1> USE DEF IInv, StorePayload
<1>1. byte \in Byte /\ slot \in 0 .. MaxPayload + 1
  BY ByteType DEF TypeOK, PosInv
<1>2. buf' \in Seq(Byte) /\ at' \in {"read", "scan"} /\ (at' # "read" => Len(buf') > 0)
  BY ConsumeType
<1>3. frame' \in [Slots -> Byte]
  BY <1>1 DEF TypeOK
<1>4. delivered' \in Seq(Posts)
  <2>1. \A i \in 1 .. expected : i + 1 \in Slots
    BY DEF TypeOK, Slots
  <2>2. [i \in 1 .. expected |-> frame'[i + 1]] \in Seq(Byte)
    BY <1>3, <2>1 DEF TypeOK
  <2>3. Post("frame", [i \in 1 .. expected |-> frame'[i + 1]]) \in Posts
    BY <2>2 DEF Post, Posts
  <2>4. delivered \in Seq(Posts)
    BY DEF TypeOK
  <2>5. \/ delivered' = delivered
        \/ delivered' = Append(delivered, Post("frame", [i \in 1 .. expected |-> frame'[i + 1]]))
    OBVIOUS
  <2> QED
    BY <2>3, <2>4, <2>5
<1>5. pos' \in 0 .. MaxPayload + 2 /\ inFrame' \in BOOLEAN /\ afterRaw' \in Nat
  <2>1. slot + 1 \in 0 .. MaxPayload + 2 /\ 0 \in 0 .. MaxPayload + 2
    BY <1>1
  <2>2. pos' \in {slot + 1, 0}
    BY DEF LeaveFrame
  <2>3. inFrame' \in BOOLEAN
    BY DEF LeaveFrame, TypeOK
  <2>4. afterRaw \in Nat /\ (afterRaw' = afterRaw \/ afterRaw' = afterRaw + 1)
    BY DEF TypeOK
  <2>5. afterRaw' \in Nat
    BY ONLY <2>4
  <2> QED
    BY <2>1, <2>2, <2>3, <2>5
<1>6. TypeOK'
  BY <1>2, <1>3, <1>4, <1>5 DEF TypeOK
<1>7. RawInv'
  BY <1>2 DEF RawInv, LeaveFrame, TypeOK
<1> QED
  BY <1>2, <1>6, <1>7 DEF ByteInv, PosInv

LEMMA StepSetRawMode == ASSUME IInv, SetRawMode PROVE IInv'
<1> USE DEF IInv, readerVars, outVars, frameVars
<1>1. CASE SetRaw
  <2>1. TypeOK'
    BY <1>1 DEF SetRaw, TypeOK
  <2> QED
    BY <1>1, <2>1 DEF SetRaw, ByteInv, PosInv, RawInv
<1>2. CASE SetNoFrame
  <2>1. TypeOK'
    BY <1>2 DEF SetNoFrame, TypeOK
  <2> QED
    BY <1>2, <2>1 DEF SetNoFrame, ByteInv, PosInv, RawInv
<1>3. CASE SetNoPos
  <2>1. pos' = 0 /\ 0 \in 0 .. MaxPayload + 2
    BY <1>3 DEF SetNoPos
  <2>2. TypeOK'
    BY <1>3, <2>1 DEF SetNoPos, TypeOK
  <2>3. PosInv'
    BY <1>3, <2>1 DEF SetNoPos, PosInv, TypeOK
  <2> QED
    BY <1>3, <2>2, <2>3 DEF SetNoPos, ByteInv, RawInv
<1> QED
  BY <1>1, <1>2, <1>3 DEF SetRawMode

LEMMA StepStutter == ASSUME IInv, UNCHANGED vars PROVE IInv'
BY DEF IInv, vars, readerVars, frameVars, outVars, TypeOK, ByteInv, PosInv, RawInv

(* The fields, the reader's position and the mode fit together in every    *)
(* state: the invariant the theorems below rest on.                        *)
THEOREM Inductive == Spec => []IInv
<1>1. IInv /\ [Next]_vars => IInv'
  BY StepWrite, StepRead, StepScanText, StepScanMarker, StepBegin, StepScanFrame, StepLoad, StepStoreLength,
     StepInPayload, StepStorePayload, StepSetRawMode, StepStutter DEF Next, Reader
<1> QED
  BY InitIInv, <1>1, PTL DEF Spec

(* SerialHandler's fields keep their types; in particular an announced     *)
(* length is at most kMaxFramePayload.                                     *)
THEOREM TypeCorrect == Spec => []TypeOK
<1>1. IInv => TypeOK
  BY DEF IInv
<1> QED
  BY Inductive, <1>1, PTL

(* _ProcessBuffer stores inside fFrameBuffer only, with SetRawMode at any  *)
(* moment.                                                                 *)
THEOREM NoOverflow == Spec => []StoresInBuffer
<1>1. IInv => StoresInBuffer
  BY DEF IInv, TypeOK, PosInv, StoresInBuffer, Slots
<1> QED
  BY Inductive, <1>1, PTL

(* SetRawMode(true) stops frames, but for one that was under way.          *)
THEOREM RawStopsFrames == Spec => []OneAfterRaw
<1>1. IInv => OneAfterRaw
  BY DEF IInv, RawInv, OneAfterRaw
<1> QED
  BY Inductive, <1>1, PTL

-----------------------------------------------------------------------------
(* Functions defined by recursion on numbers.                              *)

Below == {x \in Nat \X Nat : x[1] < x[2]}

LEMMA BelowWellFounded == IsWellFoundedOn(Below, Nat)
<1>1. OpToRel(<, Nat) = Below
  BY DEF OpToRel, Below
<1> QED
  BY <1>1, NatLessThanWellFounded

(* A set with 0, and with the successor of all it has, has all numbers.    *)
LEMMA AllNumbers ==
  ASSUME NEW S, 0 \in S, \A n \in Nat : n \in S => n + 1 \in S
  PROVE  \A n \in Nat : n \in S
<1> DEFINE T == {n \in Nat : n \notin S}
<1>1. SUFFICES ASSUME T # {} PROVE FALSE
  OBVIOUS
<1>2. PICK x \in T : \A y \in T : ~ (<<y, x>> \in Below)
  BY <1>1, BelowWellFounded, WFMin, Zenon
<1>3. x \in Nat /\ x \notin S /\ x # 0
  OBVIOUS
<1>4. x - 1 \in Nat /\ <<x - 1, x>> \in Below
  BY <1>3 DEF Below
<1>5. x - 1 \in S
  BY <1>2, <1>4
<1> QED
  BY <1>3, <1>4, <1>5

(* A function that starts with a and that G says how to go on with.        *)
Recurs(f, N, T, a, G) == f \in [0 .. N -> T] /\ f[0] = a /\ \A n \in 1 .. N : f[n] = G[<<f[n - 1], n>>]

LEMMA Recursion ==
  ASSUME NEW N \in Nat, NEW T, NEW a \in T, NEW G \in [T \X (1 .. N) -> T]
  PROVE  \E f : Recurs(f, N, T, a, G)
<1> DEFINE Good(n, f) == f[0] = a /\ \A i \in 1 .. n : f[i] = G[<<f[i - 1], i>>]
           S == {n \in Nat : n <= N => \E f \in [0 .. n -> T] : Good(n, f)}
<1>1. 0 \in S
  <2>1. [i \in 0 .. 0 |-> a] \in [0 .. 0 -> T]
    OBVIOUS
  <2>2. Good(0, [i \in 0 .. 0 |-> a])
    OBVIOUS
  <2> QED
    BY <2>1, <2>2
<1>2. ASSUME NEW n \in Nat, n \in S PROVE n + 1 \in S
  <2> SUFFICES ASSUME n + 1 <= N PROVE \E f \in [0 .. n + 1 -> T] : Good(n + 1, f)
    OBVIOUS
  <2>1. PICK g \in [0 .. n -> T] : Good(n, g)
    BY <1>2
  <2> DEFINE h == [i \in 0 .. n + 1 |-> IF i <= n THEN g[i] ELSE G[<<g[n], n + 1>>]]
  <2>2. g[n] \in T /\ n + 1 \in 1 .. N
    OBVIOUS
  <2>3. G[<<g[n], n + 1>>] \in T
    BY <2>2
  <2>4. h \in [0 .. n + 1 -> T]
    BY <2>3
  <2>5. h[0] = a
    BY <2>1
  <2>6. ASSUME NEW i \in 1 .. n + 1 PROVE h[i] = G[<<h[i - 1], i>>]
    <3>1. CASE i <= n
      <4>1. i \in 1 .. n /\ i - 1 \in 0 .. n + 1 /\ i - 1 <= n /\ i \in 0 .. n + 1
        BY <3>1
      <4>2. h[i] = g[i] /\ h[i - 1] = g[i - 1]
        BY <3>1, <4>1
      <4> QED
        BY <2>1, <4>1, <4>2
    <3>2. CASE i = n + 1
      <4>1. i \in 0 .. n + 1 /\ ~(i <= n) /\ i - 1 = n /\ n <= n /\ n \in 0 .. n + 1
        BY <3>2
      <4>2. h[i] = G[<<g[n], n + 1>>] /\ h[n] = g[n]
        BY <4>1
      <4> QED
        BY <3>2, <4>1, <4>2
    <3> QED
      BY <3>1, <3>2
  <2> QED
    BY <2>4, <2>5, <2>6
<1> HIDE DEF S
<1>3. N \in S
  BY <1>1, <1>2, AllNumbers
<1> QED
  BY <1>3 DEF S, Recurs

(* FlattenSeq puts the parts one behind the other.                         *)
Joins(f, q, T) ==
  f \in [0 .. Len(q) -> Seq(T)] /\ f[0] = <<>> /\ \A n \in 1 .. Len(q) : f[n] = f[n - 1] \o q[n]

LEMMA JoinsExist == ASSUME NEW T, NEW q \in Seq(Seq(T)) PROVE \E f : Joins(f, q, T)
<1> DEFINE U == Seq(T)
           N == Len(q)
           G == [x \in U \X (1 .. N) |-> x[1] \o q[x[2]]]
<1>1. N \in Nat /\ <<>> \in U /\ \A n \in 1 .. N : q[n] \in U
  OBVIOUS
<1>2. \A u, v \in U : u \o v \in U
  OBVIOUS
<1> HIDE DEF U, N
<1>3. G \in [U \X (1 .. N) -> U]
  BY <1>1, <1>2
<1>4. \A u \in U, n \in 1 .. N : G[<<u, n>>] = u \o q[n]
  OBVIOUS
<1> HIDE DEF G
<1>5. PICK f \in [0 .. N -> U] : f[0] = <<>> /\ \A n \in 1 .. N : f[n] = G[<<f[n - 1], n>>]
  <2>1. PICK e : e = <<>>
    OBVIOUS
  <2>2. e \in U
    BY <1>1, <2>1
  <2>3. \E f : Recurs(f, N, U, e, G)
    BY <1>1, <1>3, <2>2, Recursion
  <2> QED
    BY <2>1, <2>3 DEF Recurs
<1>6. \A n \in 1 .. N : f[n] = f[n - 1] \o q[n]
  <2> TAKE n \in 1 .. N
  <2>1. n - 1 \in 0 .. N
    BY <1>1
  <2> QED
    BY <1>4, <1>5, <2>1
<1> QED
  BY <1>5, <1>6 DEF Joins, U, N

LEMMA FlattenIsJoin ==
  ASSUME NEW T, NEW q \in Seq(Seq(T)), NEW f, Joins(f, q, T)
  PROVE  FlattenSeq(q) = f[Len(q)]
<1> DEFINE U == Seq(T)
           N == Len(q)
<1>1. /\ N \in Nat /\ \A n \in 1 .. N : q[n] \in U
      /\ f \in [0 .. N -> U] /\ f[0] = <<>> /\ \A n \in 1 .. N : f[n] = f[n - 1] \o q[n]
  BY DEF Joins
<1>2. \A u \in U : <<>> \o u = u
  OBVIOUS
<1>3. N = 0 => q = <<>>
  OBVIOUS
<1>4. FlattenSeq(q) = IF N = 0 THEN q
        ELSE LET g[i \in 1 .. N] == IF i = 1 THEN q[i] ELSE g[i - 1] \o q[i] IN g[N]
  BY DEF FlattenSeq
<1> HIDE DEF U, N
<1>5. CASE N = 0
  BY <1>1, <1>3, <1>4, <1>5
<1>6. CASE N # 0
  <2> DEFINE Eq(g) == g = [i \in 1 .. N |-> IF i = 1 THEN q[i] ELSE g[i - 1] \o q[i]]
             F == CHOOSE g : Eq(g)
             p == [i \in 1 .. N |-> f[i]]
  <2>1. Eq(p)
    <3>1. ASSUME NEW i \in 1 .. N PROVE p[i] = IF i = 1 THEN q[i] ELSE p[i - 1] \o q[i]
      <4>1. p[i] = f[i] /\ f[i] = f[i - 1] \o q[i] /\ q[i] \in U
        BY <1>1
      <4>2. CASE i = 1
        <5>1. i - 1 = 0
          BY <4>2
        <5>2. f[i] = <<>> \o q[i]
          BY <1>1, <4>1, <5>1, Zenon
        <5> QED
          BY <1>2, <4>1, <4>2, <5>2
      <4>3. CASE i # 1
        <5>1. i - 1 \in 1 .. N
          BY <1>1, <4>3
        <5>2. p[i - 1] = f[i - 1]
          BY <5>1
        <5> QED
          BY <4>1, <4>3, <5>2
      <4> QED
        BY <4>2, <4>3
    <3>2. p = [i \in 1 .. N |-> p[i]]
      OBVIOUS
    <3> HIDE DEF p
    <3> QED
      BY <3>1, <3>2
  <2>2. Eq(F)
    <3> HIDE DEF Eq, p
    <3> QED
      BY <2>1, Zenon
  <2>3. FlattenSeq(q) = F[N]
    BY <1>4, <1>6, Zenon
  <2> HIDE DEF F, p
  <2>4. \A i \in 1 .. N : F[i] = IF i = 1 THEN q[i] ELSE F[i - 1] \o q[i]
    BY <2>2
  <2> DEFINE S == {n \in Nat : n + 1 \in 1 .. N => F[n + 1] = f[n + 1]}
  <2>5. 0 \in S
    <3>1. F[1] = q[1] /\ 1 \in 1 .. N
      BY <1>1, <1>6, <2>4
    <3>2. f[1] = f[1 - 1] \o q[1] /\ q[1] \in U
      BY <1>1, <3>1, Zenon
    <3>3. 1 - 1 = 0
      OBVIOUS
    <3>4. f[1] = <<>> \o q[1]
      BY <1>1, <3>2, <3>3, Zenon
    <3>5. F[1] = f[1]
      BY <1>2, <3>1, <3>2, <3>4
    <3> QED
      BY <3>5
  <2>6. ASSUME NEW n \in Nat, n \in S PROVE n + 1 \in S
    <3>1. SUFFICES ASSUME (n + 1) + 1 \in 1 .. N PROVE F[(n + 1) + 1] = f[(n + 1) + 1]
      OBVIOUS
    <3> DEFINE i == (n + 1) + 1
    <3>2. i \in 1 .. N /\ i # 1 /\ i - 1 = n + 1 /\ n + 1 \in 1 .. N
      BY <1>1, <3>1
    <3>3. F[n + 1] = f[n + 1]
      BY <2>6, <3>2
    <3> HIDE DEF i
    <3>4. F[i] = F[i - 1] \o q[i] /\ f[i] = f[i - 1] \o q[i]
      BY <1>1, <2>4, <3>2
    <3>5. F[i] = f[i]
      BY <3>2, <3>3, <3>4
    <3> QED
      BY <3>5 DEF i
  <2> HIDE DEF S
  <2>7. N - 1 \in S
    <3>1. N - 1 \in Nat
      BY <1>1, <1>6
    <3> QED
      BY <2>5, <2>6, <3>1, AllNumbers
  <2>8. F[N] = f[N]
    <3>1. (N - 1) + 1 = N /\ N \in 1 .. N
      BY <1>1, <1>6
    <3> QED
      BY <2>7, <3>1 DEF S
  <2> QED
    BY <2>3, <2>8 DEF N
<1> QED
  BY <1>5, <1>6

(* What is joined later comes behind.                                      *)
GoesOn(f, m, n, T) == \E rest \in T : f[n] = f[m] \o rest

LEMMA JoinsGrow ==
  ASSUME NEW T, NEW q \in Seq(Seq(T)), NEW f, Joins(f, q, T)
  PROVE  \A m, n \in 0 .. Len(q) : m <= n => GoesOn(f, m, n, Seq(T))
<1> DEFINE U == Seq(T)
           N == Len(q)
<1>1. /\ N \in Nat /\ \A n \in 1 .. N : q[n] \in U
      /\ f \in [0 .. N -> U] /\ \A n \in 1 .. N : f[n] = f[n - 1] \o q[n]
  BY DEF Joins
<1>2. \A u \in U : u \o <<>> = u /\ <<>> \in U
  OBVIOUS
<1>9. \A u, v, w \in U : u \o v \in U /\ (u \o v) \o w = u \o (v \o w)
  OBVIOUS
<1> HIDE DEF U, N
<1> SUFFICES ASSUME NEW m \in 0 .. N PROVE \A n \in 0 .. N : m <= n => GoesOn(f, m, n, U)
  BY DEF U, N
<1> DEFINE S == {n \in Nat : m <= n /\ n <= N => GoesOn(f, m, n, U)}
<1>3. m \in Nat /\ f[m] \in U
  BY <1>1
<1>4. GoesOn(f, m, m, U)
  BY <1>2, <1>3 DEF GoesOn
<1>5. 0 \in S
  BY <1>3, <1>4
<1>6. ASSUME NEW n \in Nat, n \in S PROVE n + 1 \in S
  <2> SUFFICES ASSUME m <= n + 1, n + 1 <= N PROVE GoesOn(f, m, n + 1, U)
    OBVIOUS
  <2>1. CASE m = n + 1
    BY <1>4, <2>1
  <2>2. CASE m <= n
    <3>0. m <= n /\ n <= N => GoesOn(f, m, n, U)
      BY <1>6, Zenon
    <3>1. PICK r \in U : f[n] = f[m] \o r
      <4>1. GoesOn(f, m, n, U)
        BY <1>1, <2>2, <3>0, n + 1 <= N
      <4> QED
        BY <4>1, Zenon DEF GoesOn
    <3>2. n + 1 \in 1 .. N /\ (n + 1) - 1 = n
      BY <1>1
    <3>3. f[n + 1] = f[n] \o q[n + 1] /\ q[n + 1] \in U
      BY <1>1, <3>2
    <3>4. PICK a, b : a = f[m] /\ b = q[n + 1]
      OBVIOUS
    <3>5. (a \o r) \o b = a \o (r \o b) /\ r \o b \in U
      <4>1. a \in U /\ b \in U
        BY <1>3, <3>1, <3>3, <3>4
      <4> QED
        BY <1>9, <3>1, <4>1
    <3> QED
      BY <3>1, <3>3, <3>4, <3>5 DEF GoesOn
  <2> QED
    BY <1>3, <2>1, <2>2
<1> HIDE DEF S
<1>7. \A n \in Nat : n \in S
  BY <1>5, <1>6, AllNumbers
<1>8. ASSUME NEW n \in 0 .. N, m <= n PROVE GoesOn(f, m, n, U)
  <2>1. n \in Nat /\ n <= N
    BY <1>1
  <2> QED
    BY <1>7, <1>8, <2>1 DEF S
<1> QED
  BY <1>8

-----------------------------------------------------------------------------
(* The stream of a script.                                                 *)

LEMMA ScriptType ==
  ASSUME TypeOK
  PROVE  /\ script \in Seq(Items)
         /\ \A n \in DOMAIN script : WellFormed(script[n])
         /\ Separated(script)
<1> DEFINE W == {item \in Items : WellFormed(item)}
<1>1. script \in {s \in Seq(W) : Separated(s)}
  BY ScriptsAssumption, Zenon DEF TypeOK
<1>2. \A x \in W : x \in Items /\ WellFormed(x)
  OBVIOUS
<1> HIDE DEF W
<1>3. script \in Seq(W) /\ Separated(script)
  BY <1>1
<1>4. \A n \in DOMAIN script : script[n] \in W
  BY <1>3
<1>5. script \in Seq(Items)
  BY <1>2, <1>3
<1> QED
  BY <1>2, <1>3, <1>4, <1>5

(* The whole of what the device sends, and where each item of it ends.     *)
Stream(full, ends) ==
  /\ ends \in [0 .. Len(script) -> Nat] /\ ends[0] = 0
  /\ \A n \in 1 .. Len(script) : ends[n] = ends[n - 1] + Len(Wire(script[n]))
  /\ \A m, n \in 0 .. Len(script) : m <= n => ends[m] <= ends[n]
  /\ \A n \in 1 .. Len(script), x \in Nat :
       x \in 1 .. Len(Wire(script[n])) => full[ends[n - 1] + x] = Wire(script[n])[x]

LEMMA StreamExists == ASSUME TypeOK PROVE \E full, ends : Stream(full, ends)
<1> DEFINE N == Len(script)
           q == [n \in 1 .. N |-> Wire(script[n])]
           U == Seq(Byte)
<1>1. N \in Nat /\ DOMAIN script = 1 .. N
  BY ScriptType
<1>2. \A n \in 1 .. N : Wire(script[n]) \in U
  BY <1>1, ScriptType, WireType
<1> HIDE DEF N
<1>3. q \in Seq(U) /\ Len(q) = N
  <2> HIDE DEF U
  <2> QED
    BY <1>1, <1>2
<1>4. \A n \in 1 .. N : q[n] = Wire(script[n])
  OBVIOUS
<1> HIDE DEF q
<1>5. PICK f : Joins(f, q, Byte)
  BY <1>3, JoinsExist
<1>6. /\ f \in [0 .. N -> U] /\ f[0] = <<>>
      /\ \A n \in 1 .. N : f[n] = f[n - 1] \o q[n]
  BY <1>3, <1>5 DEF Joins
<1>7. \A m, n \in 0 .. N : m <= n => GoesOn(f, m, n, U)
  BY <1>3, <1>5, JoinsGrow
<1>8. \A u, v \in U : /\ u \o v \in U /\ Len(u) \in Nat /\ Len(u \o v) = Len(u) + Len(v) /\ Len(u) <= Len(u \o v)
                      /\ \A x \in 1 .. Len(u) : (u \o v)[x] = u[x]
                      /\ \A x \in 1 .. Len(v) : Len(u) + x \in 1 .. Len(u \o v) /\ (u \o v)[Len(u) + x] = v[x]
  OBVIOUS
<1>9. Len(<<>>) = 0
  OBVIOUS
<1> HIDE DEF U
<1> DEFINE ends == [n \in 0 .. N |-> Len(f[n])]
<1>10. ends \in [0 .. N -> Nat] /\ ends[0] = 0
  BY <1>1, <1>6, <1>8, <1>9
<1>11. ASSUME NEW n \in 1 .. N
       PROVE  /\ ends[n] = ends[n - 1] + Len(Wire(script[n]))
              /\ \A x \in Nat : x \in 1 .. Len(Wire(script[n])) => f[N][ends[n - 1] + x] = Wire(script[n])[x]
  <2>1. n - 1 \in 0 .. N /\ n \in 0 .. N /\ N \in 0 .. N /\ n <= N
    BY <1>1
  <2>2. f[n - 1] \in U /\ f[n] = f[n - 1] \o q[n] /\ q[n] \in U /\ f[n] \in U
    BY <1>2, <1>4, <1>6, <2>1
  <2>3. PICK r \in U : f[N] = f[n] \o r
    BY <1>7, <2>1 DEF GoesOn
  <2>4. ends[n - 1] = Len(f[n - 1]) /\ ends[n] = Len(f[n])
    BY <2>1
  <2> HIDE DEF ends
  <2>5. ends[n] = ends[n - 1] + Len(q[n])
    BY <1>8, <2>2, <2>4
  <2>6. ASSUME NEW x \in 1 .. Len(q[n]) PROVE f[N][ends[n - 1] + x] = q[n][x]
    <3>0. PICK u, v, w \in U : u = f[n - 1] /\ v = q[n] /\ w = f[n]
      BY <2>2
    <3>1. Len(u) + x \in 1 .. Len(w) /\ w[Len(u) + x] = v[x]
      <4>1. w = u \o v /\ x \in 1 .. Len(v)
        BY <2>2, <3>0
      <4> QED
        BY <1>8, <4>1
    <3>2. (w \o r)[Len(u) + x] = w[Len(u) + x]
      BY <1>8, <3>1
    <3> QED
      BY <2>3, <2>4, <3>0, <3>1, <3>2
  <2> QED
    BY <1>4, <2>5, <2>6
<1>12. ASSUME NEW m \in 0 .. N, NEW n \in 0 .. N, m <= n PROVE ends[m] <= ends[n]
  <2>1. PICK r \in U : f[n] = f[m] \o r
    BY <1>7, <1>12 DEF GoesOn
  <2>2. f[m] \in U
    BY <1>6
  <2> QED
    BY <1>8, <2>1, <2>2
<1> HIDE DEF ends
<1>13. Stream(f[N], ends)
  BY <1>10, <1>11, <1>12 DEF Stream, N
<1> QED
  BY <1>13

-----------------------------------------------------------------------------
(* The text of a line.                                                     *)

Fit(t) == SubSeq(t, 1, IF Len(t) < MaxLine THEN Len(t) ELSE MaxLine)

(* What is kept of the first bytes of a text.                              *)
Keeps(K, body) ==
  /\ K \in [0 .. Len(body) -> Seq(Byte)] /\ K[0] = <<>>
  /\ \A n \in 1 .. Len(body) : K[n] = IF Printable(body[n]) THEN Append(K[n - 1], body[n]) ELSE K[n - 1]
  /\ Text(body) = Fit(K[Len(body)])

LEMMA KeepsExists == ASSUME NEW body \in Seq(Byte) PROVE \E K : Keeps(K, body)
<1> DEFINE U == Seq(Byte)
           N == Len(body)
           G == [x \in U \X (1 .. N) |-> IF Printable(body[x[2]]) THEN Append(x[1], body[x[2]]) ELSE x[1]]
<1>1. N \in Nat /\ <<>> \in U /\ \A n \in 1 .. N : body[n] \in Byte
  OBVIOUS
<1>2. \A u \in U, b \in Byte : Append(u, b) \in U
  OBVIOUS
<1>3. Text(body) =
        LET kept[n \in 0 .. N] ==
              IF n = 0 THEN <<>> ELSE IF Printable(body[n]) THEN Append(kept[n - 1], body[n]) ELSE kept[n - 1]
        IN Fit(kept[N])
  BY DEF Text, Fit
<1> HIDE DEF U, N
<1>4. G \in [U \X (1 .. N) -> U]
  BY <1>1, <1>2
<1>5. \A u \in U, n \in 1 .. N : G[<<u, n>>] = IF Printable(body[n]) THEN Append(u, body[n]) ELSE u
  OBVIOUS
<1> HIDE DEF G
<1>6. PICK f \in [0 .. N -> U] : f[0] = <<>> /\ \A n \in 1 .. N : f[n] = G[<<f[n - 1], n>>]
  <2>1. PICK e : e = <<>>
    OBVIOUS
  <2>2. e \in U
    BY <1>1, <2>1
  <2>3. \E f : Recurs(f, N, U, e, G)
    BY <1>1, <1>4, <2>2, Recursion
  <2> QED
    BY <2>1, <2>3 DEF Recurs
<1> DEFINE Eq(g) == g = [n \in 0 .. N |->
             IF n = 0 THEN <<>> ELSE IF Printable(body[n]) THEN Append(g[n - 1], body[n]) ELSE g[n - 1]]
           F == CHOOSE g : Eq(g)
<1>7. Eq(f)
  <2>1. ASSUME NEW n \in 0 .. N
        PROVE  f[n] = IF n = 0 THEN <<>> ELSE IF Printable(body[n]) THEN Append(f[n - 1], body[n]) ELSE f[n - 1]
    <3>1. CASE n = 0
      BY <1>6, <3>1
    <3>2. CASE n # 0
      <4>1. n \in 1 .. N /\ n - 1 \in 0 .. N
        BY <1>1, <3>2
      <4> QED
        BY <1>5, <1>6, <3>2, <4>1
    <3> QED
      BY <3>1, <3>2
  <2>2. f = [n \in 0 .. N |-> f[n]]
    BY <1>6
  <2> QED
    BY <2>1, <2>2
<1>8. Eq(F)
  <2> HIDE DEF Eq
  <2> QED
    BY <1>7, Zenon
<1>9. Text(body) = Fit(F[N])
  BY <1>3, Zenon
<1> HIDE DEF F
<1>10. F[0] = <<>> /\ DOMAIN F = 0 .. N
  BY <1>1, <1>8
<1>11. \A n \in 1 .. N : F[n] = IF Printable(body[n]) THEN Append(F[n - 1], body[n]) ELSE F[n - 1]
  <2> TAKE n \in 1 .. N
  <2>1. n \in 0 .. N /\ n # 0
    BY <1>1
  <2> QED
    BY <1>8, <2>1
<1> DEFINE S == {n \in Nat : n <= N => F[n] \in U}
<1>12. 0 \in S
  BY <1>1, <1>10
<1>13. ASSUME NEW n \in Nat, n \in S PROVE n + 1 \in S
  <2> SUFFICES ASSUME n + 1 <= N PROVE F[n + 1] \in U
    OBVIOUS
  <2>1. n + 1 \in 1 .. N /\ (n + 1) - 1 = n /\ F[n] \in U
    BY <1>1, <1>13
  <2>2. F[n + 1] = IF Printable(body[n + 1]) THEN Append(F[n], body[n + 1]) ELSE F[n]
    BY <1>11, <2>1
  <2> QED
    BY <1>1, <1>2, <2>1, <2>2
<1> HIDE DEF S
<1>14. \A n \in Nat : n \in S
  BY <1>12, <1>13, AllNumbers
<1>15. F \in [0 .. N -> U]
  <2>1. \A n \in 0 .. N : F[n] \in U
    BY <1>1, <1>14 DEF S
  <2>2. F = [n \in 0 .. N |-> F[n]]
    BY <1>8
  <2> QED
    BY <2>1, <2>2
<1>16. Keeps(F, body)
  BY <1>9, <1>10, <1>11, <1>15 DEF Keeps, U, N
<1> QED
  BY <1>16

-----------------------------------------------------------------------------
(* What the reader has taken of the stream.                                *)

(* As long as the mode stays, no test of the position is overtaken.        *)
Steady ==
  /\ setting # "no" => raw
  /\ ~raw =>
       /\ at = "begin" => ~inFrame /\ byte = Marker
       /\ at \in {"length", "lengthStore"} => inFrame /\ pos < 2
       /\ at = "lengthStore" => slot = pos
       /\ at \in {"payload", "load", "payloadStore"} => inFrame /\ pos >= 2
       /\ at \in {"load", "payloadStore"} => offset = pos - 2
       /\ at = "payloadStore" => slot = pos

(* How many bytes were taken apart; those at hand follow, and those on the *)
(* wire, and then the items not written.                                   *)
Done(ends) == ends[Len(script) - Len(todo)] - Len(buf) - Len(wire)
StreamInv(full, ends) ==
  /\ Len(todo) <= Len(script)
  /\ \A i \in Nat : i \in 1 .. Len(todo) => todo[i] = script[Len(script) - Len(todo) + i]
  /\ Done(ends) \in Nat
  /\ \A x \in Nat : x \in 1 .. Len(buf) => buf[x] = full[Done(ends) + x]
  /\ \A x \in Nat : x \in 1 .. Len(wire) => wire[x] = full[Done(ends) + Len(buf) + x]

(* The steps that take a byte.                                             *)
Takes == ScanText \/ Begin \/ StoreLength \/ StorePayload
(* Those of the reader that take none, and SetRawMode.                     *)
Looks == ScanMarker \/ ScanFrame \/ LoadLength \/ InPayload \/ LoadPayload \/ SetRawMode \/ UNCHANGED vars

LEMMA NextKinds == ASSUME [Next]_vars PROVE Write \/ Read \/ Takes \/ Looks
BY DEF Next, Reader, Takes, Looks

LEMMA TakesFacts ==
  ASSUME Takes
  PROVE  Consume /\ at \in {"scan", "begin", "lengthStore", "payloadStore"} /\ UNCHANGED <<script, todo, wire, raw, setting>>
BY DEF Takes, ScanText, Begin, StoreLength, StorePayload

LEMMA LooksFacts == ASSUME Looks PROVE UNCHANGED <<script, todo, wire, buf, delivered, line>>
BY DEF Looks, ScanMarker, ScanFrame, LoadLength, LoadPayload, Load, InPayload, SetRawMode, SetRaw, SetNoFrame, SetNoPos,
  vars, outVars

LEMMA ScriptStays == ASSUME [Next]_vars PROVE script' = script
BY NextKinds, TakesFacts, LooksFacts DEF Write, Read

LEMMA SteadyStep == ASSUME IInv, Steady, [Next]_vars PROVE Steady'
<1> USE DEF Steady, IInv, outVars, frameVars, readerVars
<1>1. CASE Write
  BY <1>1 DEF Write, byte
<1>2. CASE Read
  BY <1>2 DEF Read
<1>3. CASE Takes
  <2>1. at' \in {"read", "scan"} /\ UNCHANGED <<raw, setting>>
    BY <1>3, TakesFacts DEF Consume
  <2> QED
    BY <2>1
<1>4. CASE ScanMarker
  BY <1>4 DEF ScanMarker, StartsFrame, byte
<1>5. CASE ScanFrame
  BY <1>5 DEF ScanFrame, TypeOK
<1>6. CASE LoadLength
  BY <1>6 DEF LoadLength, Load
<1>7. CASE LoadPayload
  BY <1>7 DEF LoadPayload, Load
<1>8. CASE InPayload
  BY <1>8 DEF InPayload
<1>9. CASE SetRawMode
  BY <1>9 DEF SetRawMode, SetRaw, SetNoFrame, SetNoPos
<1>10. CASE UNCHANGED vars
  BY <1>10 DEF vars, byte
<1> QED
  BY <1>1, <1>2, <1>3, <1>4, <1>5, <1>6, <1>7, <1>8, <1>9, <1>10, NextKinds DEF Looks

LEMMA StreamInit ==
  ASSUME Init, TypeOK, NEW full, NEW ends, Stream(full, ends)
  PROVE  StreamInv(full, ends) /\ Done(ends) = 0
<1>1. todo = script /\ buf = <<>> /\ wire = <<>> /\ script \in Seq(Items)
  BY ScriptType DEF Init
<1>2. Len(script) \in Nat /\ Len(script) - Len(todo) = 0 /\ Len(buf) = 0 /\ Len(wire) = 0
  BY <1>1
<1>3. Done(ends) = 0
  BY <1>2 DEF Done, Stream
<1>4. \A i \in Nat : i \in 1 .. Len(todo) => todo[i] = script[Len(script) - Len(todo) + i]
  BY <1>1, <1>2
<1> QED
  BY <1>1, <1>2, <1>3, <1>4 DEF StreamInv

LEMMA StreamWrite ==
  ASSUME IInv, NEW full, NEW ends, Stream(full, ends), StreamInv(full, ends), Write
  PROVE  StreamInv(full, ends)' /\ Done(ends)' = Done(ends)
<1> DEFINE w == Wire(Head(todo))
           n == Len(script) - Len(todo)
<1>1. script \in Seq(Items) /\ todo \in Seq(Items) /\ wire \in Seq(Byte) /\ buf \in Seq(Byte)
  <2>1. todo \in Seq({item \in Items : WellFormed(item)})
    BY DEF IInv, TypeOK
  <2> QED
    BY <2>1, ScriptType DEF IInv, TypeOK
<1>2. todo # <<>> /\ wire' = wire \o w /\ todo' = Tail(todo) /\ script' = script /\ buf' = buf
  BY DEF Write
<1>3. Len(todo) \in Nat /\ Len(todo) > 0 /\ Len(todo') = Len(todo) - 1 /\ Head(todo) = todo[1]
      /\ \A i \in Nat : i \in 1 .. Len(todo') => todo'[i] = todo[i + 1]
  BY <1>1, <1>2
<1>4. n \in Nat /\ n \in 0 .. Len(script) /\ n + 1 \in 1 .. Len(script) /\ Len(script') - Len(todo') = n + 1 /\ todo[1] = script[n + 1]
  <2>1. Len(script) \in Nat
    BY <1>1
  <2>2. todo[1] = script[n + 1]
    BY <1>3 DEF StreamInv
  <2> QED
    BY <1>2, <1>3, <2>1, <2>2 DEF StreamInv
<1>5. w \in Seq(Byte)
  <2>1. WellFormed(script[n + 1]) /\ script[n + 1] \in Items
    BY <1>4, ScriptType DEF IInv
  <2> QED
    BY <2>1, <1>3, <1>4, WireType
<1>6. ends[n + 1] = ends[n] + Len(w) /\ \A x \in Nat : x \in 1 .. Len(w) => full[ends[n] + x] = w[x]
  <2>1. (n + 1) - 1 = n /\ n + 1 \in 1 .. Len(script) /\ w = Wire(script[n + 1])
    BY <1>3, <1>4
  <2> HIDE DEF w, n
  <2>2. /\ ends[n + 1] = ends[(n + 1) - 1] + Len(Wire(script[n + 1]))
        /\ \A x \in Nat : x \in 1 .. Len(Wire(script[n + 1])) =>
             full[ends[(n + 1) - 1] + x] = Wire(script[n + 1])[x]
    BY <2>1, Zenon DEF Stream
  <2> QED
    BY <2>1, <2>2
<1> HIDE DEF w, n
<1>7. ends[n] \in Nat
  BY <1>4 DEF Stream
<1>8. Done(ends) = ends[n] - Len(buf) - Len(wire) /\ Done(ends)' = ends[n + 1] - Len(buf) - Len(wire')
  BY <1>2, <1>4 DEF Done, n
<1>9. Len(wire') = Len(wire) + Len(w) /\ Len(wire) \in Nat /\ Len(w) \in Nat /\ Len(buf) \in Nat
      /\ \A x \in Nat : x \in 1 .. Len(wire') =>
           IF x <= Len(wire) THEN x \in 1 .. Len(wire) /\ wire'[x] = wire[x]
           ELSE x - Len(wire) \in 1 .. Len(w) /\ wire'[x] = w[x - Len(wire)]
  BY <1>1, <1>2, <1>5
<1>10. Done(ends)' = Done(ends)
  BY <1>6, <1>7, <1>8, <1>9
<1>11. ASSUME NEW x \in Nat, x \in 1 .. Len(wire') PROVE wire'[x] = full[Done(ends) + Len(buf) + x]
  <2>1. CASE x <= Len(wire)
    BY <1>9, <1>11, <2>1 DEF StreamInv
  <2>2. CASE ~(x <= Len(wire))
    <3>1. x - Len(wire) \in Nat /\ x - Len(wire) \in 1 .. Len(w) /\ wire'[x] = w[x - Len(wire)]
      BY <1>9, <1>11, <2>2
    <3>2. ends[n] + (x - Len(wire)) = Done(ends) + Len(buf) + x
      BY <1>7, <1>8, <1>9
    <3> QED
      BY <1>6, <3>1, <3>2
  <2> QED
    BY <2>1, <2>2
<1>12. ASSUME NEW i \in Nat, i \in 1 .. Len(todo') PROVE todo'[i] = script[(n + 1) + i]
  <2>1. i + 1 \in Nat /\ i + 1 \in 1 .. Len(todo) /\ todo'[i] = todo[i + 1]
    BY <1>3, <1>12
  <2>2. todo[i + 1] = script[n + (i + 1)]
    BY <2>1 DEF StreamInv, n
  <2>3. n + (i + 1) = (n + 1) + i
    BY <1>4
  <2> QED
    BY <2>1, <2>2, <2>3
<1>13. Len(todo') <= Len(script)
  BY <1>3 DEF StreamInv
<1>14. \A i \in Nat : i \in 1 .. Len(todo') => todo'[i] = script'[Len(script') - Len(todo') + i]
  BY <1>2, <1>4, <1>12
<1> QED
  BY <1>2, <1>10, <1>11, <1>13, <1>14 DEF StreamInv

LEMMA StreamRead ==
  ASSUME IInv, NEW full, NEW ends, Stream(full, ends), StreamInv(full, ends), Read, buf = <<>>
  PROVE  StreamInv(full, ends)' /\ Done(ends)' = Done(ends)
<1>1. PICK n \in 1 .. MaxRead :
        n <= Len(wire) /\ buf' = SubSeq(wire, 1, n) /\ wire' = SubSeq(wire, n + 1, Len(wire))
  BY DEF Read
<1>2. wire \in Seq(Byte) /\ script' = script /\ todo' = todo
  BY DEF Read, IInv, TypeOK
<1>3. /\ Len(wire) \in Nat /\ Len(buf') = n /\ Len(wire') = Len(wire) - n
      /\ \A x \in Nat : x \in 1 .. n => buf'[x] = wire[x]
      /\ \A x \in Nat : x \in 1 .. Len(wire) - n => wire'[x] = wire[n + x]
  BY <1>1, <1>2
<1>4. Done(ends)' = Done(ends)
  <2>1. PICK e : e = ends[Len(script) - Len(todo)]
    OBVIOUS
  <2>2. Done(ends) = e - Len(wire) /\ Done(ends) \in Nat
    <3>1. Len(buf) = 0
      OBVIOUS
    <3>2. Len(script) - Len(todo) \in 0 .. Len(script)
      <4>1. Len(todo) \in Nat /\ Len(script) \in Nat
        <5>1. todo \in Seq({item \in Items : WellFormed(item)})
          BY DEF IInv, TypeOK
        <5> QED
          BY <5>1, ScriptType DEF IInv
      <4> QED
        BY <4>1 DEF StreamInv
    <3>3. e \in Nat
      BY <2>1, <3>2 DEF Stream
    <3> QED
      BY <2>1, <1>3, <3>1, <3>3 DEF Done, StreamInv
  <2>3. Done(ends)' = e - n - (Len(wire) - n)
    BY <1>2, <1>3, <2>1 DEF Done
  <2>4. e \in Nat
      <4>1. Len(todo) \in Nat /\ Len(script) \in Nat
        <5>1. todo \in Seq({item \in Items : WellFormed(item)})
          BY DEF IInv, TypeOK
        <5> QED
          BY <5>1, ScriptType DEF IInv
      <4> QED
        BY <2>1, <4>1 DEF StreamInv, Stream
  <2> QED
    BY <1>1, <1>3, <2>2, <2>3, <2>4
<1>5. Done(ends) \in Nat /\ Len(buf) = 0
  BY DEF StreamInv
<1>6. ASSUME NEW x \in Nat, x \in 1 .. n PROVE buf'[x] = full[Done(ends) + x]
  <2>1. wire[x] = full[Done(ends) + Len(buf) + x]
    BY <1>1, <1>3, <1>6 DEF StreamInv
  <2>2. Done(ends) + Len(buf) + x = Done(ends) + x
    BY <1>5
  <2> QED
    BY <1>3, <1>6, <2>1, <2>2
<1>7. ASSUME NEW x \in Nat, x \in 1 .. Len(wire) - n PROVE wire'[x] = full[Done(ends) + n + x]
  <2>1. n + x \in Nat /\ n + x \in 1 .. Len(wire)
    BY <1>1, <1>3, <1>7
  <2>2. wire[n + x] = full[Done(ends) + Len(buf) + (n + x)]
    BY <2>1 DEF StreamInv
  <2>3. Done(ends) + Len(buf) + (n + x) = Done(ends) + n + x
    BY <1>5, <2>1
  <2> QED
    BY <1>3, <1>7, <2>2, <2>3
<1> QED
  BY <1>2, <1>3, <1>4, <1>6, <1>7 DEF StreamInv

(* The byte at hand is the next of the stream.                             *)
LEMMA ByteAtHand ==
  ASSUME IInv, NEW full, NEW ends, Stream(full, ends), StreamInv(full, ends), at # "read"
  PROVE  byte = full[Done(ends) + 1] /\ Done(ends) < ends[Len(script)]
<1>1. buf \in Seq(Byte) /\ Len(buf) > 0 /\ wire \in Seq(Byte)
  BY DEF IInv, TypeOK, ByteInv
<1>2. Len(buf) \in Nat /\ byte = buf[1] /\ Len(wire) \in Nat
  BY <1>1 DEF byte
<1>3. Len(todo) \in Nat /\ Len(script) \in Nat
  <2>1. todo \in Seq({item \in Items : WellFormed(item)})
    BY DEF IInv, TypeOK
  <2> QED
    BY <2>1, ScriptType DEF IInv
<1>4. PICK e \in Nat : e = ends[Len(script) - Len(todo)] /\ e <= ends[Len(script)] /\ ends[Len(script)] \in Nat
  <2>1. Len(script) - Len(todo) \in 0 .. Len(script) /\ Len(script) \in 0 .. Len(script)
        /\ Len(script) - Len(todo) <= Len(script)
    BY <1>3 DEF StreamInv
  <2> QED
    BY <2>1 DEF Stream
<1>5. Done(ends) = e - Len(buf) - Len(wire) /\ Done(ends) \in Nat
  BY <1>4 DEF Done, StreamInv
<1>6. byte = full[Done(ends) + 1]
  BY <1>1, <1>2 DEF StreamInv
<1> QED
  BY <1>1, <1>2, <1>4, <1>5, <1>6

LEMMA StreamTakes ==
  ASSUME IInv, NEW full, NEW ends, Stream(full, ends), StreamInv(full, ends), Takes
  PROVE  StreamInv(full, ends)' /\ Done(ends)' = Done(ends) + 1
<1>1. buf \in Seq(Byte) /\ Len(buf) > 0 /\ wire \in Seq(Byte)
  BY TakesFacts DEF IInv, TypeOK, ByteInv
<1>2. buf' = Tail(buf) /\ script' = script /\ todo' = todo /\ wire' = wire
  BY TakesFacts DEF Consume
<1>3. /\ Len(buf) \in Nat /\ Len(buf') = Len(buf) - 1 /\ byte = buf[1] /\ Len(wire) \in Nat
      /\ \A x \in Nat : x \in 1 .. Len(buf) - 1 => buf'[x] = buf[x + 1]
  BY <1>1, <1>2 DEF byte
<1>4. Len(todo) \in Nat /\ Len(script) \in Nat
  <2>1. todo \in Seq({item \in Items : WellFormed(item)})
    BY DEF IInv, TypeOK
  <2> QED
    BY <2>1, ScriptType DEF IInv
<1>5. PICK e \in Nat : e = ends[Len(script) - Len(todo)]
  <2>1. Len(script) - Len(todo) \in 0 .. Len(script)
    BY <1>4 DEF StreamInv
  <2> QED
    BY <2>1 DEF Stream
<1>6. Done(ends) = e - Len(buf) - Len(wire) /\ Done(ends) \in Nat
  BY <1>5 DEF Done, StreamInv
<1>7. Done(ends)' = e - Len(buf') - Len(wire)
  BY <1>2, <1>5 DEF Done
<1>8. Done(ends)' = Done(ends) + 1 /\ Done(ends)' \in Nat
  <2>1. PICK b \in Nat, w \in Nat : b = Len(buf) /\ w = Len(wire)
    BY <1>3
  <2>2. Done(ends) = e - b - w /\ Done(ends)' = e - (b - 1) - w
    BY <1>3, <1>6, <1>7, <2>1
  <2>3. e \in Int /\ b \in Int /\ w \in Int
    BY <1>5, <2>1
  <2>4. e - (b - 1) - w = (e - b - w) + 1
    BY ONLY <2>3
  <2> QED
    BY <1>6, <2>2, <2>4
<1>11. ASSUME NEW x \in Nat, x \in 1 .. Len(buf') PROVE buf'[x] = full[Done(ends)' + x]
  <2>1. x + 1 \in Nat /\ x + 1 \in 1 .. Len(buf) /\ buf'[x] = buf[x + 1]
    BY <1>3, <1>11
  <2>2. buf[x + 1] = full[Done(ends) + (x + 1)]
    BY <2>1 DEF StreamInv
  <2>3. Done(ends) + (x + 1) = Done(ends)' + x
    BY <1>6, <1>8
  <2> QED
    BY <2>1, <2>2, <2>3
<1>12. ASSUME NEW x \in Nat, x \in 1 .. Len(wire) PROVE wire[x] = full[Done(ends)' + Len(buf') + x]
  <2>1. wire[x] = full[Done(ends) + Len(buf) + x]
    BY <1>12 DEF StreamInv
  <2>2. Done(ends) + Len(buf) + x = Done(ends)' + Len(buf') + x
    BY <1>3, <1>6, <1>8
  <2> QED
    BY <2>1, <2>2
<1> QED
  BY <1>2, <1>8, <1>11, <1>12 DEF StreamInv

LEMMA StreamLooks ==
  ASSUME NEW full, NEW ends, StreamInv(full, ends), Looks
  PROVE  StreamInv(full, ends)' /\ Done(ends)' = Done(ends)
BY LooksFacts DEF StreamInv, Done

(* Between two reads nothing is at hand.                                   *)
EmptyInv == at = "read" => buf = <<>>

LEMMA EmptyStep == ASSUME IInv, EmptyInv, [Next]_vars PROVE EmptyInv'
<1> USE DEF EmptyInv
<1>1. CASE Write
  BY <1>1 DEF Write, readerVars
<1>2. CASE Read
  BY <1>2 DEF Read
<1>3. CASE Takes
  <2>1. buf \in Seq(Byte) /\ Len(buf) > 0 /\ buf' = Tail(buf) /\ (at' = "read" => Len(buf) = 1)
    BY <1>3, TakesFacts DEF IInv, TypeOK, ByteInv, Consume
  <2>2. Len(buf) = 1 => Tail(buf) = <<>>
    BY <2>1
  <2> QED
    BY <2>1, <2>2
<1>4. CASE Looks
  <2>1. at' = "read" => at = "read"
    BY <1>4 DEF Looks, ScanMarker, ScanFrame, LoadLength, LoadPayload, Load, InPayload, SetRawMode, SetRaw, SetNoFrame,
       SetNoPos, vars, readerVars
  <2> QED
    BY <1>4, <2>1, LooksFacts
<1> QED
  BY <1>1, <1>2, <1>3, <1>4, NextKinds

(* A step takes the next byte of the stream, or none.                      *)
LEMMA StreamStep ==
  ASSUME IInv, EmptyInv, NEW full, NEW ends, Stream(full, ends), StreamInv(full, ends), [Next]_vars
  PROVE  /\ StreamInv(full, ends)'
         /\ ~Takes => Done(ends)' = Done(ends)
BY StreamWrite, StreamRead, StreamTakes, StreamLooks, NextKinds DEF EmptyInv, Read

-----------------------------------------------------------------------------
(* Items, their bytes and their meaning.                                   *)

LEMMA ItemFacts ==
  ASSUME TypeOK, NEW n \in 1 .. Len(script)
  PROVE  /\ script[n] \in Items /\ WellFormed(script[n])
         /\ script[n].kind \in Kinds /\ script[n].body \in Seq(Byte) /\ script[n].lo \in Byte /\ script[n].hi \in Byte
         /\ Len(script[n].body) \in Nat
<1>1. script \in Seq(Items) /\ n \in DOMAIN script
  BY ScriptType
<1>2. script[n] \in Items /\ WellFormed(script[n])
  BY <1>1, ScriptType
<1> QED
  BY <1>2 DEF Items

LEMMA WireOfText ==
  ASSUME NEW item \in Items, WellFormed(item), IsText(item)
  PROVE  /\ Len(item.body) \in Nat /\ Len(item.body) > 0
         /\ Len(Wire(item)) = IF item.kind = "line" THEN Len(item.body) + 1 ELSE Len(item.body)
         /\ \A x \in 1 .. Len(item.body) : Wire(item)[x] = item.body[x] /\ item.body[x] \notin {Marker, Newline, Return}
         /\ item.kind = "line" => Wire(item)[Len(item.body) + 1] = Newline
<1>1. item.body \in Seq(Byte) /\ item.body # <<>> /\ item.kind \in {"line", "prompt"}
      /\ \A x \in DOMAIN item.body : item.body[x] \notin {Marker, Newline, Return}
  BY DEF Items, WellFormed, IsText
<1>2. PICK b \in Seq(Byte) : b = item.body
  BY <1>1
<1>3. Wire(item) = <<>> \o (IF item.kind = "line" THEN Append(b, Newline) ELSE b)
  BY <1>1, <1>2 DEF Wire, Header, Rest, IsText
<1>4. Newline \in Byte
  BY DEF Newline, Byte
<1>5. <<>> \o b = b /\ <<>> \o Append(b, Newline) = Append(b, Newline)
  BY <1>2, <1>4
<1>6. Wire(item) = IF item.kind = "line" THEN Append(b, Newline) ELSE b
  BY <1>3, <1>5
<1>7. b # <<>> => Len(b) > 0
  BY <1>2
<1> QED
  BY <1>1, <1>2, <1>6, <1>7

LEMMA WireOfFrame ==
  ASSUME NEW item \in Items, WellFormed(item), item.kind = "frame"
  PROVE  /\ Len(item.body) \in Nat /\ Len(Wire(item)) = 3 + Len(item.body)
         /\ Size(item.lo, item.hi) = Len(item.body) /\ Len(item.body) <= MaxPayload
         /\ Wire(item)[1] = Marker /\ Wire(item)[2] = item.lo /\ Wire(item)[3] = item.hi
         /\ \A x \in 1 .. Len(item.body) : Wire(item)[3 + x] = item.body[x]
<1>1. item.body \in Seq(Byte) /\ item.lo \in Byte /\ item.hi \in Byte /\ Marker \in Byte
  BY DEF Items, Marker, Byte
<1>2. PICK b \in Seq(Byte) : b = item.body
  BY <1>1
<1>3. PICK h : h \in Seq(Byte) /\ h = <<Marker, item.lo, item.hi>>
  <2>1. \A x, y, z \in Byte : <<x, y, z>> \in Seq(Byte)
    OBVIOUS
  <2> QED
    BY <1>1, <2>1
<1>4. Wire(item) = h \o b
  BY <1>2, <1>3 DEF Wire, Header, Rest, IsText
<1>5. Len(h) = 3 /\ h[1] = Marker /\ h[2] = item.lo /\ h[3] = item.hi
  BY <1>3
<1>6. /\ Len(h \o b) = Len(h) + Len(b)
      /\ \A x \in 1 .. Len(h) : (h \o b)[x] = h[x]
      /\ \A x \in 1 .. Len(b) : (h \o b)[Len(h) + x] = b[x]
  BY <1>2, <1>3
<1>7. Size(item.lo, item.hi) = Len(item.body) /\ Len(item.body) <= MaxPayload
  BY DEF WellFormed, IsText
<1> QED
  BY <1>1, <1>2, <1>4, <1>5, <1>6, <1>7

(* What was kept of the texts, and what the items after the first s mean.  *)
Texts(Ks) == \A n \in 1 .. Len(script) : Keeps(Ks[n], script[n].body)
Means(M, s) ==
  /\ M \in [0 .. Len(script) - s -> Seq(Posts)] /\ M[0] = <<>>
  /\ \A n \in 1 .. Len(script) - s : M[n] = M[n - 1] \o Meant(s + n)
  /\ M[Len(script) - s] = MeantAfter(s)
Context(s, base, full, ends, M, Ks) ==
  /\ s \in 0 .. Len(script) /\ base \in Seq(Posts)
  /\ Stream(full, ends) /\ Means(M, s) /\ Texts(Ks)
  /\ WholeAfter(s)

(* All that is meant up to item n, behind what was posted before.          *)
UpTo(base, M, s, n) == base \o M[n - s]

LEMMA FitType == ASSUME NEW t \in Seq(Byte) PROVE Fit(t) \in Seq(Byte) /\ Len(Fit(t)) \in Nat /\ Len(Fit(t)) <= MaxLine
BY DEF Fit

LEMMA FitAppend ==
  ASSUME NEW t \in Seq(Byte), NEW b \in Byte
  PROVE  Fit(Append(t, b)) = IF Len(Fit(t)) < MaxLine THEN Append(Fit(t), b) ELSE Fit(t)
<1>1. Len(t) \in Nat /\ Append(t, b) \in Seq(Byte) /\ Len(Append(t, b)) = Len(t) + 1 /\ MaxLine \in Nat
  OBVIOUS
<1>2. CASE Len(t) < MaxLine
  <2>1. Fit(t) = t
    BY <1>1, <1>2 DEF Fit
  <2>2. PICK u \in Seq(Byte) : u = Append(t, b)
    BY <1>1
  <2>3. Len(u) \in Nat /\ Len(u) <= MaxLine /\ (~(Len(u) < MaxLine) => MaxLine = Len(u))
    BY <1>1, <1>2, <2>2
  <2>6. Fit(u) = SubSeq(u, 1, Len(u))
    BY <2>3 DEF Fit
  <2>4. Fit(Append(t, b)) = SubSeq(Append(t, b), 1, Len(Append(t, b)))
    BY <2>2, <2>6
  <2>5. SubSeq(Append(t, b), 1, Len(Append(t, b))) = Append(t, b)
    BY <1>1
  <2> QED
    BY <1>2, <2>1, <2>4, <2>5
<1>3. CASE ~(Len(t) < MaxLine)
  <2>1. Fit(t) = SubSeq(t, 1, MaxLine) /\ Fit(Append(t, b)) = SubSeq(Append(t, b), 1, MaxLine)
    BY <1>1, <1>3 DEF Fit
  <2>2. SubSeq(t, 1, MaxLine) = SubSeq(Append(t, b), 1, MaxLine) /\ Len(SubSeq(t, 1, MaxLine)) = MaxLine
    BY <1>1, <1>3
  <2>3. Len(Fit(t)) = MaxLine /\ ~(MaxLine < MaxLine)
    BY <1>1, <2>1, <2>2
  <2>4. Fit(Append(t, b)) = Fit(t)
    BY <2>1, <2>2
  <2> QED
    BY <2>3, <2>4, Zenon
<1> QED
  BY <1>2, <1>3

LEMMA TextType ==
  ASSUME NEW body \in Seq(Byte), NEW K, Keeps(K, body)
  PROVE  Text(body) = Fit(K[Len(body)]) /\ Text(body) \in Seq(Byte)
<1>1. K[Len(body)] \in Seq(Byte)
  BY DEF Keeps
<1> QED
  BY <1>1, FitType DEF Keeps

LEMMA LinesType == ASSUME NEW t \in Seq(Byte) PROVE Lines(t) \in Seq(Posts)
<1>1. Post("line", t) \in Posts
  BY DEF Post, Posts
<1> QED
  BY <1>1 DEF Lines

LEMMA MeantType ==
  ASSUME TypeOK, NEW n \in 1 .. Len(script)
  PROVE  Meant(n) \in Seq(Posts)
<1>1. script[n].body \in Seq(Byte)
  BY ItemFacts
<1>2. PICK K : Keeps(K, script[n].body)
  BY <1>1, KeepsExists
<1>3. Lines(Text(script[n].body)) \in Seq(Posts)
  BY <1>1, <1>2, TextType, LinesType
<1>4. Post("frame", script[n].body) \in Posts
  BY <1>1 DEF Post, Posts
<1>5. <<Post("frame", script[n].body)>> \in Seq(Posts) /\ <<>> \in Seq(Posts)
  BY <1>4
<1> QED
  BY <1>3, <1>5 DEF Meant

LEMMA UpToStep ==
  ASSUME TypeOK, NEW s, NEW base, NEW full, NEW ends, NEW M, NEW Ks, Context(s, base, full, ends, M, Ks),
         NEW k \in s + 1 .. Len(script)
  PROVE  /\ UpTo(base, M, s, k) = UpTo(base, M, s, k - 1) \o Meant(k)
         /\ UpTo(base, M, s, k - 1) \in Seq(Posts) /\ Meant(k) \in Seq(Posts)
<1>1. Len(script) \in Nat /\ s \in Nat /\ base \in Seq(Posts)
  BY ScriptType DEF Context
<1>2. k - s \in 1 .. Len(script) - s /\ (k - s) - 1 = (k - 1) - s /\ s + (k - s) = k /\ k \in 1 .. Len(script)
      /\ (k - 1) - s \in 0 .. Len(script) - s
  BY <1>1
<1>3. M[k - s] = M[(k - 1) - s] \o Meant(k) /\ M[(k - 1) - s] \in Seq(Posts)
  <2>1. M[k - s] = M[(k - s) - 1] \o Meant(s + (k - s))
    BY <1>2, Zenon DEF Context, Means
  <2>2. M \in [0 .. Len(script) - s -> Seq(Posts)]
    BY DEF Context, Means
  <2> QED
    BY <1>2, <2>1, <2>2
<1>4. Meant(k) \in Seq(Posts)
  BY <1>2, MeantType
<1>5. PICK a, b : a = M[(k - 1) - s] /\ b = Meant(k)
  OBVIOUS
<1>6. base \o (a \o b) = (base \o a) \o b /\ base \o a \in Seq(Posts)
  <2>1. a \in Seq(Posts) /\ b \in Seq(Posts)
    BY <1>3, <1>4, <1>5
  <2> QED
    BY <1>1, <2>1
<1> QED
  BY <1>3, <1>4, <1>5, <1>6 DEF UpTo

LEMMA AppendLine ==
  ASSUME NEW posts \in Seq(Posts), NEW text \in Seq(Byte)
  PROVE  (IF text = <<>> THEN posts ELSE Append(posts, Post("line", text))) = posts \o Lines(text) /\ posts \o <<>> = posts
<1>1. Post("line", text) \in Posts
  BY DEF Post, Posts
<1>2. Append(posts, Post("line", text)) = posts \o <<Post("line", text)>> /\ posts \o <<>> = posts
  BY <1>1
<1> QED
  BY <1>2 DEF Lines

LEMMA FlushedIs ==
  ASSUME TypeOK
  PROVE  Flushed = delivered \o Lines(line) /\ delivered \o <<>> = delivered
BY AppendLine DEF TypeOK, Flushed

-----------------------------------------------------------------------------
(* Where the reader is in the script, and what it has posted.              *)

(* Item k is under way, j bytes of it were taken.                          *)
Where(ends, k, j) ==
  /\ k \in 1 .. Len(script) + 1 /\ j \in Nat
  /\ Done(ends) = ends[k - 1] + j
  /\ k <= Len(script) => j < Len(Wire(script[k]))
  /\ k = Len(script) + 1 => j = 0

(* Before item k: a prompt before it is posted when it turns out a frame.  *)
Idle(base, M, s, k) ==
  /\ ~inFrame /\ at \in {"read", "scan", "begin"}
  /\ line # <<>> => k > s + 1 /\ script[k - 1].kind = "prompt"
  /\ IF k <= Len(script) THEN Flushed = UpTo(base, M, s, k - 1) ELSE delivered = UpTo(base, M, s, k - 1)

(* Before item k, after a frame without payload that the reader is still   *)
(* in.                                                                     *)
Emptied(base, M, s, k) ==
  /\ inFrame /\ at \in {"read", "scan", "payload"} /\ pos = 2 /\ expected = 0
  /\ line = <<>> /\ delivered = UpTo(base, M, s, k - 1)

Texting(base, M, s, Ks, k, j) ==
  /\ IsText(script[k])
  /\ ~inFrame /\ at \in {"read", "scan"}
  /\ line = Fit(Ks[k][j]) /\ delivered = UpTo(base, M, s, k - 1)

Framing(base, M, s, k, j) ==
  /\ script[k].kind = "frame" /\ inFrame /\ at # "begin"
  /\ pos = j - 1 /\ j >= 1
  /\ \A x \in Nat : x < j - 1 => frame[x] = Wire(script[k])[x + 2]
  /\ j >= 3 => expected = Len(script[k].body)
  /\ line = <<>> /\ delivered = UpTo(base, M, s, k - 1)

Phase(base, M, s, Ks, k, j) ==
  \/ j = 0 /\ (Idle(base, M, s, k) \/ Emptied(base, M, s, k))
  \/ k <= Len(script) /\ j > 0 /\ Texting(base, M, s, Ks, k, j)
  \/ k <= Len(script) /\ j > 0 /\ Framing(base, M, s, k, j)

Parsed(base, ends, M, s, Ks) ==
  \E k \in s + 1 .. Len(script) + 1, j \in Nat : Where(ends, k, j) /\ Phase(base, M, s, Ks, k, j)

-----------------------------------------------------------------------------
(* No item is sent as nothing.                                             *)
LEMMA WireNotEmpty == ASSUME TypeOK, NEW n \in 1 .. Len(script) PROVE 0 < Len(Wire(script[n]))
<1>1. script[n] \in Items /\ WellFormed(script[n]) /\ script[n].body \in Seq(Byte)
      /\ script[n].lo \in Byte /\ script[n].hi \in Byte
  BY ItemFacts
<1>2. CASE IsText(script[n])
  BY <1>1, <1>2, WireOfText
<1>3. CASE ~IsText(script[n])
  <2>1. PICK r : r = Rest(script[n])
    OBVIOUS
  <2>2. r \in Seq(Byte)
    <3>1. script[n].kind = "cut" => Front(script[n].body) \in Seq(Byte)
      <4>1. script[n].kind = "cut" => script[n].body # <<>>
        BY <1>1 DEF WellFormed
      <4>2. script[n].body # <<>> => Len(script[n].body) \in Nat /\ Len(script[n].body) > 0
        BY <1>1
      <4> QED
        BY <1>1, <4>1, <4>2 DEF Front
    <3> QED
      BY <1>1, <1>3, <2>1, <3>1 DEF Rest, IsText
  <2>3. PICK h : h = <<Marker, script[n].lo, script[n].hi>> /\ h \in Seq(Byte) /\ Len(h) = 3
    <3>1. \A x, y, z \in Byte : <<x, y, z>> \in Seq(Byte) /\ Len(<<x, y, z>>) = 3
      OBVIOUS
    <3>2. Marker \in Byte
      BY DEF Marker, Byte
    <3> QED
      BY <1>1, <3>1, <3>2
  <2>4. Wire(script[n]) = h \o r
    BY <1>3, <2>1, <2>3 DEF Wire, Header
  <2> QED
    BY <2>2, <2>3, <2>4
<1> QED
  BY <1>2, <1>3

(* Taking a byte moves on in the item, or to the next.                     *)
LEMMA Advance ==
  ASSUME TypeOK, NEW full, NEW ends, Stream(full, ends), NEW k \in 1 .. Len(script), NEW j, Where(ends, k, j),
         script' = script, Done(ends)' = Done(ends) + 1
  PROVE  /\ j + 1 < Len(Wire(script[k])) => Where(ends, k, j + 1)'
         /\ j + 1 = Len(Wire(script[k])) => Where(ends, k + 1, 0)'
<1>1. Len(script) \in Nat /\ j \in Nat
  BY ScriptType DEF Where
<1>2. Len(Wire(script[k])) \in Nat
  <2>1. Wire(script[k]) \in Seq(Byte)
    BY ItemFacts, WireType
  <2> QED
    BY <2>1
<1>3. ends[k] = ends[k - 1] + Len(Wire(script[k])) /\ ends[k - 1] \in Nat /\ ends[k] \in Nat
  <2>1. k - 1 \in 0 .. Len(script) /\ k \in 0 .. Len(script)
    BY <1>1
  <2>2. ends \in [0 .. Len(script) -> Nat]
    BY DEF Stream
  <2>3. ends[k] = ends[k - 1] + Len(Wire(script[k]))
    BY Zenon DEF Stream
  <2> QED
    BY <2>1, <2>2, <2>3
<1>4. Done(ends) = ends[k - 1] + j
  BY DEF Where
<1>5. Done(ends)' = ends[k - 1] + (j + 1)
  <2>1. \A d, c, e : e \in Nat /\ c = e + j /\ d = c + 1 => d = e + (j + 1)
    BY <1>1
  <2> QED
    BY <1>3, <1>4, <2>1, Zenon
<1>6. CASE j + 1 < Len(Wire(script[k]))
  <2>1. k \in 1 .. Len(script') + 1 /\ j + 1 \in Nat /\ k # Len(script') + 1
    BY <1>1
  <2> QED
    BY <1>2, <1>5, <1>6, <2>1 DEF Where
<1>7. CASE j + 1 = Len(Wire(script[k]))
  <2>1. Done(ends)' = ends[(k + 1) - 1] + 0
    <3>1. (k + 1) - 1 = k
      BY <1>1
    <3>2. Done(ends)' = ends[k]
      BY <1>3, <1>5, <1>7
    <3> QED
      BY <1>3, <3>1, <3>2
  <2>2. k + 1 \in 1 .. Len(script') + 1 /\ 0 \in Nat
    BY <1>1
  <2>3. k + 1 <= Len(script') => 0 < Len(Wire(script'[k + 1]))
    BY <1>1, WireNotEmpty
  <2>4. ~(j + 1 < Len(Wire(script[k])))
    BY <1>7, <1>1
  <2>5. Where(ends, k + 1, 0)'
    BY <2>1, <2>2, <2>3 DEF Where
  <2> QED
    BY <2>4, <2>5
<1> QED
  BY <1>6, <1>7

LEMMA Stays ==
  ASSUME NEW ends, NEW k, NEW j, Where(ends, k, j), script' = script, Done(ends)' = Done(ends)
  PROVE  Where(ends, k, j)'
BY DEF Where

(* The byte that is taken next.                                            *)
LEMMA ByteTaken ==
  ASSUME TypeOK, NEW full, NEW ends, Stream(full, ends), NEW k, NEW j, Where(ends, k, j),
         byte = full[Done(ends) + 1], Done(ends) < ends[Len(script)]
  PROVE  k \in 1 .. Len(script) /\ j \in Nat /\ j < Len(Wire(script[k])) /\ byte = Wire(script[k])[j + 1]
<1>1. Len(script) \in Nat /\ j \in Nat /\ k \in 1 .. Len(script) + 1
  BY ScriptType DEF Where
<1>2. k # Len(script) + 1
  <2> SUFFICES ASSUME k = Len(script) + 1 PROVE FALSE
    OBVIOUS
  <2>1. k - 1 = Len(script) /\ ends[Len(script)] \in Nat
    <3>1. Len(script) \in 0 .. Len(script)
      BY <1>1
    <3> QED
      BY <1>1, <3>1 DEF Stream
  <2>2. Done(ends) = ends[Len(script)] + 0
    BY <2>1 DEF Where
  <2> QED
    BY <2>1, <2>2
<1>3. k \in 1 .. Len(script) /\ k - 1 \in 0 .. Len(script)
  BY <1>1, <1>2
<1>4. j < Len(Wire(script[k])) /\ Done(ends) = ends[k - 1] + j
  BY <1>3 DEF Where
<1>5. Len(Wire(script[k])) \in Nat
  <2>1. Wire(script[k]) \in Seq(Byte)
    BY <1>3, ItemFacts, WireType
  <2> QED
    BY <2>1
<1>6. full[ends[k - 1] + (j + 1)] = Wire(script[k])[j + 1]
  <2>1. j + 1 \in Nat /\ j + 1 \in 1 .. Len(Wire(script[k]))
    BY <1>1, <1>4, <1>5
  <2> QED
    BY <1>3, <2>1, Zenon DEF Stream
<1>7. Done(ends) + 1 = ends[k - 1] + (j + 1)
  <2>1. ends[k - 1] \in Nat
    BY <1>3 DEF Stream
  <2> QED
    BY <1>1, <1>4, <2>1
<1> QED
  BY <1>1, <1>3, <1>4, <1>6, <1>7

-----------------------------------------------------------------------------
(* The steps that take no byte.                                            *)

(* The reader is at byte j of item k, all after item s being whole.        *)
Here(s, base, full, ends, M, Ks, k, j) ==
  /\ IInv /\ Steady /\ StreamInv(full, ends) /\ Context(s, base, full, ends, M, Ks)
  /\ ~raw
  /\ k \in s + 1 .. Len(script) + 1 /\ Where(ends, k, j)

LEMMA ByteHere ==
  ASSUME NEW s, NEW base, NEW full, NEW ends, NEW M, NEW Ks, NEW k, NEW j, Here(s, base, full, ends, M, Ks, k, j),
         at # "read"
  PROVE  /\ s \in Nat /\ k \in s + 1 .. Len(script) /\ k \in 1 .. Len(script)
         /\ j \in Nat /\ j < Len(Wire(script[k])) /\ byte = Wire(script[k])[j + 1]
         /\ script[k].kind \in {"frame", "line", "prompt"}
<1> USE DEF Here, Context
<1>1. Len(script) \in Nat /\ s \in Nat
  BY ScriptType DEF IInv
<1>2. byte = full[Done(ends) + 1] /\ Done(ends) < ends[Len(script)]
  BY ByteAtHand
<1>3. k \in 1 .. Len(script) /\ j \in Nat /\ j < Len(Wire(script[k])) /\ byte = Wire(script[k])[j + 1]
  BY <1>2, ByteTaken DEF IInv
<1>4. k \in s + 1 .. Len(script)
  BY <1>1, <1>3
<1>5. script[k].kind \in Kinds
  BY <1>3, ItemFacts DEF IInv
<1> QED
  BY <1>1, <1>3, <1>4, <1>5 DEF WholeAfter, Kinds

(* The steps that take no byte and leave the mode.                         *)
Quiet == Write \/ Read \/ ScanMarker \/ ScanFrame \/ LoadLength \/ InPayload \/ LoadPayload \/ UNCHANGED vars

LEMMA QuietSteps == ASSUME Steady, Write \/ Read \/ Looks, ~raw' PROVE Quiet
BY DEF Quiet, Looks, Steady, SetRawMode, SetRaw, SetNoFrame, SetNoPos

LEMMA QuietFacts ==
  ASSUME Quiet
  PROVE  /\ UNCHANGED <<script, delivered, line, frame, expected>> /\ Flushed' = Flushed
         /\ InPayload \/ UNCHANGED <<inFrame, pos>>
BY DEF Quiet, Write, Read, ScanMarker, ScanFrame, LoadLength, LoadPayload, Load, InPayload, vars, frameVars, outVars, Flushed

LEMMA QuietIdle ==
  ASSUME Quiet, NEW s, NEW base, NEW M, NEW k, Idle(base, M, s, k)
  PROVE  Idle(base, M, s, k)'
<1>1. at' \in {"read", "scan", "begin"} /\ ~InPayload
  BY DEF Idle, Quiet, Write, Read, ScanMarker, ScanFrame, LoadLength, LoadPayload, Load, InPayload, vars, readerVars
<1> QED
  BY <1>1, QuietFacts DEF Idle, UpTo

LEMMA QuietEmptied ==
  ASSUME Quiet, NEW s, NEW base, NEW M, NEW k, Emptied(base, M, s, k)
  PROVE  Idle(base, M, s, k)' \/ Emptied(base, M, s, k)'
<1>1. CASE InPayload
  <2>1. at' = "scan" /\ ~inFrame'
    BY <1>1 DEF Emptied, InPayload, LeaveFrame
  <2>2. Flushed' = delivered /\ line' = <<>> /\ delivered' = delivered
    BY QuietFacts DEF Emptied, Flushed
  <2> QED
    BY <2>1, <2>2 DEF Emptied, Idle, UpTo
<1>2. CASE ~InPayload
  <2>1. at' \in {"read", "scan", "payload"}
    BY <1>2 DEF Emptied, Quiet, Write, Read, ScanMarker, ScanFrame, LoadLength, LoadPayload, Load, vars, readerVars
  <2> QED
    BY <1>2, <2>1, QuietFacts DEF Emptied, UpTo
<1> QED
  BY <1>1, <1>2

LEMMA QuietTexting ==
  ASSUME Quiet, NEW s, NEW base, NEW full, NEW ends, NEW M, NEW Ks, NEW k, NEW j, Here(s, base, full, ends, M, Ks, k, j),
         Texting(base, M, s, Ks, k, j)
  PROVE  Texting(base, M, s, Ks, k, j)'
<1>1. ~ScanMarker
  <2> SUFFICES ASSUME ScanMarker PROVE FALSE
    OBVIOUS
  <2>1. byte = Marker /\ at # "read"
    BY DEF ScanMarker, StartsFrame
  <2>2. k \in 1 .. Len(script) /\ j \in Nat /\ j < Len(Wire(script[k])) /\ byte = Wire(script[k])[j + 1]
    BY <2>1, ByteHere
  <2>3. PICK item \in Items : item = script[k] /\ WellFormed(item) /\ IsText(item)
    BY <2>2, ItemFacts DEF Here, IInv, Texting
  <2>4. j + 1 \in 1 .. Len(item.body) \/ (item.kind = "line" /\ j + 1 = Len(item.body) + 1)
    BY <2>2, <2>3, WireOfText
  <2> QED
    BY <2>1, <2>2, <2>3, <2>4, WireOfText DEF Marker, Newline
<1>2. at' \in {"read", "scan"} /\ ~InPayload
  BY <1>1 DEF Texting, Quiet, Write, Read, ScanFrame, LoadLength, LoadPayload, Load, InPayload, vars, readerVars
<1> QED
  BY <1>2, QuietFacts DEF Texting, UpTo

LEMMA QuietFraming ==
  ASSUME Quiet, NEW s, NEW base, NEW full, NEW ends, NEW M, NEW Ks, NEW k, NEW j, Here(s, base, full, ends, M, Ks, k, j),
         k <= Len(script), Framing(base, M, s, k, j)
  PROVE  Framing(base, M, s, k, j)'
<1>1. at' # "begin" /\ UNCHANGED <<inFrame, pos>>
  <2>1. CASE InPayload
    <3>1. at = "payload" /\ pos >= 2 /\ pos = j - 1
      BY <2>1 DEF InPayload, Here, Steady, Framing
    <3>2. k \in 1 .. Len(script) /\ j \in Nat /\ j < Len(Wire(script[k]))
      BY <3>1, ByteHere
    <3>3. PICK item \in Items : item = script[k] /\ WellFormed(item) /\ item.kind = "frame"
      BY <3>2, ItemFacts DEF Here, IInv, Framing
    <3>4. j < 3 + Len(item.body) /\ Len(item.body) \in Nat
      BY <3>2, <3>3, WireOfFrame
    <3>5. j >= 3 /\ expected = Len(item.body)
      BY <3>1, <3>2, <3>3 DEF Framing
    <3>6. pos >= 2 /\ pos - 2 < expected
      BY <3>1, <3>2, <3>4, <3>5
    <3> QED
      BY <2>1, <3>6 DEF InPayload
  <2>2. CASE ~InPayload
    BY <2>2, QuietFacts DEF Framing, Quiet, Write, Read, ScanMarker, ScanFrame, LoadLength, LoadPayload, Load, vars, readerVars
  <2> QED
    BY <2>1, <2>2
<1> QED
  BY <1>1, QuietFacts DEF Framing, UpTo

LEMMA QuietPhase ==
  ASSUME Quiet, NEW s, NEW base, NEW full, NEW ends, NEW M, NEW Ks, NEW k, NEW j, Here(s, base, full, ends, M, Ks, k, j),
         Phase(base, M, s, Ks, k, j)
  PROVE  Phase(base, M, s, Ks, k, j)'
<1>1. script' = script
  BY QuietFacts
<1> QED
  BY <1>1, QuietIdle, QuietEmptied, QuietTexting, QuietFraming DEF Phase

-----------------------------------------------------------------------------
(* The steps that take a byte.                                             *)

LEMMA TakesByte ==
  ASSUME Takes, NEW s, NEW base, NEW full, NEW ends, NEW M, NEW Ks, NEW k, NEW j, Here(s, base, full, ends, M, Ks, k, j)
  PROVE  /\ script' = script /\ at' \in {"read", "scan"}
         /\ j + 1 < Len(Wire(script[k])) => Where(ends, k, j + 1)'
         /\ j + 1 = Len(Wire(script[k])) => Where(ends, k + 1, 0)'
<1> USE DEF Here, Context
<1>1. script' = script /\ at' \in {"read", "scan"} /\ at # "read"
  BY TakesFacts DEF Consume
<1>2. Done(ends)' = Done(ends) + 1
  BY StreamTakes
<1>3. k \in 1 .. Len(script)
  BY <1>1, ByteHere
<1> QED
  BY <1>1, <1>2, <1>3, Advance DEF IInv

(* Where the parse is after the step.                                      *)
LEMMA ParsedOn ==
  ASSUME NEW s \in Nat, NEW base, NEW ends, NEW M, NEW Ks, NEW k \in s + 1 .. Len(script) + 1, NEW j \in Nat,
         Where(ends, k, j), Phase(base, M, s, Ks, k, j)
  PROVE  Parsed(base, ends, M, s, Ks)
BY DEF Parsed

LEMMA NextMeant ==
  ASSUME NEW s, NEW base, NEW full, NEW ends, NEW M, NEW Ks, NEW k, NEW j, Here(s, base, full, ends, M, Ks, k, j),
         at # "read"
  PROVE  /\ UpTo(base, M, s, k) = UpTo(base, M, s, k - 1) \o Meant(k)
         /\ UpTo(base, M, s, k - 1) \in Seq(Posts) /\ Meant(k) \in Seq(Posts)
<1>1. k \in s + 1 .. Len(script)
  BY ByteHere
<1>2. TypeOK /\ Context(s, base, full, ends, M, Ks)
  BY DEF Here, IInv
<1> QED
  BY ONLY <1>1, <1>2, UpToStep

LEMMA TakeText ==
  ASSUME ScanText, NEW s, NEW base, NEW full, NEW ends, NEW M, NEW Ks, NEW k, NEW j, Here(s, base, full, ends, M, Ks, k, j),
         IsText(script[k]), line = Fit(Ks[k][j]), delivered = UpTo(base, M, s, k - 1)
  PROVE  Parsed(base, ends, M, s, Ks)'
<1>0. Takes /\ at # "read" /\ ~inFrame /\ inFrame' = inFrame
  BY DEF Takes, ScanText, frameVars
<1>1. /\ s \in Nat /\ k \in s + 1 .. Len(script) /\ k \in 1 .. Len(script)
      /\ j \in Nat /\ j < Len(Wire(script[k])) /\ byte = Wire(script[k])[j + 1]
  BY <1>0, ByteHere
<1>2. /\ script' = script /\ at' \in {"read", "scan"}
      /\ j + 1 < Len(Wire(script[k])) => Where(ends, k, j + 1)'
      /\ j + 1 = Len(Wire(script[k])) => Where(ends, k + 1, 0)'
  BY <1>0, TakesByte
<1>3. PICK item \in Items : item = script[k] /\ WellFormed(item) /\ IsText(item) /\ item.body \in Seq(Byte)
  BY <1>1, ItemFacts DEF Here, IInv
<1>4. /\ Len(item.body) \in Nat /\ Len(item.body) > 0
      /\ Len(Wire(item)) = IF item.kind = "line" THEN Len(item.body) + 1 ELSE Len(item.body)
      /\ \A x \in 1 .. Len(item.body) : Wire(item)[x] = item.body[x] /\ item.body[x] \notin {Marker, Newline, Return}
      /\ item.kind = "line" => Wire(item)[Len(item.body) + 1] = Newline
  BY <1>3, WireOfText
<1>5. Keeps(Ks[k], item.body)
  BY <1>1, <1>3 DEF Here, Context, Texts
<1>6. Text(item.body) = Fit(Ks[k][Len(item.body)])
  BY <1>5 DEF Keeps
<1>7. UpTo(base, M, s, k) = delivered \o Meant(k) /\ delivered \o Lines(line) = Flushed /\ delivered \o <<>> = delivered
  <2>1. TypeOK /\ Context(s, base, full, ends, M, Ks)
    BY DEF Here, IInv
  <2>2. UpTo(base, M, s, k) = UpTo(base, M, s, k - 1) \o Meant(k)
    <3>1. Here(s, base, full, ends, M, Ks, k, j) /\ at # "read"
      BY <1>0
    <3> QED
      BY ONLY <3>1, NextMeant
  <2>3. delivered \o Lines(line) = Flushed /\ delivered \o <<>> = delivered
    BY <2>1, FlushedIs
  <2> QED
    BY <2>2, <2>3
<1>8. item.kind = "line" \/ (item.kind = "prompt" /\ k < Len(script)) => Meant(k) = Lines(Text(item.body))
  BY <1>3 DEF Meant
<1>9. item.kind = "prompt" /\ ~(k < Len(script)) => Meant(k) = <<>>
  BY <1>3 DEF Meant
<1>10. Len(script) \in Nat /\ Len(script') = Len(script)
  BY <1>2, ScriptType DEF Here, IInv
<1>11. CASE j < Len(item.body)
  <2>1. byte = item.body[j + 1] /\ byte \notin {Newline, Return} /\ j + 1 \in 1 .. Len(item.body) /\ byte \in Byte
    BY <1>1, <1>3, <1>4, <1>11
  <2>2. delivered' = delivered /\ line' = IF Printable(byte) /\ Len(line) < MaxLine THEN Append(line, byte) ELSE line
    BY <2>1 DEF ScanText
  <2>3. line' = Fit(Ks[k][j + 1])
    <3>1. PICK K : K = Ks[k]
      OBVIOUS
    <3>2. K[j + 1] = IF Printable(item.body[j + 1]) THEN Append(K[(j + 1) - 1], item.body[j + 1]) ELSE K[(j + 1) - 1]
      BY <1>5, <2>1, <3>1, Zenon DEF Keeps
    <3>3. K[j] \in Seq(Byte) /\ (j + 1) - 1 = j
      <4>1. K \in [0 .. Len(item.body) -> Seq(Byte)]
        BY <1>5, <3>1 DEF Keeps
      <4>2. j \in 0 .. Len(item.body) /\ (j + 1) - 1 = j
        BY <1>1, <1>4, <1>11
      <4> QED
        BY <4>1, <4>2
    <3>4. Fit(Append(K[j], byte)) = IF Len(Fit(K[j])) < MaxLine THEN Append(Fit(K[j]), byte) ELSE Fit(K[j])
      BY <2>1, <3>3, FitAppend
    <3> QED
      BY <2>1, <2>2, <3>1, <3>2, <3>3, <3>4
  <2>4. CASE j + 1 < Len(Wire(script[k]))
    <3>1. Texting(base, M, s, Ks, k, j + 1)'
      BY <1>0, <1>2, <1>3, <2>2, <2>3 DEF Texting, UpTo
    <3>2. Phase(base, M, s, Ks, k, j + 1)'
      BY <1>1, <1>10, <3>1 DEF Phase
    <3> QED
      BY <1>1, <1>2, <1>10, <2>4, <3>2 DEF Parsed
  <2>5. CASE j + 1 = Len(Wire(script[k]))
    <3>1. item.kind = "prompt" /\ j + 1 = Len(item.body)
      BY <1>1, <1>3, <1>4, <2>1, <2>5 DEF IsText
    <3>2. line' = Text(item.body)
      BY <1>6, <2>3, <3>1
    <3>3. Flushed' = delivered' \o Lines(line')
      <4>1. line' \in Seq(Byte) /\ delivered' \in Seq(Posts)
        BY StepScanText DEF Here, IInv, TypeOK
      <4> QED
        BY <4>1, AppendLine DEF Flushed
    <3>4. Idle(base, M, s, k + 1)'
      <4>1. line' # <<>> => k + 1 > s + 1 /\ script'[(k + 1) - 1].kind = "prompt"
        BY <1>1, <1>2, <1>3, <3>1
      <4>2. (k + 1) - 1 = k /\ (k + 1 <= Len(script) <=> k < Len(script))
        BY <1>1, <1>10
      <4>3. k < Len(script) => Flushed' = UpTo(base, M, s, k)
        BY <1>7, <1>8, <2>2, <3>1, <3>2, <3>3
      <4>4. ~(k < Len(script)) => delivered' = UpTo(base, M, s, k)
        BY <1>7, <1>9, <2>2, <3>1
      <4> QED
        BY <1>0, <1>2, <4>1, <4>2, <4>3, <4>4 DEF Idle, UpTo
    <3>5. Phase(base, M, s, Ks, k + 1, 0)'
      BY <3>4 DEF Phase
    <3> QED
      BY <1>1, <1>2, <1>10, <2>5, <3>5 DEF Parsed
  <2> QED
    BY <1>1, <1>3, <1>4, <2>4, <2>5
<1>12. CASE ~(j < Len(item.body))
  <2>1. item.kind = "line" /\ j = Len(item.body) /\ byte = Newline /\ j + 1 = Len(Wire(script[k]))
    BY <1>1, <1>3, <1>4, <1>12
  <2>2. delivered' = Flushed /\ line' = <<>>
    BY <2>1 DEF ScanText
  <2>3. Flushed' = delivered'
    BY <2>2 DEF Flushed
  <2>4. line = Text(item.body)
    BY <1>6, <2>1
  <2>5. delivered' = UpTo(base, M, s, k)
    BY <1>7, <1>8, <2>1, <2>2, <2>4
  <2>6. (k + 1) - 1 = k
    BY <1>1
  <2>7. Idle(base, M, s, k + 1)'
    BY <1>0, <1>2, <2>2, <2>3, <2>5, <2>6 DEF Idle, UpTo
  <2>8. Phase(base, M, s, Ks, k + 1, 0)'
    BY <2>7 DEF Phase
  <2> QED
    BY <1>1, <1>2, <1>10, <2>1, <2>8 DEF Parsed
<1> QED
  BY <1>11, <1>12

(* The marker of a frame, and of nothing else that is whole.               *)
LEMMA TakeMarker ==
  ASSUME Begin, NEW s, NEW base, NEW full, NEW ends, NEW M, NEW Ks, NEW k, Here(s, base, full, ends, M, Ks, k, 0),
         Idle(base, M, s, k)
  PROVE  Parsed(base, ends, M, s, Ks)'
<1>0. Takes /\ at = "begin" /\ at # "read"
  BY DEF Takes, Begin
<1>1. /\ s \in Nat /\ k \in s + 1 .. Len(script) /\ k \in 1 .. Len(script)
      /\ 0 < Len(Wire(script[k])) /\ byte = Wire(script[k])[0 + 1]
      /\ script[k].kind \in {"frame", "line", "prompt"}
  BY <1>0, ByteHere
<1>2. /\ script' = script /\ at' \in {"read", "scan"}
      /\ 0 + 1 < Len(Wire(script[k])) => Where(ends, k, 0 + 1)'
  BY <1>0, TakesByte
<1>3. PICK item \in Items : item = script[k] /\ WellFormed(item)
  BY <1>1, ItemFacts DEF Here, IInv
<1>4. byte = Marker
  BY <1>0 DEF Here, Steady
<1>5. ~IsText(item)
  <2> SUFFICES ASSUME IsText(item) PROVE FALSE
    OBVIOUS
  <2>1. 1 \in 1 .. Len(item.body) /\ 0 + 1 = 1
    BY <1>3, WireOfText
  <2>2. Wire(item)[1] = item.body[1] /\ item.body[1] # Marker
    BY <1>3, <2>1, WireOfText
  <2> QED
    BY <1>1, <1>3, <1>4, <2>1, <2>2
<1>6. item.kind = "frame"
  BY <1>1, <1>3, <1>5 DEF IsText
<1>7. Where(ends, k, 1)'
  <2>1. 0 + 1 < Len(Wire(script[k])) /\ 0 + 1 = 1
    BY <1>3, <1>6, WireOfFrame
  <2> QED
    BY <1>2, <2>1
<1>8. Framing(base, M, s, k, 1)'
  <2>1. pos' = 0 /\ inFrame' /\ line' = <<>> /\ delivered' = UpTo(base, M, s, k - 1) /\ at' # "begin"
    BY <1>1, <1>2 DEF Begin, Idle
  <2>2. 1 - 1 = 0 /\ \A x \in Nat : ~(x < 0)
    OBVIOUS
  <2> QED
    BY <1>2, <1>3, <1>6, <2>1, <2>2 DEF Framing, UpTo
<1>9. Phase(base, M, s, Ks, k, 1)'
  BY <1>1, <1>2, <1>8 DEF Phase
<1>10. Len(script) \in Nat
  BY ScriptType DEF Here, IInv
<1> QED
  BY <1>1, <1>2, <1>7, <1>9, <1>10 DEF Parsed

(* A byte within a frame is stored where it belongs.                       *)
LEMMA StoredByte ==
  ASSUME StoreLength \/ StorePayload, NEW s, NEW base, NEW full, NEW ends, NEW M, NEW Ks, NEW k, NEW j,
         Here(s, base, full, ends, M, Ks, k, j), k <= Len(script), Framing(base, M, s, k, j)
  PROVE  /\ slot = j - 1 /\ \A x \in Nat : x < j => frame'[x] = Wire(script[k])[x + 2]
<1>1. frame' = [frame EXCEPT ![slot] = byte] /\ slot = pos /\ at # "read" /\ pos = j - 1 /\ j >= 1
  BY DEF StoreLength, StorePayload, Here, Steady, Framing
<1>2. j \in Nat /\ byte = Wire(script[k])[j + 1]
  BY <1>1, ByteHere
<1>3. pos \in Slots /\ frame \in [Slots -> Byte]
  BY DEF Here, IInv, TypeOK, Slots
<1>4. ASSUME NEW x \in Nat, x < j PROVE frame'[x] = Wire(script[k])[x + 2]
  <2>1. CASE x = j - 1
    <3>1. frame'[x] = byte /\ x + 2 = j + 1
      BY <1>1, <1>2, <1>3, <2>1
    <3> QED
      BY <1>2, <3>1
  <2>2. CASE x # j - 1
    <3>1. x < j - 1 /\ x \in Slots
      BY <1>1, <1>2, <1>3, <1>4, <2>2 DEF Slots
    <3>2. frame'[x] = frame[x]
      BY <1>1, <1>3, <2>2, <3>1
    <3> QED
      BY <3>1, <3>2 DEF Framing
  <2> QED
    BY <2>1, <2>2
<1> QED
  BY <1>1, <1>4

LEMMA TakeLength ==
  ASSUME StoreLength, NEW s, NEW base, NEW full, NEW ends, NEW M, NEW Ks, NEW k, NEW j,
         Here(s, base, full, ends, M, Ks, k, j), k <= Len(script), Framing(base, M, s, k, j)
  PROVE  Parsed(base, ends, M, s, Ks)'
<1>0. Takes /\ at = "lengthStore" /\ at # "read" /\ line' = line /\ delivered' = delivered
  BY DEF Takes, StoreLength, outVars
<1>1. /\ s \in Nat /\ k \in s + 1 .. Len(script) /\ k \in 1 .. Len(script) /\ j \in Nat /\ j < Len(Wire(script[k]))
  BY <1>0, ByteHere
<1>2. /\ script' = script /\ at' \in {"read", "scan"}
      /\ j + 1 < Len(Wire(script[k])) => Where(ends, k, j + 1)'
      /\ j + 1 = Len(Wire(script[k])) => Where(ends, k + 1, 0)'
  BY <1>0, TakesByte
<1>3. PICK item \in Items : item = script[k] /\ WellFormed(item) /\ item.kind = "frame"
  BY <1>1, ItemFacts DEF Here, IInv, Framing
<1>4. /\ Len(item.body) \in Nat /\ Len(Wire(item)) = 3 + Len(item.body)
      /\ Size(item.lo, item.hi) = Len(item.body) /\ Len(item.body) <= MaxPayload
      /\ Wire(item)[2] = item.lo /\ Wire(item)[3] = item.hi
  BY <1>3, WireOfFrame
<1>5. slot = j - 1 /\ \A x \in Nat : x < j => frame'[x] = Wire(item)[x + 2]
  BY <1>3, StoredByte
<1>6. slot < 2 /\ j \in {1, 2} /\ inFrame
  <2>1. slot = pos /\ pos < 2 /\ j >= 1 /\ inFrame
    BY <1>0 DEF Here, Steady, Framing
  <2> QED
    BY <1>1, <1>5, <2>1
<1>7. Len(script) \in Nat
  BY ScriptType DEF Here, IInv
<1>8. line = <<>> /\ delivered = UpTo(base, M, s, k - 1)
  BY DEF Framing
<1>9. CASE j = 1
  <2>1. pos' = 1 /\ inFrame'
    BY <1>5, <1>6, <1>9 DEF StoreLength
  <2>2. 1 + 1 = 2 /\ 2 < Len(Wire(script[k])) /\ 2 - 1 = 1 /\ ~(2 >= 3)
    BY <1>3, <1>4
  <2>3. \A x \in Nat : x < 1 => frame'[x] = Wire(script'[k])[x + 2]
    BY <1>2, <1>3, <1>5, <1>9
  <2>4. Framing(base, M, s, k, 2)'
    BY <1>0, <1>2, <1>3, <1>8, <2>1, <2>2, <2>3 DEF Framing, UpTo
  <2>5. Phase(base, M, s, Ks, k, 2)'
    BY <1>1, <1>2, <2>4 DEF Phase
  <2>6. Where(ends, k, 2)'
    BY <1>2, <1>9, <2>2
  <2> QED
    BY <1>1, <1>2, <1>7, <2>5, <2>6 DEF Parsed
<1>10. CASE j = 2
  <2>1. frame'[0] = item.lo /\ frame'[1] = item.hi
    <3>1. frame'[0] = Wire(item)[0 + 2] /\ frame'[1] = Wire(item)[1 + 2]
      BY <1>5, <1>10
    <3> QED
      BY <1>4, <3>1
  <2>2. slot + 1 = 2 /\ ~TooLong(Size(frame'[0], frame'[1]))
    BY <1>4, <1>5, <1>10, <2>1 DEF TooLong
  <2>3. pos' = 2 /\ expected' = Len(item.body) /\ inFrame'
    BY <1>4, <1>6, <2>1, <2>2 DEF StoreLength
  <2>4. CASE Len(item.body) = 0
    <3>1. 2 + 1 = Len(Wire(script[k])) /\ item.body = <<>>
      <4>1. item.body \in Seq(Byte)
        BY DEF Items
      <4> QED
        BY <1>3, <1>4, <2>4, <4>1
    <3>2. Where(ends, k + 1, 0)'
      BY <1>2, <1>10, <3>1
    <3>3. Meant(k) = <<>>
      BY <1>3, <3>1 DEF Meant
    <3>4. UpTo(base, M, s, k) = UpTo(base, M, s, k - 1) \o Meant(k) /\ UpTo(base, M, s, k - 1) \in Seq(Posts)
      BY <1>0, NextMeant
    <3>5. delivered' = UpTo(base, M, s, k)
      <4>1. \A d \in Seq(Posts) : d \o <<>> = d
        OBVIOUS
      <4> QED
        BY <1>0, <1>8, <3>3, <3>4, <4>1
    <3>6. (k + 1) - 1 = k
      BY <1>1
    <3>7. Emptied(base, M, s, k + 1)'
      BY <1>0, <1>2, <1>8, <2>3, <2>4, <3>5, <3>6 DEF Emptied, UpTo
    <3>8. Phase(base, M, s, Ks, k + 1, 0)'
      BY <3>7 DEF Phase
    <3> QED
      BY <1>1, <1>2, <1>7, <3>2, <3>8 DEF Parsed
  <2>5. CASE Len(item.body) # 0
    <3>1. 2 + 1 = 3 /\ 3 < Len(Wire(script[k])) /\ 3 - 1 = 2
      BY <1>3, <1>4, <2>5
    <3>2. \A x \in Nat : x < 2 => frame'[x] = Wire(script'[k])[x + 2]
      BY <1>2, <1>3, <1>5, <1>10
    <3>3. Framing(base, M, s, k, 3)'
      BY <1>0, <1>2, <1>3, <1>8, <2>3, <3>1, <3>2 DEF Framing, UpTo
    <3>4. Phase(base, M, s, Ks, k, 3)'
      BY <1>1, <1>2, <3>3 DEF Phase
    <3>5. Where(ends, k, 3)'
      BY <1>2, <1>10, <3>1
    <3> QED
      BY <1>1, <1>2, <1>7, <3>4, <3>5 DEF Parsed
  <2> QED
    BY <2>4, <2>5
<1> QED
  BY <1>6, <1>9, <1>10

LEMMA TakePayload ==
  ASSUME StorePayload, NEW s, NEW base, NEW full, NEW ends, NEW M, NEW Ks, NEW k, NEW j,
         Here(s, base, full, ends, M, Ks, k, j), k <= Len(script), Framing(base, M, s, k, j)
  PROVE  Parsed(base, ends, M, s, Ks)'
<1>0. Takes /\ at = "payloadStore" /\ at # "read" /\ line' = line /\ expected' = expected
  BY DEF Takes, StorePayload
<1>1. /\ s \in Nat /\ k \in s + 1 .. Len(script) /\ k \in 1 .. Len(script) /\ j \in Nat /\ j < Len(Wire(script[k]))
  BY <1>0, ByteHere
<1>2. /\ script' = script /\ at' \in {"read", "scan"}
      /\ j + 1 < Len(Wire(script[k])) => Where(ends, k, j + 1)'
      /\ j + 1 = Len(Wire(script[k])) => Where(ends, k + 1, 0)'
  BY <1>0, TakesByte
<1>3. PICK item \in Items : item = script[k] /\ WellFormed(item) /\ item.kind = "frame" /\ item.body \in Seq(Byte)
  BY <1>1, ItemFacts DEF Here, IInv, Framing
<1>4. /\ Len(item.body) \in Nat /\ Len(Wire(item)) = 3 + Len(item.body)
      /\ \A x \in 1 .. Len(item.body) : Wire(item)[3 + x] = item.body[x]
  BY <1>3, WireOfFrame
<1>5. slot = j - 1 /\ \A x \in Nat : x < j => frame'[x] = Wire(item)[x + 2]
  BY <1>3, StoredByte
<1>6. j >= 3 /\ offset = j - 3 /\ expected = Len(item.body) /\ inFrame
  <2>1. offset = pos - 2 /\ pos >= 2 /\ pos = j - 1 /\ inFrame
    BY <1>0 DEF Here, Steady, Framing
  <2>2. j >= 3 /\ offset = j - 3
    BY <1>1, <2>1
  <2> QED
    BY <1>3, <2>1, <2>2 DEF Framing
<1>7. Len(script) \in Nat
  BY ScriptType DEF Here, IInv
<1>8. line = <<>> /\ delivered = UpTo(base, M, s, k - 1)
  BY DEF Framing
<1>9. CASE offset + 1 = expected
  <2>1. j + 1 = Len(Wire(script[k])) /\ Len(item.body) > 0 /\ j = Len(item.body) + 2
    BY <1>1, <1>3, <1>4, <1>6, <1>9
  <2>2. ASSUME NEW i \in 1 .. Len(item.body) PROVE frame'[i + 1] = item.body[i]
    <3>1. i + 1 \in Nat /\ i + 1 < j /\ (i + 1) + 2 = 3 + i
      BY <1>4, <2>1
    <3> QED
      BY <1>4, <1>5, <3>1
  <2>3. [i \in 1 .. expected |-> frame'[i + 1]] = item.body
    <3>1. item.body = [i \in 1 .. Len(item.body) |-> item.body[i]]
      BY <1>3
    <3> QED
      BY <1>6, <2>2, <3>1
  <2>4. delivered' = Append(delivered, Post("frame", item.body)) /\ ~inFrame'
    BY <1>9, <2>3 DEF StorePayload, LeaveFrame
  <2>5. Meant(k) = <<Post("frame", item.body)>>
    <3>1. item.body # <<>>
      BY <2>1
    <3> QED
      BY <1>3, <3>1 DEF Meant
  <2>6. UpTo(base, M, s, k) = UpTo(base, M, s, k - 1) \o Meant(k) /\ UpTo(base, M, s, k - 1) \in Seq(Posts)
    BY <1>0, NextMeant
  <2>7. delivered' = UpTo(base, M, s, k)
    <3>1. Post("frame", item.body) \in Posts
      BY <1>3 DEF Post, Posts
    <3>2. \A d \in Seq(Posts), p \in Posts : Append(d, p) = d \o <<p>>
      OBVIOUS
    <3> QED
      BY <1>8, <2>4, <2>5, <2>6, <3>1, <3>2
  <2>8. (k + 1) - 1 = k /\ Flushed' = delivered'
    BY <1>0, <1>1, <1>8 DEF Flushed
  <2>9. Idle(base, M, s, k + 1)'
    BY <1>0, <1>2, <1>8, <2>4, <2>7, <2>8 DEF Idle, UpTo
  <2>10. Phase(base, M, s, Ks, k + 1, 0)'
    BY <2>9 DEF Phase
  <2> QED
    BY <1>1, <1>2, <1>7, <2>1, <2>10 DEF Parsed
<1>10. CASE offset + 1 # expected
  <2>1. pos' = slot + 1 /\ inFrame' /\ delivered' = delivered
    BY <1>6, <1>10 DEF StorePayload
  <2>2. j + 1 < Len(Wire(script[k])) /\ slot + 1 = (j + 1) - 1 /\ j + 1 >= 1 /\ (j + 1) - 1 = j
    BY <1>1, <1>3, <1>4, <1>5, <1>6, <1>10
  <2>3. \A x \in Nat : x < (j + 1) - 1 => frame'[x] = Wire(script'[k])[x + 2]
    BY <1>2, <1>3, <1>5, <2>2
  <2>4. Framing(base, M, s, k, j + 1)'
    BY <1>0, <1>2, <1>3, <1>6, <1>8, <2>1, <2>2, <2>3 DEF Framing, UpTo
  <2>5. Phase(base, M, s, Ks, k, j + 1)'
    BY <1>1, <1>2, <2>4 DEF Phase
  <2> QED
    BY <1>1, <1>2, <1>7, <2>2, <2>5 DEF Parsed
<1> QED
  BY <1>9, <1>10

-----------------------------------------------------------------------------
(* The parse goes on with the stream.                                      *)

LEMMA RawStays == ASSUME [Next]_vars, ~raw' PROVE ~raw
BY NextKinds, TakesFacts
   DEF Write, Read, Looks, ScanMarker, ScanFrame, LoadLength, LoadPayload, Load, InPayload, SetRawMode, SetRaw, SetNoFrame,
       SetNoPos, vars

LEMMA ParsedStep ==
  ASSUME IInv, Steady, EmptyInv, [Next]_vars, ~raw',
         NEW s, NEW base, NEW full, NEW ends, NEW M, NEW Ks, StreamInv(full, ends), Context(s, base, full, ends, M, Ks),
         Parsed(base, ends, M, s, Ks)
  PROVE  Parsed(base, ends, M, s, Ks)'
<1>1. PICK k \in s + 1 .. Len(script) + 1, j \in Nat : Where(ends, k, j) /\ Phase(base, M, s, Ks, k, j)
  BY DEF Parsed
<1>2. Here(s, base, full, ends, M, Ks, k, j)
  BY <1>1, RawStays DEF Here
<1>3. script' = script /\ s \in Nat
  BY ScriptStays DEF Context
<1>4. CASE ~Takes
  <2>1. Quiet
    BY <1>4, NextKinds, QuietSteps
  <2>2. Phase(base, M, s, Ks, k, j)'
    BY <1>1, <1>2, <2>1, QuietPhase
  <2>3. Done(ends)' = Done(ends)
    BY <1>4, StreamStep DEF Context
  <2>4. Where(ends, k, j)'
    BY <1>1, <1>3, <2>3, Stays
  <2> QED
    BY <1>1, <1>3, <2>2, <2>4 DEF Parsed
<1>5. CASE Takes
  <2>1. /\ k \in 1 .. Len(script) /\ k \in s + 1 .. Len(script) /\ j < Len(Wire(script[k])) /\ byte = Wire(script[k])[j + 1]
        /\ script[k].kind \in {"frame", "line", "prompt"}
    BY <1>2, <1>5, TakesFacts, ByteHere
  <2>2. CASE j = 0 /\ Idle(base, M, s, k) /\ Begin
    BY <1>2, <2>2, TakeMarker
  <2>3. CASE j = 0 /\ Idle(base, M, s, k) /\ ScanText
    <3>1. byte # Marker
      BY <1>2, <2>3 DEF ScanText, StartsFrame, Here
    <3>2. PICK item \in Items : item = script[k] /\ WellFormed(item)
      BY <2>1, ItemFacts DEF IInv
    <3>3. IsText(item)
      <4>1. item.kind = "frame" => Wire(item)[1] = Marker
        BY <3>2, WireOfFrame
      <4>2. 0 + 1 = 1
        OBVIOUS
      <4> QED
        BY <2>1, <2>3, <3>1, <3>2, <4>1, <4>2 DEF IsText
    <3>4. line = <<>>
      <4> SUFFICES ASSUME line # <<>> PROVE FALSE
        OBVIOUS
      <4>1. k > s + 1 /\ script[k - 1].kind = "prompt"
        BY <2>3 DEF Idle
      <4>2. PICK i : i = k - 1
        OBVIOUS
      <4>3. i \in DOMAIN script /\ i < Len(script) /\ i + 1 = k
        BY <1>3, <2>1, <4>1, <4>2, ScriptType DEF IInv
      <4>4. Separated(script)
        BY ScriptType DEF IInv
      <4>5. script[i].kind = "prompt" /\ i < Len(script) => ~IsText(script[i + 1])
        BY <4>3, <4>4 DEF Separated
      <4> QED
        BY <3>2, <3>3, <4>1, <4>2, <4>3, <4>5
    <3>5. Fit(Ks[k][0]) = <<>>
      <4>1. Ks[k][0] = <<>>
        BY <2>1 DEF Context, Texts, Keeps
      <4>2. Fit(<<>>) = <<>>
        BY DEF Fit
      <4> QED
        BY <4>1, <4>2
    <3>6. delivered = UpTo(base, M, s, k - 1)
      BY <2>1, <2>3, <3>4 DEF Idle, Flushed
    <3>7. Here(s, base, full, ends, M, Ks, k, 0)
      BY <1>2, <2>3
    <3> QED
      BY <2>3, <3>2, <3>3, <3>4, <3>5, <3>6, <3>7, TakeText
  <2>4. CASE j > 0 /\ Texting(base, M, s, Ks, k, j)
    <3>1. ScanText
      BY <1>5, <2>4 DEF Texting, Takes, Begin, StoreLength, StorePayload
    <3> QED
      BY <1>2, <2>4, <3>1, TakeText DEF Texting
  <2>5. CASE j > 0 /\ Framing(base, M, s, k, j)
    <3>1. StoreLength \/ StorePayload
      BY <1>5, <2>5 DEF Framing, Takes, Begin, ScanText
    <3>2. k <= Len(script)
      BY <2>1
    <3> QED
      BY <1>2, <2>5, <3>1, <3>2, TakeLength, TakePayload
  <2>6. ~Emptied(base, M, s, k)
    BY <1>5 DEF Emptied, Takes, Begin, ScanText, StoreLength, StorePayload
  <2>7. Idle(base, M, s, k) => Begin \/ ScanText
    BY <1>5 DEF Idle, Takes, StoreLength, StorePayload
  <2> QED
    BY <1>1, <2>2, <2>3, <2>4, <2>5, <2>6, <2>7 DEF Phase
<1> QED
  BY <1>4, <1>5

(* What is said of the script stays said.                                  *)
LEMMA ContextStays ==
  ASSUME script' = script, NEW s, NEW base, NEW full, NEW ends, NEW M, NEW Ks
  PROVE  /\ Stream(full, ends)' <=> Stream(full, ends)
         /\ Context(s, base, full, ends, M, Ks)' <=> Context(s, base, full, ends, M, Ks)
<1>1. Stream(full, ends)' <=> Stream(full, ends)
  BY DEF Stream
<1>2. \A n : Meant(n)' = Meant(n)
  BY DEF Meant
<1>3. MeantAfter(s)' = MeantAfter(s)
  BY <1>2 DEF MeantAfter
<1>4. Means(M, s)' <=> Means(M, s)
  BY <1>2, <1>3 DEF Means
<1>5. Texts(Ks)' <=> Texts(Ks)
  BY DEF Texts
<1>6. WholeAfter(s)' <=> WholeAfter(s)
  BY DEF WholeAfter
<1> QED
  BY <1>1, <1>4, <1>5, <1>6 DEF Context

-----------------------------------------------------------------------------
(* A line as long as a length and a payload.                               *)

(* Before its end: a frame the reader is in has advanced with every byte.  *)
InBanner(ends, s) ==
  /\ Done(ends) < ends[s]
  /\ Done(ends) >= ends[s - 1] /\ inFrame => pos >= Done(ends) - ends[s - 1]

LEMMA BannerFacts ==
  ASSUME TypeOK, NEW full, NEW ends, Stream(full, ends), NEW s \in 1 .. Len(script), Banner(s)
  PROVE  /\ s \in Nat /\ Len(script) \in Nat
         /\ ends[s - 1] \in Nat /\ ends[s] = ends[s - 1] + Len(Wire(script[s])) /\ ends[s] <= ends[Len(script)]
         /\ ends[Len(script)] \in Nat
         /\ Len(Wire(script[s])) \in Nat /\ Len(Wire(script[s])) > MaxPayload + 2
         /\ \A x \in 1 .. Len(Wire(script[s])) : Wire(script[s])[x] # Marker
         /\ Wire(script[s])[Len(Wire(script[s]))] = Newline
<1>1. Len(script) \in Nat /\ s \in Nat
  BY ScriptType
<1>2. PICK item \in Items : item = script[s] /\ WellFormed(item) /\ IsText(item) /\ item.kind = "line"
                            /\ Len(item.body) >= MaxPayload + 2
  BY ItemFacts DEF Banner, IsText
<1>3. /\ Len(item.body) \in Nat /\ Len(Wire(item)) = Len(item.body) + 1
      /\ \A x \in 1 .. Len(item.body) : Wire(item)[x] # Marker
      /\ Wire(item)[Len(item.body) + 1] = Newline
  BY <1>2, WireOfText
<1>4. \A x \in 1 .. Len(Wire(item)) : Wire(item)[x] # Marker
  <2>1. \A x \in 1 .. Len(item.body) + 1 : x \in 1 .. Len(item.body) \/ x = Len(item.body) + 1
    BY <1>3
  <2> QED
    BY <1>3, <2>1 DEF Marker, Newline
<1>5. s - 1 \in 0 .. Len(script) /\ s \in 0 .. Len(script) /\ Len(script) \in 0 .. Len(script) /\ s <= Len(script)
  BY <1>1
<1>6. ends[s - 1] \in Nat /\ ends[s] <= ends[Len(script)] /\ ends[Len(script)] \in Nat
  BY <1>5 DEF Stream
<1>7. ends[s] = ends[s - 1] + Len(Wire(script[s]))
  BY Zenon DEF Stream
<1> QED
  BY <1>1, <1>2, <1>3, <1>4, <1>6, <1>7

LEMMA QuietBanner ==
  ASSUME Quiet, NEW ends, NEW s, InBanner(ends, s), script' = script, Done(ends)' = Done(ends)
  PROVE  InBanner(ends, s)'
<1>1. inFrame' => inFrame /\ pos' = pos
  BY QuietFacts DEF InPayload, LeaveFrame
<1> QED
  BY <1>1 DEF InBanner

(* Its last byte finds no frame under way.                                 *)
LEMMA BannerByte ==
  ASSUME IInv, Steady, ~raw, Takes, NEW s, NEW full, NEW ends, Stream(full, ends), StreamInv(full, ends),
         s \in 1 .. Len(script), Banner(s), InBanner(ends, s), Done(ends) >= ends[s - 1]
  PROVE  /\ ~Begin
         /\ Done(ends) + 1 = ends[s] => ScanText /\ byte = Newline
         /\ inFrame' => inFrame /\ pos' = pos + 1
<1>1. /\ s \in Nat /\ Len(script) \in Nat
      /\ ends[s - 1] \in Nat /\ ends[s] = ends[s - 1] + Len(Wire(script[s])) /\ ends[s] <= ends[Len(script)]
      /\ ends[Len(script)] \in Nat
      /\ Len(Wire(script[s])) \in Nat /\ Len(Wire(script[s])) > MaxPayload + 2
      /\ \A x \in 1 .. Len(Wire(script[s])) : Wire(script[s])[x] # Marker
      /\ Wire(script[s])[Len(Wire(script[s]))] = Newline
  BY BannerFacts DEF IInv
<1>2. Done(ends) \in Nat /\ Done(ends) < ends[s]
  BY DEF StreamInv, InBanner
<1> DEFINE x == Done(ends) - ends[s - 1] + 1
<1>3. x \in Nat /\ x \in 1 .. Len(Wire(script[s])) /\ Done(ends) + 1 = ends[s - 1] + x
  <2>1. PICK d \in Nat, a \in Nat, l \in Nat : d = Done(ends) /\ a = ends[s - 1] /\ l = Len(Wire(script[s]))
    BY <1>1, <1>2
  <2>2. d >= a /\ d < a + l
    BY <1>1, <1>2, <2>1
  <2>3. d - a + 1 \in Nat /\ d - a + 1 \in 1 .. l /\ d + 1 = a + (d - a + 1)
    <3>1. d \in Nat /\ a \in Nat /\ l \in Nat
      BY <2>1
    <3> QED
      BY ONLY <2>2, <3>1
  <2> QED
    BY <2>1, <2>3
<1>4. byte = Wire(script[s])[x]
  <2> HIDE DEF x
  <2>1. byte = full[Done(ends) + 1]
    BY ByteAtHand, TakesFacts
  <2>2. full[ends[s - 1] + x] = Wire(script[s])[x]
    BY <1>3, Zenon DEF Stream
  <2> QED
    BY <1>3, <2>1, <2>2
<1>5. byte # Marker
  BY <1>1, <1>3, <1>4
<1>6. ~Begin
  BY <1>5 DEF Begin, Steady
<1>7. inFrame' => inFrame /\ pos' = pos + 1
  <2>1. ScanText => inFrame' = inFrame /\ ~inFrame
    BY DEF ScanText, frameVars
  <2>2. StoreLength => slot = pos /\ inFrame
    BY DEF StoreLength, Steady
  <2>3. StorePayload => slot = pos /\ inFrame
    BY DEF StorePayload, Steady
  <2>4. StoreLength => ~inFrame' \/ pos' = slot + 1
    BY DEF StoreLength, LeaveFrame
  <2>5. StorePayload => ~inFrame' \/ pos' = slot + 1
    BY DEF StorePayload, LeaveFrame
  <2> QED
    BY <1>6, <2>1, <2>2, <2>3, <2>4, <2>5 DEF Takes
<1>8. ASSUME Done(ends) + 1 = ends[s] PROVE ScanText /\ byte = Newline
  <2>1. x = Len(Wire(script[s]))
    BY <1>1, <1>2, <1>8
  <2>2. byte = Newline
    BY <1>1, <1>4, <2>1
  <2>3. inFrame => pos >= MaxPayload + 2
    BY <1>1, <1>2, <1>8 DEF InBanner, IInv, TypeOK
  <2>4. ~StoreLength
    BY <2>3 DEF StoreLength, Steady, IInv, TypeOK
  <2>5. ~StorePayload
    <3> SUFFICES ASSUME StorePayload PROVE FALSE
      OBVIOUS
    <3>1. at = "payloadStore" /\ inFrame /\ offset = pos - 2 /\ offset < expected /\ expected <= MaxPayload
      BY DEF StorePayload, Steady, IInv, PosInv, TypeOK
    <3>2. expected \in Nat /\ pos \in Nat
      BY DEF IInv, TypeOK
    <3> QED
      BY <2>3, <3>1, <3>2
  <2> QED
    BY <1>6, <2>2, <2>4, <2>5 DEF Takes
<1> QED
  BY <1>6, <1>7, <1>8

LEMMA BannerStep ==
  ASSUME IInv, IInv', Steady, EmptyInv, [Next]_vars, ~raw',
         NEW s, NEW full, NEW ends, NEW M, NEW Ks, StreamInv(full, ends), Context(s, <<>>, full, ends, M, Ks),
         s \in 1 .. Len(script), Banner(s), InBanner(ends, s)
  PROVE  InBanner(ends, s)' \/ \E base \in Seq(Posts) : Parsed(base, ends, M, s, Ks)'
<1>1. Stream(full, ends) /\ script' = script /\ ~raw
  BY ScriptStays, RawStays DEF Context
<1>2. CASE ~Takes
  <2>1. Quiet
    BY <1>2, NextKinds, QuietSteps
  <2>2. Done(ends)' = Done(ends)
    BY <1>1, <1>2, StreamStep
  <2> QED
    BY <1>1, <2>1, <2>2, QuietBanner
<1>3. CASE Takes
  <2>1. Done(ends)' = Done(ends) + 1 /\ Done(ends) \in Nat /\ Done(ends) < ends[s]
    BY <1>1, <1>3, StreamTakes DEF StreamInv, InBanner
  <2>2. /\ s \in Nat /\ Len(script) \in Nat
        /\ ends[s - 1] \in Nat /\ ends[s] = ends[s - 1] + Len(Wire(script[s]))
        /\ Len(Wire(script[s])) \in Nat /\ Len(Wire(script[s])) > MaxPayload + 2
    BY <1>1, BannerFacts DEF IInv
  <2>3. pos \in Nat /\ pos' \in Nat
    BY DEF IInv, TypeOK
  <2>4. CASE Done(ends) < ends[s - 1]
    <3>1. Done(ends)' < ends[s] /\ (Done(ends)' >= ends[s - 1] => Done(ends)' - ends[s - 1] = 0)
      BY <2>1, <2>2, <2>4
    <3> QED
      BY <2>3, <3>1 DEF InBanner
  <2>5. CASE ~(Done(ends) < ends[s - 1])
    <3>1. Done(ends) >= ends[s - 1]
      BY <2>1, <2>2, <2>5
    <3>2. /\ Done(ends) + 1 = ends[s] => ScanText /\ byte = Newline
          /\ inFrame' => inFrame /\ pos' = pos + 1
      BY <1>1, <1>3, <3>1, BannerByte
    <3>3. CASE Done(ends) + 1 < ends[s]
      <4>1. inFrame' => pos' >= Done(ends)' - ends[s - 1]
        <5> SUFFICES ASSUME inFrame' PROVE pos' >= Done(ends)' - ends[s - 1]
          OBVIOUS
        <5>1. pos >= Done(ends) - ends[s - 1] /\ pos' = pos + 1
          BY <3>1, <3>2 DEF InBanner
        <5> QED
          BY <2>1, <2>2, <2>3, <5>1
      <4> QED
        BY <2>1, <3>3, <4>1 DEF InBanner
    <3>4. CASE Done(ends) + 1 = ends[s]
      <4>1. /\ delivered' = Flushed /\ line' = <<>> /\ ~inFrame' /\ at' \in {"read", "scan"}
        BY <3>2, <3>4 DEF ScanText, Consume, frameVars
      <4>2. PICK base \in Seq(Posts) : base = delivered'
        BY DEF IInv, TypeOK
      <4>3. Where(ends, s + 1, 0)'
        <5>1. PICK j \in Nat : j = Done(ends) - ends[s - 1]
          BY <2>1, <2>2, <3>1
        <5>2. j + 1 = Len(Wire(script[s])) /\ Done(ends) = ends[s - 1] + j /\ s # Len(script) + 1
              /\ s \in 1 .. Len(script) + 1 /\ j < Len(Wire(script[s]))
          <6>1. PICK d \in Nat, a \in Nat, l \in Nat : d = Done(ends) /\ a = ends[s - 1] /\ l = Len(Wire(script[s]))
            BY <2>1, <2>2
          <6>2. d + 1 = a + l /\ j = d - a
            BY <2>2, <3>4, <5>1, <6>1
          <6>3. j + 1 = l /\ d = a + j /\ j < l
            <7>1. d \in Nat /\ a \in Nat /\ l \in Nat
              BY <6>1
            <7> QED
              BY ONLY <6>2, <7>1
          <6>4. s # Len(script) + 1 /\ s \in 1 .. Len(script) + 1
            BY <2>2
          <6> QED
            BY <6>1, <6>3, <6>4
        <5>3. Where(ends, s, j)
          BY <5>2 DEF Where
        <5> QED
          BY <1>1, <2>1, <5>2, <5>3, Advance DEF IInv
      <4>4. UpTo(base, M, s, s) = base
        <5>1. s - s = 0 /\ M[0] = <<>>
          BY <2>2 DEF Context, Means
        <5>2. \A d \in Seq(Posts) : d \o <<>> = d
          OBVIOUS
        <5> QED
          BY <5>1, <5>2 DEF UpTo
      <4>5. (s + 1) - 1 = s /\ Flushed' = delivered'
        BY <2>2, <4>1 DEF Flushed
      <4>6. Idle(base, M, s, s + 1)'
        BY <4>1, <4>2, <4>4, <4>5 DEF Idle, UpTo
      <4>7. s + 1 \in s + 1 .. Len(script') + 1
        BY <1>1, <2>2
      <4>8. Parsed(base, ends, M, s, Ks)'
        BY <4>3, <4>6, <4>7 DEF Parsed, Phase
      <4> QED
        BY <4>2, <4>8
    <3> QED
      BY <2>1, <2>2, <3>3, <3>4
  <2> QED
    BY <2>4, <2>5
<1> QED
  BY <1>2, <1>3

-----------------------------------------------------------------------------
(* Meanings of any script, and the invariant.                              *)

LEMMA TextsExist == ASSUME TypeOK PROVE \E Ks : Texts(Ks)
<1>1. \A n \in 1 .. Len(script) : \E K : Keeps(K, script[n].body)
  BY ItemFacts, KeepsExists
<1> DEFINE Ks == [n \in 1 .. Len(script) |-> CHOOSE K : Keeps(K, script[n].body)]
<1>2. Texts(Ks)
  BY <1>1 DEF Texts
<1> QED
  BY <1>2

Parts(s) == [j \in 1 .. Len(script) - s |-> Meant(s + j)]

LEMMA PartsType ==
  ASSUME TypeOK, NEW s \in 0 .. Len(script)
  PROVE  Parts(s) \in Seq(Seq(Posts)) /\ Len(Parts(s)) = Len(script) - s
         /\ MeantAfter(s) = FlattenSeq(Parts(s))
         /\ \A n \in 1 .. Len(script) - s : Parts(s)[n] = Meant(s + n)
<1>1. Len(script) \in Nat /\ s \in Nat /\ Len(script) - s \in Nat
  BY ScriptType
<1> DEFINE U == Seq(Posts)
           N == Len(script) - s
<1>2. \A j \in 1 .. N : Meant(s + j) \in U
  <2> TAKE j \in 1 .. N
  <2>1. s + j \in 1 .. Len(script)
    BY <1>1
  <2> QED
    BY <2>1, MeantType
<1>3. \A n \in 1 .. N : Parts(s)[n] = Meant(s + n)
  BY DEF Parts
<1>4. Parts(s) = [j \in 1 .. N |-> Parts(s)[j]]
  BY DEF Parts
<1>5. MeantAfter(s) = FlattenSeq(Parts(s))
  BY DEF MeantAfter, Parts
<1> HIDE DEF U, N
<1>6. \A j \in 1 .. N : Parts(s)[j] \in U
  BY <1>2, <1>3
<1>7. N \in Nat
  BY <1>1 DEF N
<1>8. Parts(s) \in Seq(U) /\ Len(Parts(s)) = N
  BY <1>4, <1>6, <1>7
<1> QED
  BY <1>3, <1>5, <1>8 DEF U, N

LEMMA MeansExist == ASSUME TypeOK, NEW s \in 0 .. Len(script) PROVE \E M : Means(M, s)
<1>1. /\ Parts(s) \in Seq(Seq(Posts)) /\ Len(Parts(s)) = Len(script) - s
      /\ MeantAfter(s) = FlattenSeq(Parts(s))
      /\ \A n \in 1 .. Len(script) - s : Parts(s)[n] = Meant(s + n)
  BY PartsType
<1>2. PICK M : Joins(M, Parts(s), Posts)
  BY <1>1, JoinsExist
<1>3. FlattenSeq(Parts(s)) = M[Len(Parts(s))]
  BY <1>1, <1>2, FlattenIsJoin
<1>4. Means(M, s)
  BY <1>1, <1>2, <1>3 DEF Means, Joins
<1> QED
  BY <1>4

(* What is meant so far is a beginning of what is meant.                   *)
LEMMA MeansGrow ==
  ASSUME TypeOK, NEW M, Means(M, 0), NEW n \in 0 .. Len(script)
  PROVE  /\ \E rest \in Seq(Posts) : AllMeant = M[n] \o rest
         /\ M[n] \in Seq(Posts)
<1>1. Len(script) \in Nat /\ 0 \in 0 .. Len(script) /\ Len(script) - 0 = Len(script) /\ n <= Len(script)
      /\ Len(script) \in 0 .. Len(script)
  BY ScriptType
<1>2. /\ Parts(0) \in Seq(Seq(Posts)) /\ Len(Parts(0)) = Len(script)
      /\ \A m \in 1 .. Len(script) : Parts(0)[m] = Meant(0 + m)
  BY <1>1, PartsType
<1>3. Joins(M, Parts(0), Posts) /\ M[Len(script)] = AllMeant
  BY <1>1, <1>2 DEF Means, Joins, AllMeant
<1>4. GoesOn(M, n, Len(script), Seq(Posts))
  BY <1>1, <1>2, <1>3, JoinsGrow
<1>5. M[n] \in Seq(Posts)
  BY <1>1, <1>3, <1>2 DEF Joins
<1> QED
  BY <1>3, <1>4, <1>5 DEF GoesOn

LEMMA BeginsPrefix == ASSUME NEW T, NEW u \in Seq(T), NEW v \in Seq(T) PROVE IsPrefix(u, u \o v) /\ IsPrefix(u, u)
BY DEF IsPrefix

LEMMA EndsSuffix == ASSUME NEW T, NEW u \in Seq(T), NEW v \in Seq(T) PROVE IsSuffix(v, u \o v)
<1> DEFINE w == u \o v
           m == Len(v)
           n == Len(w)
<1>1. w \in Seq(T) /\ m \in Nat /\ n \in Nat /\ n = Len(u) + m /\ Len(u) \in Nat
  OBVIOUS
<1>2. \A i \in 1 .. m : v[(m - i) + 1] = w[(n - i) + 1]
  <2> TAKE i \in 1 .. m
  <2>1. (m - i) + 1 \in 1 .. m /\ (n - i) + 1 = Len(u) + ((m - i) + 1)
    BY <1>1
  <2> QED
    BY <2>1
<1> HIDE DEF w, m, n
<1>3. Reverse(v) = [i \in 1 .. m |-> v[(m - i) + 1]]
  BY DEF Reverse, m
<1>4. Reverse(w) = [i \in 1 .. n |-> w[(n - i) + 1]]
  BY DEF Reverse, n
<1>5. Len(Reverse(v)) = m /\ Reverse(v) \in Seq(T)
  <2>1. \A i \in 1 .. m : v[(m - i) + 1] \in T
    BY DEF m
  <2> QED
    BY <1>1, <1>3, <2>1
<1>6. Len(Reverse(w)) = n /\ Reverse(w) \in Seq(T)
  <2>1. \A i \in 1 .. n : w[(n - i) + 1] \in T
    BY <1>1 DEF n
  <2> QED
    BY <1>1, <1>4, <2>1
<1>7. m <= n
  BY <1>1
<1>8. SubSeq(Reverse(v), 1, m) = SubSeq(Reverse(w), 1, m)
  <2>1. SubSeq(Reverse(v), 1, m) = [i \in 1 .. m |-> v[(m - i) + 1]]
    BY <1>1, <1>3, <1>5
  <2>2. SubSeq(Reverse(w), 1, m) = [i \in 1 .. m |-> w[(n - i) + 1]]
    BY <1>1, <1>4, <1>6, <1>7
  <2> QED
    BY <1>2, <2>1, <2>2
<1>9. IsPrefix(Reverse(v), Reverse(w))
  BY <1>5, <1>6, <1>7, <1>8 DEF IsPrefix
<1> QED
  BY <1>9 DEF IsSuffix, w

-----------------------------------------------------------------------------
(* Whatever stream and meaning the script has, the reader follows it.      *)

StreamFollowed == \A full, ends : Stream(full, ends) => StreamInv(full, ends)
WholeParsed ==
  ~raw => \A full, ends, M, Ks : Context(0, <<>>, full, ends, M, Ks) => Parsed(<<>>, ends, M, 0, Ks)
BannerParsed ==
  ~raw => \A s, full, ends, M, Ks :
            s \in 1 .. Len(script) /\ Banner(s) /\ Context(s, <<>>, full, ends, M, Ks) =>
              InBanner(ends, s) \/ \E base \in Seq(Posts) : Parsed(base, ends, M, s, Ks)

ParseInv == IInv /\ Steady /\ EmptyInv /\ StreamFollowed /\ WholeParsed /\ BannerParsed

LEMMA ParseInit == ASSUME Init PROVE ParseInv
<1>1. IInv /\ TypeOK
  BY InitIInv DEF IInv
<1>2. Steady /\ EmptyInv
  BY DEF Init, Steady, EmptyInv
<1>3. StreamFollowed
  BY <1>1, StreamInit DEF StreamFollowed
<1>4. WholeParsed
  <2> SUFFICES ASSUME NEW full, NEW ends, NEW M, NEW Ks, Context(0, <<>>, full, ends, M, Ks)
               PROVE  Parsed(<<>>, ends, M, 0, Ks)
    BY DEF WholeParsed
  <2>1. Stream(full, ends) /\ M[0] = <<>> /\ Done(ends) = 0 /\ ends[0] = 0
    <3>1. Stream(full, ends) /\ Means(M, 0)
      BY DEF Context
    <3>2. Done(ends) = 0
      BY <1>1, <3>1, StreamInit
    <3> QED
      BY <3>1, <3>2 DEF Means, Stream
  <2>2. Len(script) \in Nat
    BY <1>1, ScriptType
  <2>3. Where(ends, 1, 0)
    <3>1. 1 <= Len(script) => 0 < Len(Wire(script[1]))
      BY <1>1, <2>2, WireNotEmpty
    <3>2. 1 \in 1 .. Len(script) + 1 /\ 1 - 1 = 0 /\ 0 + 0 = 0 /\ 0 \in Nat
      BY <2>2
    <3>3. Done(ends) = ends[1 - 1] + 0
      BY <2>1, <3>2
    <3> QED
      BY <3>1, <3>2, <3>3 DEF Where
  <2>4. Idle(<<>>, M, 0, 1)
    <3>1. line = <<>> /\ delivered = <<>> /\ ~inFrame /\ at = "read" /\ Flushed = <<>>
      BY DEF Init, Flushed
    <3>2. <<>> \o M[(1 - 1) - 0] = <<>>
      <4>1. (1 - 1) - 0 = 0
        OBVIOUS
      <4>2. M[(1 - 1) - 0] = <<>>
        BY <2>1, <4>1
      <4>3. <<>> \o <<>> = <<>>
        OBVIOUS
      <4> QED
        BY <4>2, <4>3
    <3> QED
      BY <3>1, <3>2 DEF Idle, UpTo
  <2>5. 1 \in 0 + 1 .. Len(script) + 1
    BY <2>2
  <2> QED
    BY <2>3, <2>4, <2>5 DEF Parsed, Phase
<1>5. BannerParsed
  <2> SUFFICES ASSUME NEW s, NEW full, NEW ends, NEW M, NEW Ks, s \in 1 .. Len(script), Banner(s),
                      Context(s, <<>>, full, ends, M, Ks)
               PROVE  InBanner(ends, s)
    BY DEF BannerParsed
  <2>1. Stream(full, ends) /\ Done(ends) = 0
    BY <1>1, StreamInit DEF Context
  <2>2. ends[s - 1] \in Nat /\ ends[s] = ends[s - 1] + Len(Wire(script[s])) /\ Len(Wire(script[s])) \in Nat
        /\ Len(Wire(script[s])) > MaxPayload + 2
    BY <1>1, <2>1, BannerFacts
  <2>3. ~inFrame
    BY DEF Init
  <2> QED
    BY <2>1, <2>2, <2>3 DEF InBanner
<1> QED
  BY <1>1, <1>2, <1>3, <1>4, <1>5 DEF ParseInv

LEMMA ParseStep == ASSUME ParseInv, [Next]_vars, IInv' PROVE ParseInv'
<1> USE DEF ParseInv
<1>1. Steady' /\ EmptyInv' /\ script' = script
  BY SteadyStep, EmptyStep, ScriptStays
<1>2. StreamFollowed'
  <2> SUFFICES ASSUME NEW full, NEW ends, Stream(full, ends)' PROVE StreamInv(full, ends)'
    BY DEF StreamFollowed
  <2>1. Stream(full, ends) /\ StreamInv(full, ends)
    BY <1>1, ContextStays DEF StreamFollowed
  <2> QED
    BY <2>1, StreamStep
<1>3. WholeParsed'
  <2> SUFFICES ASSUME ~raw', NEW full, NEW ends, NEW M, NEW Ks, Context(0, <<>>, full, ends, M, Ks)'
               PROVE  Parsed(<<>>, ends, M, 0, Ks)'
    BY DEF WholeParsed
  <2>1. Context(0, <<>>, full, ends, M, Ks) /\ ~raw
    BY <1>1, ContextStays, RawStays
  <2>2. StreamInv(full, ends) /\ Parsed(<<>>, ends, M, 0, Ks)
    BY <2>1 DEF StreamFollowed, WholeParsed, Context
  <2> QED
    BY <2>1, <2>2, ParsedStep
<1>4. BannerParsed'
  <2> SUFFICES ASSUME ~raw', NEW s, NEW full, NEW ends, NEW M, NEW Ks, s \in 1 .. Len(script'), Banner(s)',
                      Context(s, <<>>, full, ends, M, Ks)'
               PROVE  InBanner(ends, s)' \/ \E base \in Seq(Posts) : Parsed(base, ends, M, s, Ks)'
    BY DEF BannerParsed
  <2>1. Context(s, <<>>, full, ends, M, Ks) /\ ~raw /\ s \in 1 .. Len(script) /\ Banner(s)
    BY <1>1, ContextStays, RawStays DEF Banner
  <2>2. StreamInv(full, ends)
    BY <2>1 DEF StreamFollowed, Context
  <2>3. CASE InBanner(ends, s)
    BY <2>1, <2>2, <2>3, BannerStep
  <2>4. ASSUME NEW base \in Seq(Posts), Parsed(base, ends, M, s, Ks) PROVE Parsed(base, ends, M, s, Ks)'
    <3>1. Context(s, base, full, ends, M, Ks)
      BY <2>1 DEF Context
    <3> QED
      BY <2>2, <2>4, <3>1, ParsedStep
  <2> QED
    BY <2>1, <2>3, <2>4 DEF BannerParsed
<1> QED
  BY <1>1, <1>2, <1>3, <1>4

(* What was posted is a beginning of what the script means.                *)
LEMMA ParsedInOrder == ASSUME ParseInv PROVE InOrder
<1> SUFFICES ASSUME Whole, ~raw PROVE IsPrefix(delivered, AllMeant)
  BY DEF InOrder
<1>1. TypeOK /\ Len(script) \in Nat
  BY ScriptType DEF ParseInv, IInv
<1>2. PICK full, ends : Stream(full, ends)
  BY <1>1, StreamExists
<1>3. PICK M : Means(M, 0)
  BY <1>1, MeansExist
<1>4. PICK Ks : Texts(Ks)
  BY <1>1, TextsExist
<1>5. Context(0, <<>>, full, ends, M, Ks)
  BY <1>1, <1>2, <1>3, <1>4 DEF Context, Whole
<1>6. PICK k \in 0 + 1 .. Len(script) + 1, j \in Nat : Where(ends, k, j) /\ Phase(<<>>, M, 0, Ks, k, j)
  BY <1>5 DEF ParseInv, WholeParsed, Parsed
<1>7. k - 1 \in 0 .. Len(script) /\ (k - 1) - 0 = k - 1
  BY <1>1
<1>8. PICK u \in Seq(Posts) : u = M[k - 1] /\ \E rest \in Seq(Posts) : AllMeant = u \o rest
  BY <1>1, <1>3, <1>7, MeansGrow
<1>9. UpTo(<<>>, M, 0, k - 1) = u
  <2>1. <<>> \o u = u
    OBVIOUS
  <2> QED
    BY <1>7, <1>8, <2>1 DEF UpTo
<1>10. delivered = u \/ Flushed = u
  BY <1>6, <1>9 DEF Phase, Idle, Emptied, Texting, Framing
<1>11. PICK r \in Seq(Posts) : u = delivered \o r
  <2>1. <<>> \in Seq(Posts) /\ Lines(line) \in Seq(Posts)
    BY <1>1, LinesType DEF TypeOK
  <2> QED
    BY <1>1, <1>10, <2>1, FlushedIs
<1>12. PICK t \in Seq(Posts) : AllMeant = u \o t
  BY <1>8
<1>13. delivered \in Seq(Posts)
  BY <1>1 DEF TypeOK
<1>14. AllMeant = delivered \o (r \o t) /\ r \o t \in Seq(Posts)
  BY <1>11, <1>12, <1>13
<1> QED
  BY <1>13, <1>14, BeginsPrefix

(* When all was read after the line, what follows it is at the end.        *)
LEMMA ParsedResyncs == ASSUME ParseInv PROVE Resyncs
<1> SUFFICES ASSUME AllRead, ~raw, NEW s \in DOMAIN script, Banner(s), WholeAfter(s)
             PROVE  IsSuffix(MeantAfter(s), delivered)
  BY DEF Resyncs
<1>1. TypeOK /\ Len(script) \in Nat /\ s \in 1 .. Len(script) /\ s \in 0 .. Len(script)
  BY ScriptType DEF ParseInv, IInv
<1>2. PICK full, ends : Stream(full, ends)
  BY <1>1, StreamExists
<1>3. PICK M : Means(M, s)
  BY <1>1, MeansExist
<1>4. PICK Ks : Texts(Ks)
  BY <1>1, TextsExist
<1>5. Context(s, <<>>, full, ends, M, Ks)
  BY <1>1, <1>2, <1>3, <1>4 DEF Context
<1>6. Done(ends) = ends[Len(script)] /\ ends[Len(script)] \in Nat
  <2>1. todo = <<>> /\ wire = <<>> /\ buf = <<>>
    BY DEF AllRead, ParseInv, EmptyInv
  <2>2. Len(todo) = 0 /\ Len(wire) = 0 /\ Len(buf) = 0
    BY <2>1
  <2>3. Len(script) - Len(todo) = Len(script)
    BY <1>1, <2>2
  <2>4. Len(script) \in 0 .. Len(script)
    BY <1>1
  <2>5. ends[Len(script)] \in Nat
    BY <1>2, <2>4 DEF Stream
  <2>6. Done(ends) = ends[Len(script)] - 0 - 0
    BY <2>2, <2>3 DEF Done
  <2> QED
    BY <2>5, <2>6
<1>7. ~InBanner(ends, s)
  <2>1. ends[s - 1] \in Nat /\ ends[s] = ends[s - 1] + Len(Wire(script[s])) /\ ends[s] <= ends[Len(script)]
        /\ Len(Wire(script[s])) \in Nat
    BY <1>1, <1>2, BannerFacts
  <2> QED
    BY <1>6, <2>1 DEF InBanner
<1>8. PICK base \in Seq(Posts) : Parsed(base, ends, M, s, Ks)
  BY <1>1, <1>5, <1>7 DEF ParseInv, BannerParsed
<1>9. PICK k \in s + 1 .. Len(script) + 1, j \in Nat : Where(ends, k, j) /\ Phase(base, M, s, Ks, k, j)
  BY <1>8 DEF Parsed
<1>10. k = Len(script) + 1
  <2> SUFFICES ASSUME k # Len(script) + 1 PROVE FALSE
    OBVIOUS
  <2>1. k \in 1 .. Len(script) /\ k - 1 \in 0 .. Len(script) /\ k \in 0 .. Len(script) /\ Len(script) \in 0 .. Len(script)
        /\ k <= Len(script)
    BY <1>1
  <2>2. j < Len(Wire(script[k])) /\ Done(ends) = ends[k - 1] + j
    BY <1>9, <2>1 DEF Where
  <2>3. ends[k] = ends[k - 1] + Len(Wire(script[k]))
    BY <1>2, <2>1, Zenon DEF Stream
  <2>4. ends[k] <= ends[Len(script)] /\ ends[k - 1] \in Nat
    BY <1>2, <2>1 DEF Stream
  <2>5. Len(Wire(script[k])) \in Nat
    <3>1. Wire(script[k]) \in Seq(Byte)
      BY <1>1, <2>1, ItemFacts, WireType
    <3> QED
      BY <3>1
  <2> QED
    BY <1>6, <2>2, <2>3, <2>4, <2>5
<1>11. j = 0 /\ ~(k <= Len(script)) /\ (k - 1) - s = Len(script) - s
  BY <1>1, <1>9, <1>10 DEF Where
<1>12. delivered = UpTo(base, M, s, k - 1)
  BY <1>9, <1>11 DEF Phase, Idle, Emptied
<1>13. UpTo(base, M, s, k - 1) = base \o MeantAfter(s)
  BY <1>3, <1>11 DEF UpTo, Means
<1>14. MeantAfter(s) \in Seq(Posts)
  <2>1. Len(script) - s \in 0 .. Len(script) - s
    BY <1>1
  <2> QED
    BY <1>3, <2>1 DEF Means
<1> QED
  BY <1>12, <1>13, <1>14, EndsSuffix

(* _ProcessBuffer takes the stream apart the way it was put together,      *)
(* whatever the device sends and in whatever pieces it is read: what it    *)
(* posts is a beginning of what was sent, and after an unfinished frame    *)
(* and a line as long as the longest frame it is in step again.            *)
THEOREM TakesApart == Spec => []StreamParsed
<1>1. ParseInv /\ [Next]_vars /\ IInv' => ParseInv'
  BY ParseStep
<1>2. Init => ParseInv
  BY ParseInit
<1>3. ParseInv => StreamParsed
  BY ParsedInOrder, ParsedResyncs DEF StreamParsed
<1> QED
  BY Inductive, <1>1, <1>2, <1>3, PTL DEF Spec
=============================================================================
