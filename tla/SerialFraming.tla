--------------------------- MODULE SerialFraming ----------------------------
(***************************************************************************)
(* The byte stream from a companion radio, as SerialHandler's reader takes *)
(* it apart: frames - a marker, two bytes of length, a payload - and       *)
(* between them text, which boot loaders and consoles print.               *)
(*                                                                         *)
(* The reader thread works on its fields without a lock, and SetRawMode,   *)
(* called by the window's thread when no companion answers, writes three   *)
(* of them.  A step of the reader is what it does between two loads of a   *)
(* field that SetRawMode writes.  The port delivers bytes in pieces of any *)
(* size; SerialLink models how it opens and closes.                        *)
(***************************************************************************)
EXTENDS Integers, Sequences, SequencesExt

CONSTANTS
  Scripts,    \* what the device may send, sequences of items
  MaxPayload, \* kMaxFramePayload
  MaxLine,    \* the room in fLineBuffer
  MaxRead,    \* bound: the reader gets at most so many bytes at once
  Hazards     \* what may happen: "raw"

Byte == 0 .. 255
Marker == 62
Newline == 10
Return == 13
Printable(b) == b >= 32
Size(lo, hi) == lo + 256 * hi

(* "cut" is a frame the device did not finish, "prompt" a text without end.*)
Kinds == {"frame", "cut", "line", "prompt"}
Items == [kind : Kinds, lo : Byte, hi : Byte, body : Seq(Byte)]
Posts == [kind : {"frame", "line"}, body : Seq(Byte)]
IsText(item) == item.kind \in {"line", "prompt"}
WellFormed(item) ==
  /\ IsText(item) => item.body # <<>> /\ \A j \in DOMAIN item.body : item.body[j] \notin {Marker, Newline, Return}
  /\ ~IsText(item) => Len(item.body) = Size(item.lo, item.hi) /\ Len(item.body) <= MaxPayload
  /\ item.kind = "cut" => item.body # <<>>

(* A text that goes on after a prompt belongs to it.                       *)
Separated(s) == \A i \in DOMAIN s : s[i].kind = "prompt" /\ i < Len(s) => ~IsText(s[i + 1])

ASSUME BoundsAssumption == MaxPayload \in Nat /\ MaxLine \in Nat \ {0} /\ MaxRead \in Nat \ {0}
ASSUME ScriptsAssumption == Scripts \subseteq {s \in Seq({item \in Items : WellFormed(item)}) : Separated(s)}
ASSUME HazardsAssumption == Hazards \subseteq {"raw"}

VARIABLES
  script,    \* what the device sends
  todo,      \* the items of it the device has not written
  wire,      \* the bytes the reader has not read
  buf,       \* fReadBuffer from fBufferPos to fBufferLen
  at,        \* where the reader is
  slot,      \* the fFramePos it loaded
  offset,    \* its payloadPos
  inFrame,   \* fInFrame
  pos,       \* fFramePos
  frame,     \* fFrameBuffer
  expected,  \* fExpectedFrameLen
  line,      \* fLineBuffer up to fLineLen
  raw,       \* fRawMode
  setting,   \* where SetRawMode is
  delivered, \* the frames and lines posted to the window
  afterRaw   \* how many frames were posted in raw mode

readerVars == <<at, slot, offset>>
frameVars == <<inFrame, pos, frame, expected>>
outVars == <<line, delivered, afterRaw>>
vars == <<script, todo, wire, buf, readerVars, frameVars, outVars, raw, setting>>

Slots == 0 .. MaxPayload + 2

TypeOK ==
  /\ script \in Scripts
  /\ todo \in Seq({item \in Items : WellFormed(item)})
  /\ wire \in Seq(Byte) /\ buf \in Seq(Byte)
  /\ at \in {"read", "scan", "begin", "length", "lengthStore", "payload", "load", "payloadStore"}
  /\ slot \in Nat /\ offset \in Nat
  /\ inFrame \in BOOLEAN
  /\ pos \in 0 .. MaxPayload + 2
  /\ frame \in [Slots -> Byte]
  /\ expected \in 0 .. MaxPayload
  /\ line \in Seq(Byte)
  /\ raw \in BOOLEAN
  /\ setting \in {"no", "frame", "pos", "done"}
  /\ delivered \in Seq(Posts)
  /\ afterRaw \in Nat

(* What the device writes for an item.                                     *)
Header(item) == IF IsText(item) THEN <<>> ELSE <<Marker, item.lo, item.hi>>
Rest(item) ==
  IF item.kind = "line" THEN Append(item.body, Newline)
  ELSE IF item.kind = "cut" THEN Front(item.body) ELSE item.body
Wire(item) == Header(item) \o Rest(item)

Init ==
  /\ script \in Scripts
  /\ todo = script
  /\ wire = <<>>
  /\ buf = <<>>
  /\ at = "read"
  /\ slot = 0 /\ offset = 0
  /\ inFrame = FALSE /\ pos = 0 /\ expected = 0
  /\ frame = [i \in Slots |-> 0]
  /\ line = <<>>
  /\ raw = FALSE /\ setting = "no"
  /\ delivered = <<>> /\ afterRaw = 0

-----------------------------------------------------------------------------
(* The device.                                                             *)
Write ==
  /\ todo # <<>>
  /\ Len(wire) < MaxRead
  /\ wire' = wire \o Wire(Head(todo))
  /\ todo' = Tail(todo)
  /\ UNCHANGED <<script, buf, readerVars, frameVars, outVars, raw, setting>>

-----------------------------------------------------------------------------
(* _ProcessBuffer.                                                         *)

byte == Head(buf)

Consume ==
  /\ buf' = Tail(buf)
  /\ at' = IF Len(buf) = 1 THEN "read" ELSE "scan"

Post(kind, body) == [kind |-> kind, body |-> body]
Flushed == IF line = <<>> THEN delivered ELSE Append(delivered, Post("line", line))

Read ==
  /\ at = "read"
  /\ \E n \in 1 .. MaxRead :
       /\ n <= Len(wire)
       /\ buf' = SubSeq(wire, 1, n)
       /\ wire' = SubSeq(wire, n + 1, Len(wire))
  /\ at' = "scan"
  /\ UNCHANGED <<script, todo, slot, offset, frameVars, outVars, raw, setting>>

StartsFrameAlways == byte = Marker
StartsFrame == byte = Marker /\ ~raw

(* Text is collected until its line ends; what does not fit is dropped.    *)
ScanText ==
  /\ at = "scan" /\ ~inFrame /\ ~StartsFrame
  /\ Consume
  /\ \/ byte \in {Newline, Return} /\ delivered' = Flushed /\ line' = <<>>
     \/ /\ byte \notin {Newline, Return}
        /\ line' = IF Printable(byte) /\ Len(line) < MaxLine THEN Append(line, byte) ELSE line
        /\ UNCHANGED delivered
  /\ UNCHANGED <<script, todo, wire, slot, offset, frameVars, afterRaw, raw, setting>>

ScanMarker ==
  /\ at = "scan" /\ ~inFrame /\ StartsFrame
  /\ at' = "begin"
  /\ UNCHANGED <<script, todo, wire, buf, slot, offset, frameVars, outVars, raw, setting>>

Begin ==
  /\ at = "begin"
  /\ delivered' = Flushed
  /\ line' = <<>>
  /\ inFrame' = TRUE
  /\ pos' = 0
  /\ expected' = 0
  /\ Consume
  /\ UNCHANGED <<script, todo, wire, slot, offset, frame, afterRaw, raw, setting>>

ScanFrame ==
  /\ at = "scan" /\ inFrame
  /\ at' = IF pos < 2 THEN "length" ELSE "payload"
  /\ UNCHANGED <<script, todo, wire, buf, slot, offset, frameVars, outVars, raw, setting>>

(* fFrameBuffer[fFramePos++] loads the position and stores two fields.     *)
Load(from, to) ==
  /\ at = from
  /\ slot' = pos
  /\ at' = to
  /\ UNCHANGED <<script, todo, wire, buf, offset, frameVars, outVars, raw, setting>>

LoadLength == Load("length", "lengthStore")
LoadPayload == Load("load", "payloadStore")

LeaveFrame == inFrame' = FALSE /\ pos' = 0

(* A length of more than a frame may hold ends the frame at once.          *)
TooLongNever(n) == FALSE
TooLongAtMax(n) == n >= MaxPayload
TooLong(n) == n > MaxPayload

StoreLength ==
  /\ at = "lengthStore"
  /\ Consume
  /\ frame' = [frame EXCEPT ![slot] = byte]
  /\ LET size == Size(frame'[0], frame'[1])
     IN \/ slot + 1 # 2 /\ pos' = slot + 1 /\ UNCHANGED <<inFrame, expected>>
        \/ slot + 1 = 2 /\ ~TooLong(size) /\ expected' = size /\ pos' = slot + 1 /\ UNCHANGED inFrame
        \/ slot + 1 = 2 /\ TooLong(size) /\ UNCHANGED expected /\ LeaveFrame
  /\ UNCHANGED <<script, todo, wire, slot, offset, outVars, raw, setting>>

(* A frame of no payload ends here, one byte late; so does one whose       *)
(* position was reset since it was tested, as an unsigned difference.      *)
InPayload ==
  /\ at = "payload"
  /\ \/ /\ pos >= 2 /\ pos - 2 < expected
        /\ offset' = pos - 2
        /\ at' = "load"
        /\ UNCHANGED <<inFrame, pos>>
     \/ /\ ~(pos >= 2 /\ pos - 2 < expected)
        /\ LeaveFrame
        /\ at' = "scan"
        /\ UNCHANGED offset
  /\ UNCHANGED <<script, todo, wire, buf, slot, frame, expected, outVars, raw, setting>>

StorePayload ==
  /\ at = "payloadStore"
  /\ Consume
  /\ frame' = [frame EXCEPT ![slot] = byte]
  /\ \/ /\ offset + 1 = expected
        /\ delivered' = Append(delivered, Post("frame", [i \in 1 .. expected |-> frame'[i + 1]]))
        /\ afterRaw' = IF raw THEN afterRaw + 1 ELSE afterRaw
        /\ LeaveFrame
     \/ /\ offset + 1 # expected
        /\ pos' = slot + 1
        /\ UNCHANGED <<inFrame, delivered, afterRaw>>
  /\ UNCHANGED <<script, todo, wire, slot, offset, expected, line, raw, setting>>

Reader ==
  \/ Read \/ ScanText \/ ScanMarker \/ Begin \/ ScanFrame
  \/ LoadLength \/ StoreLength \/ InPayload \/ LoadPayload \/ StorePayload

-----------------------------------------------------------------------------
(* SetRawMode(true), by the window's thread.  The reader does not take the *)
(* lock it holds.                                                          *)
SetRaw ==
  /\ "raw" \in Hazards
  /\ setting = "no"
  /\ raw' = TRUE
  /\ setting' = "frame"
  /\ UNCHANGED <<script, todo, wire, buf, readerVars, frameVars, outVars>>

SetNoFrame ==
  /\ setting = "frame"
  /\ inFrame' = FALSE
  /\ setting' = "pos"
  /\ UNCHANGED <<script, todo, wire, buf, readerVars, pos, frame, expected, outVars, raw>>

SetNoPos ==
  /\ setting = "pos"
  /\ pos' = 0
  /\ setting' = "done"
  /\ UNCHANGED <<script, todo, wire, buf, readerVars, inFrame, frame, expected, outVars, raw>>

SetRawMode == SetRaw \/ SetNoFrame \/ SetNoPos

Next == Write \/ Reader \/ SetRawMode

Spec == Init /\ [][Next]_vars
FairSpec == Spec /\ WF_vars(Write) /\ WF_vars(Reader)

-----------------------------------------------------------------------------
(* Properties.                                                             *)

(* Every byte is stored inside fFrameBuffer, whatever lengths arrive and   *)
(* whenever SetRawMode moves the position.                                 *)
StoresInBuffer == at \in {"lengthStore", "payloadStore"} => slot \in Slots

(* What the program should make of item i: a frame with a payload, or the  *)
(* printable text of a line, as much as there is room for.  A prompt is a  *)
(* line once a frame follows.                                              *)
Text(body) ==
  LET kept[n \in 0 .. Len(body)] ==
        IF n = 0 THEN <<>>
        ELSE IF Printable(body[n]) THEN Append(kept[n - 1], body[n]) ELSE kept[n - 1]
      text == kept[Len(body)]
  IN SubSeq(text, 1, IF Len(text) < MaxLine THEN Len(text) ELSE MaxLine)
Lines(text) == IF text = <<>> THEN <<>> ELSE <<Post("line", text)>>
Meant(i) ==
  CASE script[i].kind = "frame" /\ script[i].body # <<>> -> <<Post("frame", script[i].body)>>
    [] script[i].kind = "line" \/ (script[i].kind = "prompt" /\ i < Len(script)) -> Lines(Text(script[i].body))
    [] OTHER -> <<>>
MeantAfter(n) == FlattenSeq([j \in 1 .. Len(script) - n |-> Meant(n + j)])
AllMeant == MeantAfter(0)
WholeAfter(n) == \A i \in n + 1 .. Len(script) : script[i].kind # "cut"
Whole == WholeAfter(0)

(* As long as the device finishes its frames and the mode stays, frames    *)
(* and lines come out as they were sent, in order, in whatever pieces they *)
(* were read: a marker or a newline in a payload ends nothing.             *)
InOrder == Whole /\ ~raw => IsPrefix(delivered, AllMeant)

(* And all of them come out.                                               *)
AllDelivered == <>(raw \/ ~Whole \/ delivered = AllMeant)

(* A device that restarts within a frame and prints a line at least as     *)
(* long as a length and a payload is understood again: what it sends after *)
(* that line is delivered last.                                            *)
Banner(i) == script[i].kind = "line" /\ Len(script[i].body) >= MaxPayload + 2
AllRead == todo = <<>> /\ wire = <<>> /\ at = "read"
Resyncs ==
  AllRead /\ ~raw => \A i \in DOMAIN script : Banner(i) /\ WholeAfter(i) => IsSuffix(MeantAfter(i), delivered)

(* _ProcessBuffer takes the stream apart the way it was put together: in   *)
(* order, and in step again after an unfinished frame.                     *)
StreamParsed == InOrder /\ Resyncs

(* Raw mode lets through the frame that was under way, and no other.       *)
OneAfterRaw == afterRaw <= 1
=============================================================================
