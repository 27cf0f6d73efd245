--------------------------- MODULE MqttClient_proofs ---------------------------
(***************************************************************************)
(* What holds of MqttClient for every number of clicks and losses: its     *)
(* types, that a manual disconnect lasts, and that the client knows its    *)
(* connection once every report is handled.                                *)
(***************************************************************************)
EXTENDS MqttClient, TLAPS

Orders == {"connect", "disconnect"}
Messages == {"connect", "disconnect", "timer"} \cup States

-----------------------------------------------------------------------------
(* What the last of some messages is.                                      *)

NoneOf(q, S) == \A i \in 1 .. Len(q) : q[i] \notin S
LastIs(q, S, x) ==
  \E i \in 1 .. Len(q) : q[i] \in S /\ q[i] = x /\ \A j \in i + 1 .. Len(q) : q[j] \notin S

(* A message of another kind changes nothing, one of the kind is the last. *)
LEMMA AppendLast ==
  ASSUME NEW T, NEW q \in Seq(T), NEW e \in T, NEW S, NEW x
  PROVE  /\ Append(q, e) \in Seq(T)
         /\ e \notin S /\ NoneOf(q, S) => NoneOf(Append(q, e), S)
         /\ e \notin S /\ LastIs(q, S, x) => LastIs(Append(q, e), S, x)
         /\ e \in S => LastIs(Append(q, e), S, e)
<1> DEFINE r == Append(q, e)
<1>1. r \in Seq(T) /\ Len(q) \in Nat /\ Len(r) = Len(q) + 1 /\ r[Len(q) + 1] = e
  OBVIOUS
<1>2. \A i \in 1 .. Len(q) : r[i] = q[i]
  OBVIOUS
<1> HIDE DEF r
<1>3. ASSUME e \notin S, NoneOf(q, S) PROVE NoneOf(r, S)
  BY <1>1, <1>2, <1>3 DEF NoneOf
<1>4. ASSUME e \notin S, LastIs(q, S, x) PROVE LastIs(r, S, x)
  <2>1. PICK i \in 1 .. Len(q) : q[i] \in S /\ q[i] = x /\ \A j \in i + 1 .. Len(q) : q[j] \notin S
    BY <1>4 DEF LastIs
  <2>2. i \in 1 .. Len(r) /\ r[i] = q[i]
    BY <1>1, <1>2
  <2>3. \A j \in i + 1 .. Len(r) : r[j] \notin S
    <3> SUFFICES ASSUME NEW j \in i + 1 .. Len(r) PROVE r[j] \notin S
      OBVIOUS
    <3>1. CASE j = Len(q) + 1
      BY <1>1, <1>4, <3>1
    <3>2. CASE j # Len(q) + 1
      BY <1>1, <1>2, <2>1, <3>2
    <3> QED
      BY <3>1, <3>2
  <2> QED
    BY <2>1, <2>2, <2>3 DEF LastIs
<1>5. ASSUME e \in S PROVE LastIs(r, S, e)
  <2>1. Len(q) + 1 \in 1 .. Len(r) /\ \A j \in Len(q) + 1 + 1 .. Len(r) : r[j] \notin S
    BY <1>1
  <2> QED
    BY <1>1, <1>5, <2>1 DEF LastIs
<1> QED
  BY <1>1, <1>3, <1>4, <1>5 DEF r

(* What the first message leaves behind.                                   *)
LEMMA TailLast ==
  ASSUME NEW T, NEW q \in Seq(T), q # <<>>, NEW S, NEW x
  PROVE  /\ Tail(q) \in Seq(T) /\ Head(q) \in T
         /\ NoneOf(q, S) => NoneOf(Tail(q), S) /\ Head(q) \notin S
         /\ LastIs(q, S, x) =>
              \/ LastIs(Tail(q), S, x)
              \/ NoneOf(Tail(q), S) /\ Head(q) = x /\ Head(q) \in S
<1> DEFINE r == Tail(q)
<1>1. /\ r \in Seq(T) /\ Head(q) \in T /\ Head(q) = q[1]
      /\ Len(q) \in Nat \ {0} /\ Len(r) = Len(q) - 1
  OBVIOUS
<1>2. \A i \in 1 .. Len(r) : r[i] = q[i + 1]
  OBVIOUS
<1> HIDE DEF r
<1>3. ASSUME NoneOf(q, S) PROVE NoneOf(r, S) /\ Head(q) \notin S
  BY <1>1, <1>2, <1>3 DEF NoneOf
<1>4. ASSUME LastIs(q, S, x) PROVE LastIs(r, S, x) \/ (NoneOf(r, S) /\ Head(q) = x /\ Head(q) \in S)
  <2>1. PICK i \in 1 .. Len(q) : q[i] \in S /\ q[i] = x /\ \A j \in i + 1 .. Len(q) : q[j] \notin S
    BY <1>4 DEF LastIs
  <2>2. \A j \in i .. Len(r) : r[j] \notin S
    BY <1>1, <1>2, <2>1
  <2>3. CASE i = 1
    BY <1>1, <2>1, <2>2, <2>3 DEF NoneOf
  <2>4. CASE i # 1
    <3>1. PICK k \in 1 .. Len(r) : k + 1 = i
      BY <1>1, <2>4
    <3>2. r[k] \in S /\ r[k] = x /\ \A j \in k + 1 .. Len(r) : r[j] \notin S
      BY <1>1, <1>2, <2>1, <2>2, <3>1
    <3> QED
      BY <3>1, <3>2 DEF LastIs
  <2> QED
    BY <2>3, <2>4
<1> QED
  BY <1>1, <1>3, <1>4 DEF r

(* The library reports by adding to the end.                               *)
LEMMA AddedLast ==
  ASSUME NEW q \in Seq(Messages), NEW a \in Messages, NEW b \in Messages
  PROVE  q \o <<>> = q /\ q \o <<a>> = Append(q, a) /\ q \o <<a, b>> = Append(Append(q, a), b)
  OBVIOUS

-----------------------------------------------------------------------------
(* The inductive invariant.                                                *)

(* What was asked for last is on its way to the looper, or is done: after  *)
(* a manual disconnect the order to disconnect is the last, and once no    *)
(* order is left the library's thread has stopped.                         *)
OrderInv ==
  /\ window[1] = "idle" => window = Idle
  /\ window[1] = "connect" => ~manual
  /\ manual => \/ window[1] = "disconnect"
               \/ LastIs(mail, Orders, "disconnect")
               \/ NoneOf(mail, Orders) /\ ~loop /\ sock = "none"

(* What the connection is now was reported last, and once no report is left*)
(* the client knows it.                                                    *)
Reported == \E x \in States : LastIs(mail, States, x) /\ (x = "up" <=> sock = "up")
Known == NoneOf(mail, States) /\ (connected <=> sock = "up")
ReportInv == ~cut => Known \/ Reported

IInv == TypeOK /\ OrderInv /\ ReportInv

-----------------------------------------------------------------------------
(* What the steps do to the mail.                                          *)

(* The messages of a kind are as they were, or the first was taken.        *)
SameKind(q, p, S) ==
  /\ NoneOf(q, S) => NoneOf(p, S)
  /\ \A x \in S : LastIs(q, S, x) => LastIs(p, S, x)
LessKind(q, p, S) ==
  /\ NoneOf(q, S) => NoneOf(p, S)
  /\ \A x \in S : LastIs(q, S, x) => LastIs(p, S, x) \/ (NoneOf(p, S) /\ Head(q) = x)

LEMMA Taken ==
  ASSUME NEW q \in Seq(Messages), q # <<>>
  PROVE  /\ Tail(q) \in Seq(Messages)
         /\ \A S \in {Orders, States} :
              /\ LessKind(q, Tail(q), S)
              /\ Head(q) \notin S => SameKind(q, Tail(q), S)
<1>1. Tail(q) \in Seq(Messages)
  OBVIOUS
<1> SUFFICES ASSUME NEW S \in {Orders, States}
             PROVE  LessKind(q, Tail(q), S) /\ (Head(q) \notin S => SameKind(q, Tail(q), S))
  BY <1>1
<1>2. \A x : /\ NoneOf(q, S) => NoneOf(Tail(q), S) /\ Head(q) \notin S
             /\ LastIs(q, S, x) =>
                  \/ LastIs(Tail(q), S, x)
                  \/ NoneOf(Tail(q), S) /\ Head(q) = x /\ Head(q) \in S
  BY TailLast, Zenon
<1> QED
  BY <1>2 DEF LessKind, SameKind

LEMMA Added ==
  ASSUME NEW q \in Seq(Messages), NEW e \in Messages
  PROVE  /\ Append(q, e) \in Seq(Messages)
         /\ \A S \in {Orders, States} :
              /\ e \in S => LastIs(Append(q, e), S, e)
              /\ e \notin S => SameKind(q, Append(q, e), S)
<1>1. \A S, x : /\ e \notin S /\ NoneOf(q, S) => NoneOf(Append(q, e), S)
                /\ e \notin S /\ LastIs(q, S, x) => LastIs(Append(q, e), S, x)
                /\ e \in S => LastIs(Append(q, e), S, e)
  BY AppendLast, Zenon
<1> QED
  BY <1>1 DEF SameKind

LEMMA Kinds ==
  /\ Orders \subseteq Messages /\ States \subseteq Messages /\ Orders \cap States = {}
  /\ "timer" \in Messages /\ "timer" \notin Orders /\ "timer" \notin States
  /\ "connect" \in Orders /\ "disconnect" \in Orders
  /\ "up" \in States /\ "refused" \in States /\ "lost" \in States /\ "ended" \in States
  BY DEF Orders, Messages, States

(* A message taken and the report of what it closed.                       *)
LEMMA TakenReporting ==
  ASSUME NEW q \in Seq(Messages), q # <<>>, NEW r \in {<<>>, <<"ended">>}, Head(q) \notin States
  PROVE  LET p == Tail(q) \o r
         IN  /\ p \in Seq(Messages)
             /\ LessKind(q, p, Orders)
             /\ Head(q) \notin Orders => SameKind(q, p, Orders)
             /\ r = <<>> => SameKind(q, p, States)
             /\ r # <<>> => LastIs(p, States, "ended")
<1> DEFINE t == Tail(q)
           u == Append(t, "ended")
<1>1. /\ t \in Seq(Messages) /\ LessKind(q, t, Orders) /\ SameKind(q, t, States)
      /\ Head(q) \notin Orders => SameKind(q, t, Orders)
  BY Taken
<1>2. "ended" \in Messages /\ "ended" \in States /\ "ended" \notin Orders
  BY Kinds
<1>3. /\ u \in Seq(Messages)
      /\ LastIs(u, States, "ended") /\ SameKind(t, u, Orders)
  BY <1>1, <1>2, Added
<1>4. t \o <<>> = t /\ t \o <<"ended">> = u
  BY <1>1, <1>2, AddedLast
<1> HIDE DEF t, u
<1>5. LessKind(q, u, Orders) /\ (Head(q) \notin Orders => SameKind(q, u, Orders))
  BY <1>1, <1>3 DEF LessKind, SameKind
<1>6. CASE r = <<>>
  BY <1>1, <1>4, <1>6 DEF t
<1>7. CASE r = <<"ended">>
  <2>1. r # <<>>
    BY <1>7
  <2> QED
    BY <1>3, <1>4, <1>5, <1>7, <2>1 DEF t
<1> QED
  BY <1>6, <1>7

-----------------------------------------------------------------------------
(* Types.                                                                  *)

TimerType ==
  /\ timer \in Timers \cup {NULL} /\ crashed \in BOOLEAN
  /\ runner \in [Timers -> {"unborn", "armed", "fired", "deleted"}]
FlagType == enabled \in BOOLEAN /\ manual \in BOOLEAN /\ connected \in BOOLEAN
LibraryType ==
  /\ loop \in BOOLEAN /\ sock \in {"none", "open", "up"} /\ (sock # "none" => loop)
  /\ failed \in BOOLEAN /\ cut \in BOOLEAN
MailType == mail \in Seq(Messages)
PlaceType ==
  /\ window \in {"idle", "connect", "disconnect"} \X {"stop", "null", "post"}
  /\ looper \in {"idle", "null", "arm"}
BoundType == clicks \in 0 .. NClicks /\ losses \in 0 .. NLosses

Types == TimerType /\ FlagType /\ LibraryType /\ MailType /\ PlaceType /\ BoundType

LEMMA Typed == (TypeOK <=> Types) /\ (TypeOK' <=> Types')
  BY DEF TypeOK, Types, TimerType, FlagType, LibraryType, MailType, PlaceType, BoundType, Messages

(* Deleting the timer and clearing the pointer to it.                      *)
LEMMA TimerTyped ==
  ASSUME TimerType
  PROVE  /\ DeletesTimer /\ UNCHANGED timer => TimerType'
         /\ ClearsPointer /\ UNCHANGED crashed => TimerType'
<1>1. ASSUME DeletesTimer, UNCHANGED timer PROVE TimerType'
  <2>1. runner' \in [Timers -> {"unborn", "armed", "fired", "deleted"}]
    BY <1>1 DEF TimerType, DeletesTimer
  <2>2. crashed' \in BOOLEAN
    BY <1>1, Zenon DEF DeletesTimer
  <2> QED
    BY <1>1, <2>1, <2>2 DEF TimerType
<1>2. ASSUME ClearsPointer, UNCHANGED crashed PROVE TimerType'
  BY <1>2 DEF TimerType, ClearsPointer
<1> QED
  BY <1>1, <1>2

(* What a connection is opened on or closed with: the message is taken, and*)
(* what was up is reported unless it is marked as cut.                     *)
Told(r) ==
  /\ mail' = Tail(mail) \o r
  /\ cut' \in BOOLEAN
  /\ r = <<>> /\ ~cut' => ~cut /\ sock # "up"

LEMMA ClearsTells ==
  ASSUME LibraryType, MailType, mail # <<>>, Clears
  PROVE  \E r \in {<<>>, <<"ended">>} : Told(r)
<1>1. CASE connected
  <2>1. PICK r \in Closing : mail' = Tail(mail) \o r /\ cut' = (cut /\ r = <<>>)
    BY <1>1 DEF Clears
  <2>2. r \in {<<>>, <<"ended">>} /\ (sock = "up" => r = <<"ended">>)
    BY DEF Closing, LibraryType
  <2>3. cut' \in BOOLEAN /\ (r = <<>> /\ ~cut' => ~cut)
    BY <2>1, Zenon
  <2>4. r = <<>> => sock # "up"
    BY <2>2
  <2> QED
    BY <2>1, <2>2, <2>3, <2>4 DEF Told
<1>2. CASE ~connected
  <2>1. mail' = Tail(mail) /\ cut' = (cut \/ sock = "up")
    BY <1>2 DEF Clears
  <2>2. mail' = Tail(mail) \o <<>>
    BY <2>1 DEF MailType
  <2>3. cut' \in BOOLEAN /\ (~cut' => ~cut /\ sock # "up")
    BY <2>1, Zenon
  <2> QED
    BY <2>2, <2>3 DEF Told
<1> QED
  BY <1>1, <1>2

LEMMA DisconnectTells ==
  ASSUME LibraryType, DoDisconnect
  PROVE  /\ \E r \in {<<>>, <<"ended">>} : Told(r)
         /\ loop' = FALSE /\ sock' = "none" /\ connected' = FALSE /\ UNCHANGED failed
<1>1. PICK r \in Closing : mail' = Tail(mail) \o r /\ cut' = (cut /\ r = <<>>)
  BY DEF DoDisconnect
<1>2. r \in {<<>>, <<"ended">>} /\ (sock = "up" => r = <<"ended">>)
  BY DEF Closing, LibraryType
<1>3. cut' \in BOOLEAN /\ (r = <<>> /\ ~cut' => ~cut)
  BY <1>1, Zenon
<1>4. r = <<>> => sock # "up"
  BY <1>2
<1>5. Told(r)
  BY <1>1, <1>3, <1>4 DEF Told
<1> QED
  BY <1>2, <1>5 DEF DoDisconnect

(* What the looper does with an order or with the timer's message.         *)
Connects ==
  /\ \E r \in {<<>>, <<"ended">>} : Told(r)
  /\ loop' \in BOOLEAN /\ sock' \in {"none", "open"} /\ (sock' # "none" => loop')
  /\ connected' = FALSE /\ failed' \in BOOLEAN

LEMMA ConnectTells ==
  ASSUME LibraryType, FlagType, MailType, mail # <<>>, DoConnect
  PROVE  Connects
<1>1. \E r \in {<<>>, <<"ended">>} : Told(r)
  BY ClearsTells DEF DoConnect
<1>2. CASE sock' = "open" /\ StartsLoop /\ failed' = FALSE
  BY <1>1, <1>2 DEF DoConnect, StartsLoop, Connects
<1>3. CASE sock' = "none" /\ loop' = (loop /\ ~connected) /\ failed' = ~loop'
  <2>1. loop' \in BOOLEAN
    BY <1>3, Zenon
  <2>2. failed' \in BOOLEAN
    BY <1>3, Zenon
  <2> QED
    BY <1>1, <1>3, <2>1, <2>2 DEF DoConnect, Connects
<1> QED
  BY <1>2, <1>3 DEF DoConnect

LEMMA TakesShape ==
  ASSUME TypeOK
  PROVE  /\ TakesConnect => Head(mail) = "connect" /\ (Connects \/ Ignores)
         /\ TakesDisconnect => /\ Head(mail) = "disconnect" /\ Connects
                               /\ ~loop' /\ sock' = "none"
         /\ TakesTimer => Head(mail) = "timer" /\ ((Connects /\ ~manual) \/ Ignores)
         /\ TakesConnect \/ TakesDisconnect \/ TakesTimer
              => /\ mail # <<>> /\ MailType
                 /\ UNCHANGED <<enabled, manual, timer, window, clicks, losses, runner, looper, crashed>>
<1>1. LibraryType /\ FlagType /\ MailType
  BY Typed DEF Types
<1>2. mail # <<>> /\ DoConnect => Connects
  BY <1>1, ConnectTells
<1>3. DoDisconnect => Connects /\ ~loop' /\ sock' = "none"
  <2> SUFFICES ASSUME DoDisconnect PROVE Connects /\ ~loop' /\ sock' = "none"
    OBVIOUS
  <2>1. failed' \in BOOLEAN
    BY <1>1, DisconnectTells DEF LibraryType
  <2> QED
    BY <1>1, <2>1, DisconnectTells DEF Connects
<1>4. TakesConnect => Head(mail) = "connect" /\ (Connects \/ Ignores)
  BY <1>2 DEF TakesConnect, Takes
<1>5. TakesDisconnect => Head(mail) = "disconnect" /\ Connects /\ ~loop' /\ sock' = "none"
  BY <1>3 DEF TakesDisconnect, Takes
<1>6. TakesTimer => Head(mail) = "timer" /\ ((Connects /\ ~manual) \/ Ignores)
  BY <1>2 DEF TakesTimer, Takes, Reconnects
<1>7. TakesConnect \/ TakesDisconnect \/ TakesTimer
        => /\ mail # <<>>
           /\ UNCHANGED <<enabled, manual, timer, window, clicks, losses, runner, looper, crashed>>
  BY DEF TakesConnect, TakesDisconnect, TakesTimer, Takes
<1> QED
  BY <1>1, <1>4, <1>5, <1>6, <1>7

LEMMA InitIInv == Init => IInv
<1> SUFFICES ASSUME Init PROVE IInv
  OBVIOUS
<1>1. TypeOK
  <2>1. TimerType
    <3>1. runner \in [Timers -> {"unborn", "armed", "fired", "deleted"}]
      BY DEF Init
    <3> QED
      BY <3>1 DEF Init, TimerType
  <2>4. MailType /\ PlaceType
    BY DEF Init, MailType, PlaceType
  <2>2. BoundType
    BY BoundsAssumption DEF Init, BoundType
  <2>3. FlagType /\ LibraryType
    BY DEF Init, FlagType, LibraryType
  <2> QED
    BY <2>1, <2>2, <2>3, <2>4, Typed DEF Types
<1>2. OrderInv
  BY DEF Init, OrderInv
<1>3. ReportInv
  BY DEF Init, ReportInv, Known, NoneOf
<1> QED
  BY <1>1, <1>2, <1>3 DEF IInv

(* A message taken and what is told leave messages.                        *)
LEMMA ToldTyped ==
  ASSUME MailType, mail # <<>>, NEW r \in {<<>>, <<"ended">>}, mail' = Tail(mail) \o r
  PROVE  MailType'
<1>1. Tail(mail) \in Seq(Messages) /\ "ended" \in Messages
  BY Taken, Kinds DEF MailType
<1>2. /\ Tail(mail) \o <<>> = Tail(mail)
      /\ Tail(mail) \o <<"ended">> \in Seq(Messages)
  BY <1>1
<1> QED
  BY <1>1, <1>2 DEF MailType

(* What the window posts is an order: it is in the middle of a call.       *)
LEMMA TypeStep == ASSUME TypeOK, OrderInv, Next PROVE TypeOK'
<1> USE DEF NULL
<1>1. TimerType /\ FlagType /\ LibraryType /\ MailType /\ PlaceType /\ BoundType
  BY Typed DEF Types
<1>2. ASSUME UNCHANGED mail PROVE MailType'
  BY <1>1, <1>2 DEF MailType
<1>3. ASSUME NEW e \in Messages, mail' = Append(mail, e) PROVE MailType'
  BY <1>1, <1>3 DEF MailType
<1>4. CASE Window
  <2>1. clicks' \in 0 .. NClicks /\ UNCHANGED <<losses, mail, timing, crashed, library, history, looper>>
    BY <1>1, <1>4, BoundsAssumption
       DEF Window, Connect, Disconnect, ImportDisabled, Calls, BoundType
  <2>2. BoundType' /\ MailType' /\ TimerType' /\ LibraryType'
    BY <1>1, <2>1 DEF BoundType, MailType, TimerType, LibraryType, timing, library, history
  <2>3. FlagType'
    BY <1>1, <1>4 DEF Window, Connect, Disconnect, ImportDisabled, Calls, FlagType
  <2>4. window' \in {window, <<"connect", "stop">>, <<"disconnect", "stop">>}
    BY <1>4 DEF Window, Connect, Disconnect, ImportDisabled, Calls
  <2>5. PlaceType'
    BY <1>1, <2>1, <2>4 DEF PlaceType
  <2> QED
    BY <2>2, <2>3, <2>5, Typed DEF Types
<1>5. CASE StopTimer
  <2>1. TimerType' /\ MailType'
    BY <1>1, <1>2, <1>5, TimerTyped DEF StopTimer
  <2>2. FlagType' /\ LibraryType' /\ BoundType'
    BY <1>1, <1>5 DEF StopTimer, FlagType, LibraryType, BoundType, flags, library, history
  <2>3. PlaceType'
    BY <1>1, <1>5 DEF StopTimer, PlaceType
  <2> QED
    BY <2>1, <2>2, <2>3, Typed DEF Types
<1>6. CASE ClearTimer
  <2>1. TimerType' /\ MailType'
    BY <1>1, <1>2, <1>6, TimerTyped DEF ClearTimer
  <2>2. FlagType' /\ LibraryType' /\ BoundType'
    BY <1>1, <1>6 DEF ClearTimer, FlagType, LibraryType, BoundType, flags, library, history
  <2>3. PlaceType'
    BY <1>1, <1>6 DEF ClearTimer, PlaceType
  <2> QED
    BY <2>1, <2>2, <2>3, Typed DEF Types
<1>7. CASE Posts
  <2>1. UNCHANGED <<flags, timing, looper, library, history, crashed, clicks, losses>>
    BY <1>7 DEF Posts
  <2>2. mail' = Append(mail, window[1]) /\ window' = Idle /\ window[2] = "post"
    BY <1>7 DEF Posts
  <2>3. TimerType' /\ FlagType' /\ LibraryType' /\ BoundType'
    BY <1>1, <2>1 DEF TimerType, FlagType, LibraryType, BoundType, timing, flags, library, history
  <2>4. PlaceType'
    BY <1>1, <2>1, <2>2 DEF PlaceType, Idle
  <2>5. window[1] \in Messages
    <3>1. window[1] # "idle"
      BY <2>2 DEF OrderInv, Idle
    <3> QED
      BY <1>1, <3>1 DEF PlaceType, Messages
  <2>6. MailType'
    BY <1>3, <2>2, <2>5
  <2> QED
    BY <2>3, <2>4, <2>6, Typed DEF Types
<1>8. CASE RunnerFires
  <2>1. UNCHANGED <<flags, timer, window, looper, library, history, crashed, clicks, losses>>
    BY <1>8 DEF RunnerFires
  <2>2. TimerType'
    BY <1>1, <1>8 DEF RunnerFires, TimerType
  <2>3. MailType'
    BY <1>3, <1>8, Kinds DEF RunnerFires
  <2> QED
    BY <1>1, <2>1, <2>2, <2>3, Typed
       DEF Types, FlagType, LibraryType, PlaceType, BoundType, flags, library, history
<1>9. CASE TakesConnect \/ TakesDisconnect \/ TakesTimer
  <2>1. /\ UNCHANGED <<enabled, manual, timer, window, clicks, losses, runner, looper, crashed>>
        /\ mail # <<>> /\ (Connects \/ Ignores)
    BY <1>9, TakesShape
  <2>2. TimerType' /\ PlaceType' /\ BoundType'
    BY <1>1, <2>1 DEF TimerType, PlaceType, BoundType
  <2>3. CASE Connects
    <3>1. PICK r \in {<<>>, <<"ended">>} : Told(r)
      BY <2>3 DEF Connects
    <3>2. MailType'
      BY <1>1, <2>1, <3>1, ToldTyped DEF Told
    <3>3. FlagType' /\ LibraryType'
      BY <1>1, <2>1, <2>3, <3>1 DEF Connects, Told, FlagType, LibraryType
    <3> QED
      BY <2>2, <3>2, <3>3, Typed DEF Types
  <2>4. CASE Ignores
    <3>1. MailType'
      BY <1>1, <2>1, <2>4 DEF Ignores, MailType
    <3>2. FlagType' /\ LibraryType'
      BY <1>1, <2>1, <2>4 DEF Ignores, FlagType, LibraryType, library, history
    <3> QED
      BY <2>2, <3>1, <3>2, Typed DEF Types
  <2> QED
    BY <2>1, <2>3, <2>4
<1>10. CASE ConnStateChanged
  <2>1. PICK state \in States :
          /\ Takes(state)
          /\ mail' = Tail(mail)
          /\ NotesState(state)
          /\ IF state \in {"lost", "refused"} /\ ~manual /\ enabled
             THEN DeletesTimer /\ looper' = "null"
             ELSE UNCHANGED <<runner, looper, crashed>>
          /\ UNCHANGED <<library, history>>
    BY <1>10 DEF ConnStateChanged
  <2>2. mail # <<>> /\ UNCHANGED <<enabled, manual, timer, window, clicks, losses>>
    BY <2>1 DEF Takes
  <2>3. MailType'
    BY <1>1, <2>1, <2>2 DEF MailType
  <2>4. connected' \in BOOLEAN
    BY <2>1, Zenon DEF NotesState
  <2>5. FlagType' /\ LibraryType' /\ BoundType'
    BY <1>1, <2>1, <2>2, <2>4 DEF FlagType, LibraryType, BoundType, library, history
  <2>6. TimerType' /\ PlaceType'
    <3>1. CASE DeletesTimer /\ looper' = "null"
      BY <1>1, <2>2, <3>1, TimerTyped DEF PlaceType
    <3>2. CASE UNCHANGED <<runner, looper, crashed>>
      BY <1>1, <2>2, <3>2 DEF PlaceType, TimerType
    <3> QED
      BY <2>1, <3>1, <3>2
  <2> QED
    BY <2>3, <2>5, <2>6, Typed DEF Types
<1>11. CASE ForgetsTimer
  <2>1. TimerType' /\ MailType'
    BY <1>1, <1>2, <1>11, TimerTyped DEF ForgetsTimer
  <2>2. FlagType' /\ LibraryType' /\ BoundType' /\ PlaceType'
    BY <1>1, <1>11
       DEF ForgetsTimer, FlagType, LibraryType, BoundType, PlaceType, flags, library, history
  <2> QED
    BY <2>1, <2>2, Typed DEF Types
<1>12. CASE ArmTimer
  <2>1. TimerType'
    BY <1>1, <1>12 DEF ArmTimer, TimerType
  <2>2. FlagType' /\ LibraryType' /\ BoundType' /\ PlaceType' /\ MailType'
    BY <1>1, <1>2, <1>12
       DEF ArmTimer, FlagType, LibraryType, BoundType, PlaceType, flags, library, history
  <2> QED
    BY <2>1, <2>2, Typed DEF Types
<1>13. CASE Retries \/ Accepted \/ Refused \/ Lost
  <2>1. /\ loop /\ loop' /\ sock' \in {"none", "open", "up"} /\ cut' \in BOOLEAN
        /\ UNCHANGED <<flags, timing, window, looper, failed, crashed, clicks>>
    BY <1>1, <1>13 DEF Retries, Accepted, Refused, Lost, Reports, LibraryType
  <2>2. losses' \in 0 .. NLosses
    BY <1>1, <1>13, BoundsAssumption DEF Retries, Accepted, Refused, Lost, BoundType
  <2>3. MailType'
    <3>1. \E r \in {<<>>, <<"up">>, <<"refused", "lost">>, <<"lost">>} : mail' = mail \o r
      BY <1>13 DEF Retries, Accepted, Refused, Lost, Reports
    <3>2. /\ mail \o <<>> \in Seq(Messages) /\ mail \o <<"up">> \in Seq(Messages)
          /\ mail \o <<"refused", "lost">> \in Seq(Messages) /\ mail \o <<"lost">> \in Seq(Messages)
      BY <1>1, Kinds DEF MailType
    <3> QED
      BY <1>1, <3>1, <3>2 DEF MailType
  <2>4. TimerType' /\ FlagType' /\ PlaceType' /\ BoundType'
    BY <1>1, <2>1, <2>2 DEF TimerType, FlagType, PlaceType, BoundType, timing, flags
  <2>5. LibraryType'
    BY <1>1, <2>1 DEF LibraryType
  <2> QED
    BY <2>3, <2>4, <2>5, Typed DEF Types
<1> QED
  BY <1>4, <1>5, <1>6, <1>7, <1>8, <1>9, <1>10, <1>11, <1>12, <1>13
     DEF Next, Finishes, Looper, Library

(* What the library's thread reports in one step.                          *)
LEMMA ReportsAdded ==
  ASSUME NEW q \in Seq(Messages)
  PROVE  /\ \A r \in {<<>>, <<"up">>, <<"refused", "lost">>, <<"lost">>} :
              SameKind(q, q \o r, Orders)
         /\ q \o <<>> = q
         /\ LastIs(q \o <<"up">>, States, "up")
         /\ LastIs(q \o <<"lost">>, States, "lost")
         /\ LastIs(q \o <<"refused", "lost">>, States, "lost")
<1> DEFINE u == Append(q, "up")
           l == Append(q, "lost")
           r == Append(q, "refused")
           s == Append(r, "lost")
<1>1. /\ q \o <<>> = q /\ q \o <<"up">> = u /\ q \o <<"lost">> = l
      /\ q \o <<"refused", "lost">> = s
  BY Kinds, AddedLast
<1>2. SameKind(q, q, Orders)
  BY DEF SameKind
<1>3. SameKind(q, u, Orders) /\ LastIs(u, States, "up")
  BY Kinds, Added
<1>4. SameKind(q, l, Orders) /\ LastIs(l, States, "lost")
  BY Kinds, Added
<1>5. r \in Seq(Messages) /\ SameKind(q, r, Orders)
  BY Kinds, Added
<1>6. SameKind(r, s, Orders) /\ LastIs(s, States, "lost")
  BY <1>5, Kinds, Added
<1> HIDE DEF u, l, r, s
<1>7. SameKind(q, s, Orders)
  BY <1>5, <1>6 DEF SameKind
<1> QED
  BY <1>1, <1>2, <1>3, <1>4, <1>6, <1>7

-----------------------------------------------------------------------------
(* Orders.                                                                 *)

(* Where no order is taken or posted, nothing may start what was stopped.  *)
LEMMA OrdersKept ==
  ASSUME OrderInv, SameKind(mail, mail', Orders), UNCHANGED <<window, manual>>,
         ~manual \/ (~loop /\ sock = "none" => ~loop' /\ sock' = "none")
  PROVE  OrderInv'
<1>1. "disconnect" \in Orders
  BY Kinds
<1> QED
  BY <1>1 DEF OrderInv, SameKind

LEMMA Unmoved == ASSUME UNCHANGED mail, NEW S PROVE SameKind(mail, mail', S)
  BY DEF SameKind

LEMMA OrderStep == ASSUME TypeOK, OrderInv, Next PROVE OrderInv'
<1>1. LibraryType /\ MailType /\ PlaceType
  BY Typed DEF Types
<1> SUFFICES ASSUME window' # window \/ manual' # manual \/ mail' # mail
                    \/ loop' # loop \/ sock' # sock
             PROVE  OrderInv'
  BY Unmoved, OrdersKept
<1>2. CASE Window
  BY <1>1, <1>2
     DEF Window, Connect, Disconnect, ImportDisabled, Calls, OrderInv, Idle, PlaceType, library
<1>3. CASE StopTimer \/ ClearTimer
  <2>1. /\ UNCHANGED <<mail, manual, loop, sock>> /\ window # Idle
        /\ window' \in {<<window[1], "null">>, <<window[1], "post">>}
    BY <1>1, <1>3 DEF StopTimer, ClearTimer, flags, library, Idle, PlaceType
  <2>2. window[1] # "idle"
    BY <2>1 DEF OrderInv
  <2> QED
    BY <2>1, <2>2 DEF OrderInv
<1>4. CASE Posts
  <2>1. /\ UNCHANGED manual /\ window' = Idle /\ window # Idle /\ mail' = Append(mail, window[1])
    BY <1>4 DEF Posts, flags, Idle
  <2>2. window[1] \in Orders
    BY <1>1, <2>1 DEF OrderInv, PlaceType, Orders
  <2>3. LastIs(mail', Orders, window[1])
    BY <1>1, <2>1, <2>2, Added, Kinds DEF MailType
  <2>4. manual => window[1] = "disconnect"
    BY <2>2 DEF OrderInv, Orders
  <2> QED
    BY <2>1, <2>3, <2>4 DEF OrderInv, Idle
<1>5. CASE RunnerFires
  <2>1. UNCHANGED <<manual, window, loop, sock>> /\ mail' = Append(mail, "timer")
    BY <1>5 DEF RunnerFires, flags, library
  <2>2. SameKind(mail, mail', Orders)
    BY <1>1, <2>1, Added, Kinds DEF MailType
  <2> QED
    BY <2>1, <2>2, OrdersKept
<1>6. CASE TakesConnect \/ TakesDisconnect \/ TakesTimer
  <2>1. mail # <<>> /\ (Connects \/ Ignores) /\ UNCHANGED <<window, manual>>
    BY <1>6, TakesShape
  <2>2. Head(mail) \notin States
    BY <1>6, TakesShape DEF States
  <2>3. LessKind(mail, mail', Orders) /\ (Head(mail) \notin Orders => SameKind(mail, mail', Orders))
    <3>1. CASE Connects
      <4>1. PICK r \in {<<>>, <<"ended">>} : mail' = Tail(mail) \o r
        BY <3>1 DEF Connects, Told
      <4> QED
        BY <1>1, <2>1, <2>2, <4>1, TakenReporting DEF MailType
    <3>2. CASE Ignores
      <4>1. mail' = Tail(mail)
        BY <3>2 DEF Ignores
      <4> QED
        BY <1>1, <2>1, <4>1, Taken DEF MailType
    <3> QED
      BY <2>1, <3>1, <3>2
  <2>4. CASE Head(mail) = "connect"
    <3>1. ~NoneOf(mail, Orders)
      <4>1. NoneOf(mail, Orders) => Head(mail) \notin Orders
        BY <1>1, <2>1, TailLast, Zenon DEF MailType
      <4> QED
        BY <2>4, <4>1, Kinds
    <3>2. LastIs(mail, Orders, "disconnect") => LastIs(mail', Orders, "disconnect")
      BY <2>3, <2>4, Kinds DEF LessKind
    <3> QED
      BY <2>1, <3>1, <3>2 DEF OrderInv
  <2>5. CASE TakesDisconnect
    <3>1. ~loop' /\ sock' = "none"
      BY <2>5, TakesShape
    <3>2. LastIs(mail, Orders, "disconnect") => LastIs(mail', Orders, "disconnect") \/ NoneOf(mail', Orders)
      BY <2>3, Kinds DEF LessKind
    <3>3. NoneOf(mail, Orders) => NoneOf(mail', Orders)
      BY <2>3 DEF LessKind
    <3> QED
      BY <2>1, <3>1, <3>2, <3>3 DEF OrderInv
  <2>6. CASE TakesTimer
    <3>1. Head(mail) \notin Orders /\ ((Connects /\ ~manual) \/ Ignores)
      BY <2>6, TakesShape, Kinds
    <3>2. ~manual \/ UNCHANGED <<loop, sock>>
      BY <3>1 DEF Ignores, library
    <3> QED
      BY <2>1, <2>3, <3>1, <3>2, OrdersKept
  <2> QED
    BY <1>6, <2>4, <2>5, <2>6, TakesShape
<1>7. CASE ConnStateChanged
  <2>1. mail # <<>> /\ Head(mail) \in States /\ mail' = Tail(mail)
    BY <1>7 DEF ConnStateChanged, Takes
  <2>2. UNCHANGED <<window, manual, loop, sock>>
    BY <1>7 DEF ConnStateChanged, Takes, library
  <2>3. Head(mail) \notin Orders
    BY <2>1, Kinds
  <2>4. SameKind(mail, mail', Orders)
    BY <1>1, <2>1, <2>3, Taken DEF MailType
  <2> QED
    BY <2>2, <2>4, OrdersKept
<1>8. CASE ForgetsTimer \/ ArmTimer
  BY <1>8 DEF ForgetsTimer, ArmTimer, flags, library
<1>9. CASE Retries \/ Accepted \/ Refused \/ Lost
  <2>1. loop /\ UNCHANGED <<window, manual>>
    BY <1>9 DEF Retries, Accepted, Refused, Lost, Reports, flags
  <2>2. \E r \in {<<>>, <<"up">>, <<"refused", "lost">>, <<"lost">>} : mail' = mail \o r
    BY <1>9 DEF Retries, Accepted, Refused, Lost, Reports
  <2>3. SameKind(mail, mail', Orders)
    BY <1>1, <2>2, ReportsAdded DEF MailType
  <2> QED
    BY <2>1, <2>3, OrdersKept
<1> QED
  BY <1>2, <1>3, <1>4, <1>5, <1>6, <1>7, <1>8, <1>9 DEF Next, Finishes, Looper, Library

-----------------------------------------------------------------------------
(* Reports.                                                                *)

(* Where no report is taken or added, nothing it speaks of may change.     *)
LEMMA ReportsKept ==
  ASSUME ReportInv, SameKind(mail, mail', States), UNCHANGED <<cut, connected>>,
         sock = "up" <=> sock' = "up"
  PROVE  ReportInv'
  BY DEF ReportInv, Known, Reported, SameKind

(* What was connected is reported when it is closed, or marked as cut.     *)
LEMMA ReportsTold ==
  ASSUME MailType, ReportInv, mail # <<>>, Head(mail) \notin States,
         NEW r \in {<<>>, <<"ended">>}, Told(r),
         connected' = FALSE, sock' # "up"
  PROVE  ReportInv'
<1> SUFFICES ASSUME ~cut' PROVE Known' \/ Reported'
  BY DEF ReportInv
<1>1. CASE r # <<>>
  <2>1. LastIs(mail', States, "ended")
    BY <1>1, TakenReporting DEF Told, MailType
  <2> QED
    BY <2>1, Kinds DEF Reported
<1>2. CASE r = <<>>
  <2>1. SameKind(mail, mail', States)
    BY <1>2, TakenReporting DEF Told, MailType
  <2>2. ~cut /\ sock # "up"
    BY <1>2 DEF Told
  <2>3. CASE Known
    BY <2>1, <2>3 DEF Known, SameKind
  <2>4. CASE Reported
    BY <2>1, <2>2, <2>4 DEF Reported, SameKind
  <2> QED
    BY <2>2, <2>3, <2>4 DEF ReportInv
<1> QED
  BY <1>1, <1>2

LEMMA ReportStep == ASSUME TypeOK, OrderInv, ReportInv, Next PROVE ReportInv'
<1>1. LibraryType /\ MailType
  BY Typed DEF Types
<1>2. CASE Window \/ StopTimer \/ ClearTimer \/ ForgetsTimer \/ ArmTimer
  <2>1. UNCHANGED <<mail, cut, connected, sock>>
    BY <1>2 DEF Window, Connect, Disconnect, ImportDisabled, Calls, StopTimer, ClearTimer,
                ForgetsTimer, ArmTimer, flags, library, history
  <2> QED
    BY <2>1, Unmoved, ReportsKept
<1>3. CASE Posts \/ RunnerFires
  <2>1. UNCHANGED <<cut, connected, sock>>
    BY <1>3 DEF Posts, RunnerFires, flags, library, history
  <2>2. CASE mail' = Append(mail, "timer")
    BY <1>1, <2>1, <2>2, Added, Kinds, ReportsKept DEF MailType
  <2>3. CASE Posts
    <3>1. mail' = Append(mail, window[1]) /\ window # Idle
      BY <2>3 DEF Posts, Idle
    <3>2. window[1] \in Messages /\ window[1] \notin States
      <4>1. window[1] # "idle"
        BY <3>1 DEF OrderInv
      <4>2. window[1] \in Orders
        BY <4>1, Typed DEF Types, PlaceType, Orders
      <4> QED
        BY <4>2, Kinds
    <3> QED
      BY <1>1, <2>1, <3>1, <3>2, Added, ReportsKept DEF MailType
  <2> QED
    BY <1>3, <2>2, <2>3 DEF RunnerFires
<1>4. CASE TakesConnect \/ TakesDisconnect \/ TakesTimer
  <2>1. mail # <<>> /\ Head(mail) \notin States /\ (Connects \/ Ignores)
    BY <1>4, TakesShape DEF States
  <2>2. CASE Connects
    <3>1. PICK r \in {<<>>, <<"ended">>} : Told(r)
      BY <2>2 DEF Connects
    <3>2. connected' = FALSE /\ sock' # "up"
      BY <2>2 DEF Connects
    <3> QED
      BY <1>1, <2>1, <3>1, <3>2, ReportsTold
  <2>3. CASE Ignores
    <3>1. UNCHANGED <<cut, connected, sock>> /\ mail' = Tail(mail)
      BY <2>3 DEF Ignores, library, history
    <3>2. SameKind(mail, mail', States)
      BY <1>1, <2>1, <3>1, Taken DEF MailType
    <3> QED
      BY <3>1, <3>2, ReportsKept
  <2> QED
    BY <2>1, <2>2, <2>3
<1>5. CASE ConnStateChanged
  <2>1. PICK state \in States : Takes(state) /\ mail' = Tail(mail) /\ NotesState(state)
    BY <1>5 DEF ConnStateChanged
  <2>2. mail # <<>> /\ Head(mail) = state /\ UNCHANGED <<sock, cut>>
    BY <1>5, <2>1 DEF ConnStateChanged, Takes, library, history
  <2>3. connected' <=> state = "up"
    BY <2>1 DEF NotesState
  <2>4. LessKind(mail, mail', States)
    BY <1>1, <2>1, <2>2, Taken DEF MailType
  <2>5. ~NoneOf(mail, States)
    BY <1>1, <2>2, TailLast DEF MailType
  <2> QED
    BY <2>2, <2>3, <2>4, <2>5 DEF ReportInv, Known, Reported, LessKind
<1>6. CASE Retries
  <2>1. mail' = mail \o <<>> /\ UNCHANGED <<connected, cut>> /\ sock # "up" /\ sock' # "up"
    BY <1>6 DEF Retries, Reports, flags
  <2>2. UNCHANGED mail
    BY <1>1, <2>1, ReportsAdded DEF MailType
  <2> QED
    BY <2>1, <2>2, Unmoved, ReportsKept
<1>7. CASE Accepted
  BY <1>1, <1>7, Kinds, ReportsAdded DEF Accepted, Reports, MailType, ReportInv, Reported
<1>8. CASE Refused
  BY <1>1, <1>8, Kinds, ReportsAdded DEF Refused, Reports, MailType, ReportInv, Reported
<1>9. CASE Lost
  BY <1>1, <1>9, Kinds, ReportsAdded DEF Lost, Reports, MailType, ReportInv, Reported
<1> QED
  BY <1>2, <1>3, <1>4, <1>5, <1>6, <1>7, <1>8, <1>9 DEF Next, Finishes, Looper, Library

-----------------------------------------------------------------------------
(* The theorems.                                                           *)

LEMMA StepIInv == IInv /\ [Next]_vars => IInv'
<1> SUFFICES ASSUME IInv, [Next]_vars PROVE IInv'
  OBVIOUS
<1>1. CASE Next
  BY <1>1, TypeStep, OrderStep, ReportStep DEF IInv
<1>2. CASE UNCHANGED vars
  BY <1>2 DEF vars, flags, timing, library, history, IInv, TypeOK, OrderInv, ReportInv, Known,
              Reported, NoneOf, LastIs
<1> QED
  BY <1>1, <1>2

LEMMA Invariance == Spec => []IInv
<1>1. Init => IInv
  BY InitIInv
<1>2. IInv /\ [Next]_vars => IInv'
  BY StepIInv
<1> QED
  BY <1>1, <1>2, PTL DEF Spec

(* Whatever the threads do in whatever order, the client's flags, timer and*)
(* messages keep their types, and no connection is left without the        *)
(* library's thread.                                                       *)
THEOREM TypeCorrect == Spec => []TypeOK
<1>1. IInv => TypeOK
  BY DEF IInv
<1> QED
  BY <1>1, Invariance, PTL

(* Once every message is handled, what the user disconnected is            *)
(* disconnected, with no thread left to bring it back, and the client knows*)
(* whether it is connected.                                                *)
THEOREM SettlesAlways == Spec => []Settles
<1>1. IInv => Settles
  <2> SUFFICES ASSUME IInv PROVE Settles
    OBVIOUS
  <2>1. \A S, x : ~LastIs(<<>>, S, x)
    BY DEF LastIs
  <2>2. StaysOff
    BY <2>1 DEF IInv, OrderInv, StaysOff, Quiet, Idle
  <2>3. Agrees
    BY <2>1 DEF IInv, ReportInv, Known, Reported, Agrees, Quiet
  <2> QED
    BY <2>2, <2>3 DEF Settles
<1> QED
  BY <1>1, Invariance, PTL
=============================================================================
