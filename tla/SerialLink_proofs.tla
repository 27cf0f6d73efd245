--------------------------- MODULE SerialLink_proofs ---------------------------
(***************************************************************************)
(* While only SerialHandler's looper calls Disconnect, that is until the   *)
(* window quits, there is one reader and it works on an open port, however *)
(* many CONNECTs are posted and whatever else the window does.  When       *)
(* nothing is under way the window shows the link as it is, and both       *)
(* threads together leave nothing running at the end.                      *)
(***************************************************************************)
EXTENDS SerialLink, TLAPS

(* A live reader is the one that was started for the open port, and the    *)
(* looper is where it does not touch it, or waits for its end.             *)
LiveInv ==
  \A r \in Live :
    /\ connected
    /\ fd = r
    /\ r \in open
    /\ \/ readThread = r /\ at["looper"] \in {"idle", "stop", "gone"}
       \/ waits["looper"] = r /\ at["looper"] = "wait"

(* The port a reader works on is its own.                                  *)
UsingInv == \A r \in Readers : reader[r] \in {"select", "read"} => using[r] = r

(* Nothing is connected while Connect opens a port.                        *)
LooperInv ==
  /\ at["looper"] \in {"open", "tell"} => ~connected
  /\ at["looper"] \in {"wait", "close"} => connected
  /\ back["looper"] \in {"idle", "open", "gone"}

(* What holds while the window leaves the ports alone.                     *)
ServeInv == TypeOK /\ WindowServes /\ LiveInv /\ UsingInv /\ LooperInv

(* A window that quits does not come back.                                 *)
QuitInv == at["window"] \in {"stop", "wait", "close", "tell"} => back["window"] \in {"quit2", "quit3"}

IInv == TypeOK /\ QuitInv /\ (WindowServes => ServeInv)

USE NReadersAssumption DEF None

LEMMA InitIInv == Init => IInv
<1> SUFFICES ASSUME Init PROVE IInv
  OBVIOUS
<1> USE DEF Init, Callers, Readers
<1>1. TypeOK
  <2>1. mail \in Seq(Kinds) /\ notices \in Seq({"connected", "disconnected", "error"})
    OBVIOUS
  <2>2. at \in [Callers -> LooperPlaces \cup WindowPlaces] /\ back \in [Callers -> LooperPlaces \cup WindowPlaces]
    BY DEF LooperPlaces, WindowPlaces
  <2>3. reader \in [Readers -> ReaderPlaces]
    BY DEF ReaderPlaces
  <2>4. waits \in [Callers -> Readers \cup {None}] /\ using \in [Readers -> Readers \cup {None}]
    OBVIOUS
  <2> QED
    BY <2>1, <2>2, <2>3, <2>4 DEF TypeOK
<1>2. WindowServes /\ UsingInv /\ LooperInv /\ QuitInv
  BY DEF WindowServes, UsingInv, LooperInv, QuitInv
<1>3. LiveInv
  BY DEF LiveInv, Live
<1> QED
  BY <1>1, <1>2, <1>3 DEF IInv, ServeInv

(* The types alone need no assumption on the hazards.                      *)
LEMMA TypeStep == TypeOK /\ [Next]_vars => TypeOK'
<1> SUFFICES ASSUME TypeOK, [Next]_vars PROVE TypeOK'
  OBVIOUS
<1> USE DEF TypeOK, Callers, LooperPlaces, WindowPlaces, ReaderPlaces, link, calls
<1>1. \A n \in {"connected", "disconnected", "error"} : Notifies(n) =>
        notices' \in Seq({"connected", "disconnected", "error"})
  BY DEF Notifies
<1>2. \A k \in Kinds : Takes(k) => mail' \in Seq(Kinds)
  BY DEF Takes
<1>0. \A k \in Kinds : Posts(k) => mail' \in Seq(Kinds)
  BY DEF Posts
<1>3. ASSUME NEW t \in Callers, Disconnect(t) PROVE TypeOK'
  <2>1. CASE StopReader(t)
    <3>1. at' \in [Callers -> LooperPlaces \cup WindowPlaces]
      BY <2>1 DEF StopReader, Goes
    <3>2. waits' \in [Callers -> Readers \cup {None}] /\ readThread' \in Readers \cup {None} /\ running' \in BOOLEAN
      BY <2>1 DEF StopReader
    <3> QED
      BY <2>1, <3>1, <3>2 DEF StopReader
  <2>2. CASE WaitReader(t)
    BY <2>2 DEF WaitReader, Goes
  <2>3. CASE ClosePort(t)
    BY <2>3 DEF ClosePort, Goes
  <2>4. CASE TellDisconnected(t)
    BY <1>1, <2>4 DEF TellDisconnected, Goes
  <2> QED
    BY <1>3, <2>1, <2>2, <2>3, <2>4 DEF Disconnect
<1>4. CASE BeginConnect
  BY <1>2, <1>4 DEF BeginConnect, CallsDisconnect, Goes, Kinds
<1>5. CASE OpenPort
  BY <1>1, <1>5 DEF OpenPort, Goes
<1>6. CASE OpenFails
  BY <1>1, <1>6 DEF OpenFails, Goes
<1>7. CASE HandleDisconnect \/ HandleRaw \/ HandleQuit
  BY <1>2, <1>7 DEF HandleDisconnect, HandleRaw, HandleQuit, CallsDisconnect, Goes, Kinds
<1>8. ASSUME NEW r \in Readers, Reader(r) PROVE TypeOK'
  <2>1. CASE Top(r)
    BY <2>1 DEF Top, Turns, ReaderUnchanged
  <2>2. CASE Select(r)
    BY <2>2 DEF Select, Turns, ReaderUnchanged, GivesUp
  <2>3. CASE Read(r)
    BY <2>3 DEF Read, Turns, ReaderUnchanged, GivesUp
  <2>4. CASE PostFrame(r)
    BY <2>4 DEF PostFrame, Turns, ReaderUnchanged
  <2>5. CASE Fail(r)
    BY <1>1, <2>5 DEF Fail, Turns, ReaderUnchanged
  <2> QED
    BY <1>8, <2>1, <2>2, <2>3, <2>4, <2>5 DEF Reader
<1>9. CASE PostConnect \/ PostDisconnect \/ PostRaw \/ PostQuit
  BY <1>0, <1>9 DEF PostConnect, PostDisconnect, PostRaw, PostQuit, Goes, Kinds
<1>10. CASE WriteFrame \/ ReportFrame \/ SetRawMode
  BY <1>10 DEF WriteFrame, ReportFrame, SetRawMode, Goes
<1>11. CASE HandleNotice
  <2>1. notices' \in Seq({"connected", "disconnected", "error"})
    BY <1>11 DEF HandleNotice
  <2>2. up' \in {TRUE, FALSE, up}
    BY <1>11 DEF HandleNotice
  <2> QED
    BY <1>11, <2>1, <2>2 DEF HandleNotice
<1>12. CASE QuitRequested
  BY <1>12 DEF QuitRequested, Goes
<1>13. CASE DisconnectIfConnected("quit1", "quit2") \/ DisconnectIfConnected("quit2", "quit3")
  BY <1>13 DEF DisconnectIfConnected, CallsDisconnect, Goes
<1>14. CASE UNCHANGED vars
  BY <1>14 DEF vars
<1> QED
  BY <1>3, <1>4, <1>5, <1>6, <1>7, <1>8, <1>9, <1>10, <1>11, <1>12, <1>13, <1>14
  DEF Next, Looper, Window, Quitting

(* SerialHandler's fields, its thread, the window and the two mailboxes    *)
(* keep their types, with every hazard.                                    *)
THEOREM TypeCorrect == Spec => []TypeOK
<1>1. Init => TypeOK
  BY InitIInv DEF IInv
<1> QED
  BY <1>1, TypeStep, PTL DEF Spec

-----------------------------------------------------------------------------
(* ServeInv is inductive as long as the window does not quit.              *)

LEMMA LooperStep == ServeInv /\ Looper => ServeInv'
<1> SUFFICES ASSUME ServeInv, Looper PROVE ServeInv'
  OBVIOUS
<1>0. TypeOK'
  BY TypeStep DEF ServeInv, Next
<1> USE DEF ServeInv, TypeOK, Callers, WindowServes, LiveInv, UsingInv, LooperInv, Live, link, calls
<1>1. CASE BeginConnect
  BY <1>0, <1>1 DEF BeginConnect, Takes, CallsDisconnect, Goes
<1>2. CASE OpenPort
  <2>1. Live = {}
    BY <1>2 DEF OpenPort
  <2> QED
    BY <1>0, <1>2, <2>1 DEF OpenPort, Goes
<1>3. CASE OpenFails
  BY <1>0, <1>3 DEF OpenFails, Goes
<1>4. CASE HandleDisconnect
  BY <1>0, <1>4 DEF HandleDisconnect, Takes, CallsDisconnect, Goes
<1>5. CASE HandleRaw
  BY <1>0, <1>5 DEF HandleRaw, Takes
<1>6. CASE HandleQuit
  BY <1>0, <1>6 DEF HandleQuit, Takes, CallsDisconnect, Goes
<1>7. CASE StopReader("looper")
  BY <1>0, <1>7 DEF StopReader, Goes
<1>8. CASE WaitReader("looper")
  <2>1. Live = {}
    BY <1>8 DEF WaitReader, Readers
  <2> QED
    BY <1>0, <1>8, <2>1 DEF WaitReader, Goes
<1>9. CASE ClosePort("looper")
  <2>1. Live = {}
    BY <1>9 DEF ClosePort
  <2> QED
    BY <1>0, <1>9, <2>1 DEF ClosePort, Goes
<1>10. CASE TellDisconnected("looper")
  <2>1. Live = {}
    BY <1>10 DEF TellDisconnected
  <2> QED
    BY <1>0, <1>10, <2>1 DEF TellDisconnected, Goes
<1> QED
  BY <1>1, <1>2, <1>3, <1>4, <1>5, <1>6, <1>7, <1>8, <1>9, <1>10 DEF Looper, Disconnect

LEMMA WindowStep == ServeInv /\ Window /\ WindowServes' => ServeInv'
<1> SUFFICES ASSUME ServeInv, Window, WindowServes' PROVE ServeInv'
  OBVIOUS
<1>0. TypeOK'
  BY TypeStep DEF ServeInv, Next
<1> USE DEF ServeInv, TypeOK, Callers, WindowServes, LiveInv, UsingInv, LooperInv, Live, link, calls
<1>1. CASE PostConnect \/ PostDisconnect \/ PostRaw
  BY <1>0, <1>1 DEF PostConnect, PostDisconnect, PostRaw
<1>2. CASE WriteFrame \/ ReportFrame
  BY <1>0, <1>2 DEF WriteFrame, ReportFrame, Goes
<1>3. CASE SetRawMode \/ HandleNotice
  BY <1>0, <1>3 DEF SetRawMode, HandleNotice
<1>4. CASE Quitting
  BY <1>4 DEF Quitting, QuitRequested, DisconnectIfConnected, CallsDisconnect, PostQuit, Goes
<1>5. CASE Disconnect("window")
  BY <1>5 DEF Disconnect, StopReader, WaitReader, ClosePort, TellDisconnected
<1> QED
  BY <1>1, <1>2, <1>3, <1>4, <1>5 DEF Window

LEMMA ReaderStep == \A r \in Readers : ServeInv /\ Reader(r) => ServeInv'
<1> SUFFICES ASSUME NEW r \in Readers, ServeInv, Reader(r) PROVE ServeInv'
  OBVIOUS
<1>0. TypeOK'
  BY TypeStep DEF ServeInv, Next
<1> USE DEF ServeInv, TypeOK, Callers, WindowServes, LiveInv, UsingInv, LooperInv, Live, link, calls
<1>1. CASE Top(r)
  BY <1>0, <1>1 DEF Top, Turns, ReaderUnchanged
<1>2. CASE Select(r)
  BY <1>0, <1>2 DEF Select, Turns, ReaderUnchanged, GivesUp
<1>3. CASE Read(r)
  BY <1>0, <1>3 DEF Read, Turns, ReaderUnchanged, GivesUp
<1>4. CASE PostFrame(r)
  BY <1>0, <1>4 DEF PostFrame, Turns, ReaderUnchanged
<1>5. CASE Fail(r)
  BY <1>0, <1>5 DEF Fail, Turns, ReaderUnchanged
<1> QED
  BY <1>1, <1>2, <1>3, <1>4, <1>5 DEF Reader

(* Nothing but the window itself moves the window.                         *)
LEMMA QuitStep == TypeOK /\ QuitInv /\ [Next]_vars => QuitInv' /\ (WindowServes' => WindowServes)
<1> SUFFICES ASSUME TypeOK, QuitInv, [Next]_vars PROVE QuitInv' /\ (WindowServes' => WindowServes)
  OBVIOUS
<1> USE DEF TypeOK, QuitInv, WindowServes, Callers, link, calls
<1>1. ASSUME NEW t \in Callers, Disconnect(t) PROVE QuitInv' /\ (WindowServes' => WindowServes)
  BY <1>1 DEF Disconnect, StopReader, WaitReader, ClosePort, TellDisconnected, Goes
<1>2. CASE BeginConnect \/ HandleDisconnect \/ HandleRaw \/ HandleQuit
  BY <1>2 DEF BeginConnect, HandleDisconnect, HandleRaw, HandleQuit, Takes, CallsDisconnect, Goes
<1>3. CASE OpenPort \/ OpenFails
  BY <1>3 DEF OpenPort, OpenFails, Goes
<1>4. ASSUME NEW r \in Readers, Reader(r) PROVE QuitInv' /\ (WindowServes' => WindowServes)
  BY <1>4 DEF Reader, Top, Select, Read, PostFrame, Fail, ReaderUnchanged
<1>5. CASE PostConnect \/ PostDisconnect \/ PostRaw \/ SetRawMode \/ HandleNotice
  BY <1>5 DEF PostConnect, PostDisconnect, PostRaw, SetRawMode, HandleNotice
<1>6. CASE WriteFrame \/ ReportFrame
  BY <1>6 DEF WriteFrame, ReportFrame, WindowIdle, Goes
<1>7. CASE Quitting
  BY <1>7 DEF Quitting, QuitRequested, DisconnectIfConnected, CallsDisconnect, PostQuit, WindowIdle, Goes
<1>8. CASE UNCHANGED vars
  BY <1>8 DEF vars
<1> QED
  BY <1>1, <1>2, <1>3, <1>4, <1>5, <1>6, <1>7, <1>8 DEF Next, Looper, Window

LEMMA IInvStep == IInv /\ [Next]_vars => IInv'
<1> SUFFICES ASSUME IInv, [Next]_vars PROVE IInv'
  OBVIOUS
<1>1. TypeOK' /\ QuitInv' /\ (WindowServes' => WindowServes)
  BY TypeStep, QuitStep DEF IInv
<1>2. CASE UNCHANGED vars
  BY <1>2 DEF IInv, ServeInv, TypeOK, QuitInv, WindowServes, LiveInv, UsingInv, LooperInv, Live, vars, link, calls
<1>3. CASE Next
  BY <1>1, <1>3, LooperStep, WindowStep, ReaderStep DEF IInv, Next
<1> QED
  BY <1>2, <1>3

(* IInv is an invariant, with any number of CONNECTs, with a device that   *)
(* goes away and with a window that quits.                                 *)
THEOREM Inductive == Spec => []IInv
  BY IInvStep, InitIInv, PTL DEF Spec

(* Disconnect, as SerialHandler's looper runs it, closes no port under a   *)
(* reader that is in select or read, wherever the two threads stand.       *)
THEOREM PortOutlivesReader == Spec => []ReaderUsesOpenFd
<1>1. IInv => ReaderUsesOpenFd
  BY DEF IInv, ServeInv, LiveInv, UsingInv, ReaderUsesOpenFd, Live
<1> QED
  BY <1>1, Inductive, PTL

(* However often the user connects, no two readers fill the buffers.       *)
THEOREM SingleReader == Spec => []OneReader
<1>1. IInv => OneReader
  BY DEF IInv, ServeInv, LiveInv, OneReader
<1> QED
  BY <1>1, Inductive, PTL

-----------------------------------------------------------------------------
(* What the window knows of the link.                                      *)

(* The last notice of the link among some, if there is one.                *)
News == {"connected", "disconnected"}
NoNews(q) == \A i \in DOMAIN q : q[i] \notin News
LastNews(q, n) == \E i \in DOMAIN q : q[i] = n /\ \A j \in DOMAIN q : j > i => q[j] \notin News

(* Once its notices are handled the window knows the link as it is, except *)
(* where a notice is about to be posted.                                   *)
Knows ==
  \/ NoNews(notices) /\ up = connected
  \/ LastNews(notices, "connected") /\ connected
  \/ LastNews(notices, "disconnected") /\ ~connected
ViewInv == WindowServes /\ at["looper"] # "tell" => Knows

Notices == {"connected", "disconnected", "error"}

LEMMA NoticePosted ==
  ASSUME NEW q \in Seq(Notices), NEW n \in Notices, NEW m
  PROVE  /\ n \in News => LastNews(Append(q, n), n)
         /\ n \notin News /\ NoNews(q) => NoNews(Append(q, n))
         /\ n \notin News /\ LastNews(q, m) => LastNews(Append(q, n), m)
<1> DEFINE p == Append(q, n)
<1>1. /\ DOMAIN q = 1 .. Len(q) /\ DOMAIN p = 1 .. Len(q) + 1 /\ Len(q) \in Nat
      /\ p[Len(q) + 1] = n /\ \A i \in DOMAIN q : p[i] = q[i]
  OBVIOUS
<1> HIDE DEF p
<1>2. \A i \in DOMAIN p : i \in DOMAIN q \/ i = Len(q) + 1
  BY <1>1
<1>3. n \in News => LastNews(p, n)
  BY <1>1 DEF LastNews
<1>4. n \notin News /\ NoNews(q) => NoNews(p)
  BY <1>1, <1>2 DEF NoNews
<1>5. n \notin News /\ LastNews(q, m) => LastNews(p, m)
  BY <1>1, <1>2 DEF LastNews
<1> QED
  BY <1>3, <1>4, <1>5 DEF p

LEMMA NoticeHandled ==
  ASSUME NEW q \in Seq(Notices), q # <<>>, NEW n
  PROVE  /\ NoNews(q) => NoNews(Tail(q)) /\ Head(q) \notin News
         /\ LastNews(q, n) => LastNews(Tail(q), n) \/ (NoNews(Tail(q)) /\ Head(q) = n)
<1> DEFINE p == Tail(q)
<1>1. /\ DOMAIN q = 1 .. Len(q) /\ DOMAIN p = 1 .. Len(q) - 1 /\ Len(q) \in Nat \ {0}
      /\ Head(q) = q[1] /\ \A i \in DOMAIN p : p[i] = q[i + 1]
  OBVIOUS
<1> HIDE DEF p
<1>2. NoNews(q) => NoNews(p) /\ Head(q) \notin News
  BY <1>1 DEF NoNews
<1>3. ASSUME LastNews(q, n) PROVE LastNews(p, n) \/ (NoNews(p) /\ Head(q) = n)
  <2>1. PICK i \in DOMAIN q : q[i] = n /\ \A j \in DOMAIN q : j > i => q[j] \notin News
    BY <1>3 DEF LastNews
  <2>2. CASE i = 1
    BY <1>1, <2>1, <2>2 DEF NoNews
  <2>3. CASE i # 1
    <3>1. i \in Int /\ i - 1 \in DOMAIN p /\ i - 1 + 1 = i
      BY <1>1, <2>1, <2>3
    <3>2. PICK k \in DOMAIN p : k + 1 = i
      BY <3>1
    <3>3. p[k] = n
      BY <1>1, <2>1, <3>2
    <3>4. \A j \in DOMAIN p : j > k => p[j] \notin News
      BY <1>1, <2>1, <3>2
    <3>5. LastNews(p, n)
      BY <3>2, <3>3, <3>4 DEF LastNews
    <3> QED
      BY <3>5
  <2> QED
    BY <2>2, <2>3
<1> QED
  BY <1>2, <1>3 DEF p

-----------------------------------------------------------------------------
(* How both threads end.                                                   *)

(* One CONNECT at a time: it is the only message of its kind, nothing is   *)
(* connected until it is done, and the window has nothing to disconnect.   *)
WindowRests == at["window"] \notin {"stop", "wait", "close", "tell"}
ConnectInv ==
  /\ \A i \in DOMAIN mail : mail[i] = "connect" =>
       i = 1 /\ at["looper"] = "idle" /\ ~connected /\ WindowRests
  /\ at["looper"] = "open" => WindowRests
  /\ at["looper"] \in {"stop", "wait", "close", "tell"} => back["looper"] \in {"idle", "gone"}
  /\ at["looper"] \in {"open", "tell", "gone"} => ~connected

(* A reader that lives is known by its handle or is waited for, and only   *)
(* the port of the connection is open.                                     *)
ThreadInv ==
  /\ \A t \in Callers : at[t] \in {"wait", "close"} => readThread = None
  /\ \A r \in Live : \/ readThread = r /\ connected
                     \/ \E t \in Callers : at[t] = "wait" /\ waits[t] = r
  /\ open \subseteq {fd} \ {None}
  /\ ~connected => fd = None

CleanInv == ~again => ConnectInv /\ ThreadInv
EndInv == IInv /\ ViewInv /\ CleanInv

LEMMA InitEndInv == Init => EndInv
<1> SUFFICES ASSUME Init PROVE EndInv
  OBVIOUS
<1>1. ViewInv
  <2>1. NoNews(notices)
    BY DEF Init, NoNews
  <2> QED
    BY <2>1 DEF Init, ViewInv, Knows
<1>2. ConnectInv /\ ThreadInv
  BY DEF Init, ConnectInv, ThreadInv, WindowRests, Callers, Live
<1> QED
  BY <1>1, <1>2, InitIInv DEF EndInv, CleanInv

(* Where the link and what the window knows of it stay as they are.        *)
LEMMA KnowsKept ==
  ASSUME Knows, TypeOK, UNCHANGED <<up, connected>>,
         UNCHANGED notices \/ notices' = Append(notices, "error")
  PROVE  Knows'
<1>1. "error" \in Notices /\ "error" \notin News /\ notices \in Seq(Notices)
  BY DEF Notices, News, TypeOK
<1>2. CASE UNCHANGED notices
  BY <1>2 DEF Knows
<1>3. CASE notices' = Append(notices, "error")
  <2>1. /\ NoNews(notices) => NoNews(notices')
        /\ LastNews(notices, "connected") => LastNews(notices', "connected")
        /\ LastNews(notices, "disconnected") => LastNews(notices', "disconnected")
    BY <1>1, <1>3, NoticePosted
  <2> QED
    BY <2>1 DEF Knows
<1> QED
  BY <1>2, <1>3

LEMMA ViewStep == ServeInv /\ ViewInv /\ [Next]_vars /\ WindowServes' => ViewInv'
<1> SUFFICES ASSUME ServeInv, ViewInv, [Next]_vars, WindowServes', at'["looper"] # "tell"
             PROVE  Knows'
  BY DEF ViewInv
<1>1. TypeOK /\ WindowServes /\ LooperInv /\ notices \in Seq(Notices)
  BY DEF ServeInv, TypeOK, Notices
<1>2. at["looper"] # "tell" => Knows
  BY <1>1 DEF ViewInv
<1>3. News \subseteq Notices /\ "connected" \in News /\ "disconnected" \in News
  BY DEF News, Notices
<1>4. CASE TellDisconnected("looper")
  <2>1. ~connected /\ ~connected' /\ notices' = Append(notices, "disconnected")
    BY <1>1, <1>4 DEF TellDisconnected, LooperInv, Notifies, link
  <2> QED
    BY <1>1, <1>3, <2>1, NoticePosted DEF Knows
<1>5. CASE OpenPort
  <2>1. connected' = TRUE /\ notices' = Append(notices, "connected")
    BY <1>5 DEF OpenPort, Notifies
  <2> QED
    BY <1>1, <1>3, <2>1, NoticePosted DEF Knows
<1>6. CASE HandleNotice
  <2>1. /\ notices # <<>> /\ notices' = Tail(notices) /\ UNCHANGED <<connected, at>>
        /\ up' = CASE Head(notices) = "connected" -> TRUE
                   [] Head(notices) = "disconnected" -> FALSE
                   [] OTHER -> up
    BY <1>6 DEF HandleNotice, link
  <2>2. at["looper"] # "tell"
    BY <2>1
  <2>3. CASE NoNews(notices) /\ up = connected
    <3>1. NoNews(notices') /\ Head(notices) \notin News
      BY <1>1, <2>1, <2>3, NoticeHandled
    <3>2. up' = up
      BY <2>1, <3>1 DEF News
    <3> QED
      BY <2>1, <2>3, <3>1, <3>2 DEF Knows
  <2>4. CASE LastNews(notices, "connected") /\ connected
    <3>1. LastNews(notices', "connected") \/ (NoNews(notices') /\ Head(notices) = "connected")
      BY <1>1, <2>1, <2>4, NoticeHandled
    <3>2. Head(notices) = "connected" => up' = TRUE
      BY <2>1
    <3>3. connected \in BOOLEAN
      BY <1>1 DEF TypeOK
    <3> QED
      BY <2>1, <2>4, <3>1, <3>2, <3>3 DEF Knows
  <2>5. CASE LastNews(notices, "disconnected") /\ ~connected
    <3>1. LastNews(notices', "disconnected") \/ (NoNews(notices') /\ Head(notices) = "disconnected")
      BY <1>1, <2>1, <2>5, NoticeHandled
    <3>2. Head(notices) = "disconnected" => up' = FALSE
      BY <2>1
    <3>3. connected \in BOOLEAN
      BY <1>1 DEF TypeOK
    <3> QED
      BY <2>1, <2>5, <3>1, <3>2, <3>3 DEF Knows
  <2> QED
    BY <1>2, <2>2, <2>3, <2>4, <2>5 DEF Knows
<1>7. CASE ClosePort("looper")
  BY <1>1, <1>7 DEF ClosePort, Goes, TypeOK, Callers
<1>8. ASSUME UNCHANGED <<up, connected>>, at["looper"] # "tell",
             UNCHANGED notices \/ notices' = Append(notices, "error")
      PROVE  Knows'
  BY <1>1, <1>2, <1>8, KnowsKept
<1>9. CASE BeginConnect \/ OpenFails \/ HandleDisconnect \/ HandleRaw \/ HandleQuit
  BY <1>8, <1>9 DEF BeginConnect, OpenFails, HandleDisconnect, HandleRaw, HandleQuit, Takes, Notifies, link
<1>10. CASE StopReader("looper") \/ WaitReader("looper")
  BY <1>8, <1>10 DEF StopReader, WaitReader, link
<1>11. CASE \E r \in Readers : Reader(r)
  BY <1>8, <1>11 DEF Reader, Top, Select, Read, PostFrame, Fail, ReaderUnchanged, Notifies, link
<1>12. CASE PostConnect \/ PostDisconnect \/ PostRaw \/ SetRawMode
  BY <1>8, <1>12 DEF PostConnect, PostDisconnect, PostRaw, SetRawMode, link
<1>13. CASE WriteFrame \/ ReportFrame
  BY <1>1, <1>8, <1>13 DEF WriteFrame, ReportFrame, Goes, TypeOK, Callers, link
<1>14. CASE Quitting \/ Disconnect("window")
  BY <1>1, <1>14 DEF Quitting, QuitRequested, DisconnectIfConnected, CallsDisconnect, PostQuit, Disconnect,
     StopReader, WaitReader, ClosePort, TellDisconnected, Goes, WindowServes, WindowIdle, TypeOK, Callers
<1>15. CASE UNCHANGED vars
  BY <1>8, <1>15 DEF vars, link
<1> QED
  BY <1>4, <1>5, <1>6, <1>7, <1>9, <1>10, <1>11, <1>12, <1>13, <1>14, <1>15
     DEF Next, Looper, Window, Disconnect

(* A message taken is the first one, so no CONNECT waits behind it.        *)
LEMMA TakenMail ==
  ASSUME TypeOK, ConnectInv, NEW kind, Takes(kind)
  PROVE  /\ \A i \in DOMAIN mail' : mail'[i] # "connect"
         /\ kind = "connect" => ~connected /\ WindowRests
<1>1. /\ mail \in Seq(Kinds) /\ mail # <<>> /\ mail' = Tail(mail) /\ mail[1] = kind
  BY DEF TypeOK, Takes
<1>2. /\ 1 \in DOMAIN mail
      /\ \A i \in DOMAIN mail' : i + 1 \in DOMAIN mail /\ mail'[i] = mail[i + 1] /\ i + 1 # 1
  BY <1>1
<1> QED
  BY <1>1, <1>2 DEF ConnectInv

LEMMA MailKept ==
  ASSUME NEW q \in Seq(Kinds), NEW k \in Kinds
  PROVE  \A i \in DOMAIN Append(q, k) :
           \/ i = Len(q) + 1 /\ Append(q, k)[i] = k
           \/ i \in DOMAIN q /\ Append(q, k)[i] = q[i]
  OBVIOUS

LEMMA ConnectStep == ASSUME TypeOK, QuitInv, ConnectInv, [Next]_vars, ~again, ~again' PROVE ConnectInv'
<1>1. /\ mail \in Seq(Kinds) /\ at \in [Callers -> LooperPlaces \cup WindowPlaces]
      /\ back \in [Callers -> LooperPlaces \cup WindowPlaces]
      /\ "looper" \in Callers /\ "window" \in Callers
  BY DEF TypeOK, Callers
<1> USE DEF link, calls
<1>2. CASE BeginConnect
  <2>1. /\ ~connected /\ WindowRests /\ at' = [at EXCEPT !["looper"] = "open"]
        /\ UNCHANGED <<connected, back>> /\ \A i \in DOMAIN mail' : mail'[i] # "connect"
    BY <1>2, TakenMail DEF BeginConnect, Goes
  <2> QED
    BY <1>1, <2>1 DEF ConnectInv, WindowRests
<1>3. CASE HandleDisconnect \/ HandleQuit
  <2>1. /\ at' = [at EXCEPT !["looper"] = "stop"]
        /\ back' \in {[back EXCEPT !["looper"] = "idle"], [back EXCEPT !["looper"] = "gone"]}
        /\ \A i \in DOMAIN mail' : mail'[i] # "connect"
    BY <1>3, TakenMail DEF HandleDisconnect, HandleQuit, CallsDisconnect, Goes
  <2> QED
    BY <1>1, <2>1 DEF ConnectInv, WindowRests
<1>4. CASE HandleRaw
  <2>1. UNCHANGED <<at, back, connected>> /\ \A i \in DOMAIN mail' : mail'[i] # "connect"
    BY <1>4, TakenMail DEF HandleRaw
  <2> QED
    BY <1>1, <2>1 DEF ConnectInv, WindowRests
<1>5. CASE OpenPort \/ OpenFails
  <2>1. /\ at["looper"] = "open" /\ at' = [at EXCEPT !["looper"] = "idle"]
        /\ UNCHANGED <<mail, back>>
    BY <1>5 DEF OpenPort, OpenFails, Goes
  <2>2. \A i \in DOMAIN mail' : mail'[i] # "connect"
    BY <2>1 DEF ConnectInv
  <2> QED
    BY <1>1, <2>1, <2>2 DEF ConnectInv, WindowRests
<1>6. CASE Disconnect("looper")
  <2>1. /\ at["looper"] \in {"stop", "wait", "close", "tell"} /\ UNCHANGED <<mail, back>>
        /\ back["looper"] \in {"idle", "gone"}
    BY <1>6 DEF Disconnect, StopReader, WaitReader, ClosePort, TellDisconnected, ConnectInv
  <2>2. \A i \in DOMAIN mail' : mail'[i] # "connect"
    BY <2>1 DEF ConnectInv
  <2>3. at'["window"] = at["window"] /\ at'["looper"] \in {"wait", "close", "tell", back["looper"]}
    BY <1>1, <1>6 DEF Disconnect, StopReader, WaitReader, ClosePort, TellDisconnected, Goes
  <2>4. at'["looper"] \in {"tell", "gone", back["looper"]} => at'["looper"] = "wait"
                                                         \/ at'["looper"] = "close" \/ ~connected'
    BY <1>1, <1>6, <2>1
       DEF Disconnect, StopReader, WaitReader, ClosePort, TellDisconnected, Goes, ConnectInv
  <2> QED
    BY <1>1, <2>1, <2>2, <2>3, <2>4 DEF ConnectInv, WindowRests
<1>7. CASE \E r \in Readers : Reader(r)
  BY <1>7 DEF Reader, Top, Select, Read, PostFrame, Fail, ReaderUnchanged, ConnectInv, WindowRests
<1>8. CASE PostConnect
  <2>1. mail = <<>> /\ mail' = <<"connect">> /\ at["looper"] = "idle" /\ ~connected
        /\ at["window"] = "idle" /\ UNCHANGED <<at, back, connected>>
    <3>1. /\ again' = (again \/ ~Quiet) /\ mail' = Append(mail, "connect")
          /\ at["window"] = "idle" /\ UNCHANGED <<at, back, connected>>
      BY <1>8 DEF PostConnect, Posts, WindowIdle
    <3>2. Quiet
      BY <3>1, Zenon
    <3> QED
      BY <3>1, <3>2 DEF Quiet
  <2> QED
    BY <1>1, <2>1 DEF ConnectInv, WindowRests
<1>9. CASE PostDisconnect \/ PostRaw \/ PostQuit
  <2>1. PICK k \in Kinds : k # "connect" /\ mail' = Append(mail, k)
    BY <1>9 DEF PostDisconnect, PostRaw, PostQuit, Posts, Kinds
  <2>2. \A i \in DOMAIN mail' : mail'[i] = "connect" => i \in DOMAIN mail /\ mail[i] = "connect"
    BY <1>1, <2>1, MailKept
  <2>3. at' \in {at, [at EXCEPT !["window"] = "gone"]} /\ UNCHANGED <<back, connected>>
    BY <1>9 DEF PostDisconnect, PostRaw, PostQuit, Goes
  <2> QED
    BY <1>1, <2>2, <2>3 DEF ConnectInv, WindowRests
<1>10. CASE WriteFrame \/ ReportFrame \/ SetRawMode \/ HandleNotice \/ QuitRequested
  <2>1. /\ at' \in {at, [at EXCEPT !["window"] = "sent"], [at EXCEPT !["window"] = "idle"],
                   [at EXCEPT !["window"] = "quit1"]}
        /\ UNCHANGED <<mail, back, connected>>
    BY <1>10 DEF WriteFrame, ReportFrame, SetRawMode, HandleNotice, QuitRequested, Goes
  <2> QED
    BY <1>1, <2>1 DEF ConnectInv, WindowRests
<1>11. CASE DisconnectIfConnected("quit1", "quit2") \/ DisconnectIfConnected("quit2", "quit3")
  <2>1. UNCHANGED <<mail, connected>> /\ back'["looper"] = back["looper"] /\ at'["looper"] = at["looper"]
    BY <1>1, <1>11 DEF DisconnectIfConnected, CallsDisconnect, Goes
  <2>2. connected \/ at'["window"] \in {"quit2", "quit3"}
    BY <1>1, <1>11 DEF DisconnectIfConnected, Goes
  <2> QED
    BY <2>1, <2>2 DEF ConnectInv, WindowRests
<1>12. CASE Disconnect("window")
  <2>1. /\ ~WindowRests /\ UNCHANGED <<mail, back>> /\ at'["looper"] = at["looper"]
        /\ ~connected => ~connected'
    BY <1>1, <1>12 DEF Disconnect, StopReader, WaitReader, ClosePort, TellDisconnected, Goes, WindowRests
  <2> QED
    BY <2>1 DEF ConnectInv
<1>13. CASE UNCHANGED vars
  BY <1>13 DEF vars, ConnectInv, WindowRests
<1> QED
  BY <1>2, <1>3, <1>4, <1>5, <1>6, <1>7, <1>8, <1>9, <1>10, <1>11, <1>12, <1>13
     DEF Next, Looper, Window, Quitting

(* Every step of a reader takes it on or ends it.                          *)
LEMMA ThreadStep ==
  ASSUME TypeOK, QuitInv, ConnectInv, ThreadInv, [Next]_vars, ~again, ~again'
  PROVE  ThreadInv'
<1>1. /\ at \in [Callers -> LooperPlaces \cup WindowPlaces]
      /\ waits \in [Callers -> Readers \cup {None}]
      /\ reader \in [Readers -> ReaderPlaces] /\ 0 \notin Readers
      /\ "looper" \in Callers /\ "window" \in Callers
  BY DEF TypeOK, Callers, Readers
<1> USE DEF link, calls
<1>2. ASSUME Live' \subseteq Live, UNCHANGED <<readThread, connected, open, fd, waits>>,
             \A t \in Callers : /\ at'[t] \in {"wait", "close"} => at[t] \in {"wait", "close"}
                                /\ at[t] = "wait" => at'[t] = "wait"
      PROVE  ThreadInv'
  BY <1>2 DEF ThreadInv
<1>3. CASE BeginConnect \/ HandleDisconnect \/ HandleQuit \/ HandleRaw \/ OpenFails
  <2>1. UNCHANGED <<reader, readThread, connected, open, fd, waits>>
    BY <1>3 DEF BeginConnect, HandleDisconnect, HandleQuit, HandleRaw, OpenFails
  <2>2. \E x \in {"open", "stop", "idle"} : at' = at \/ (at["looper"] \in {"idle", "open"} /\ at' = [at EXCEPT !["looper"] = x])
    BY <1>3 DEF BeginConnect, HandleDisconnect, HandleQuit, HandleRaw, OpenFails, CallsDisconnect, Takes, Goes
  <2> QED
    BY <1>1, <1>2, <2>1, <2>2 DEF Live
<1>4. CASE OpenPort
  <2>1. PICK r \in Readers :
          /\ reader[r] = "unborn" /\ fd' = r /\ readThread' = r /\ open' = open \cup {r}
          /\ reader' = [reader EXCEPT ![r] = "top"] /\ connected' = TRUE
          /\ at["looper"] = "open" /\ at' = [at EXCEPT !["looper"] = "idle"] /\ UNCHANGED waits
    BY <1>4 DEF OpenPort, Goes
  <2>2. ~connected /\ WindowRests
    BY <2>1 DEF ConnectInv
  <2>3. \A t \in Callers : at[t] \notin {"wait", "close"} /\ at'[t] \notin {"wait", "close"}
    BY <1>1, <2>1, <2>2 DEF WindowRests, Callers
  <2>4. Live = {} /\ open = {}
    BY <2>2, <2>3 DEF ThreadInv
  <2>5. Live' \subseteq {r}
    BY <1>1, <2>1, <2>4 DEF Live
  <2> QED
    BY <1>1, <2>1, <2>3, <2>4, <2>5 DEF ThreadInv
<1>5. ASSUME NEW t \in Callers, Disconnect(t) PROVE ThreadInv'
  <2>1. UNCHANGED reader
    BY <1>5 DEF Disconnect, StopReader, WaitReader, ClosePort, TellDisconnected
  <2>2. at[t] \in {"stop", "wait", "close", "tell"} => back[t] \in {"idle", "gone", "quit2", "quit3"}
    <3>1. CASE t = "looper"
      BY <3>1 DEF ConnectInv
    <3>2. CASE t = "window"
      BY <3>2 DEF QuitInv
    <3> QED
      BY <3>1, <3>2 DEF Callers
  <2>3. ASSUME at[t] \in {"stop", "tell"}, at' = [at EXCEPT ![t] = back[t]],
               UNCHANGED <<readThread, connected, open, fd, waits>>
        PROVE  ThreadInv'
    BY <1>1, <1>2, <2>1, <2>2, <2>3 DEF Live
  <2>4. CASE StopReader(t)
    <3>1. CASE ~connected
      BY <2>3, <2>4, <3>1 DEF StopReader, Goes
    <3>2. CASE connected
      <4>1. /\ at[t] = "stop" /\ at' = [at EXCEPT ![t] = "wait"]
            /\ waits' = [waits EXCEPT ![t] = readThread] /\ readThread' = None
            /\ UNCHANGED <<connected, open, fd>>
        BY <2>4, <3>2 DEF StopReader, Goes
      <4>2. \A u \in Callers : at[u] = "wait" => at'[u] = "wait" /\ waits'[u] = waits[u]
        BY <1>1, <4>1
      <4>3. at'[t] = "wait" /\ waits'[t] = readThread
        BY <1>1, <4>1
      <4> QED
        BY <2>1, <4>1, <4>2, <4>3 DEF ThreadInv, Live
    <3> QED
      BY <3>1, <3>2
  <2>5. CASE WaitReader(t)
    <3>1. /\ at[t] = "wait" /\ at' = [at EXCEPT ![t] = "close"]
          /\ waits[t] # None => reader[waits[t]] = "dead"
          /\ UNCHANGED <<readThread, connected, open, fd, waits>>
      BY <2>5 DEF WaitReader, Goes
    <3>2. waits[t] \notin Live
      BY <1>1, <3>1 DEF Live
    <3>3. \A u \in Callers : at[u] = "wait" /\ waits[u] \in Live => at'[u] = "wait"
      BY <1>1, <3>1, <3>2
    <3>4. \A u \in Callers : at'[u] \in {"wait", "close"} => at[u] \in {"wait", "close"}
      BY <1>1, <3>1
    <3> QED
      BY <2>1, <3>1, <3>3, <3>4 DEF ThreadInv, Live
  <2>6. CASE ClosePort(t)
    <3>1. /\ at[t] = "close" /\ at' = [at EXCEPT ![t] = "tell"]
          /\ open' = open \ {fd} /\ fd' = None /\ connected' = FALSE
          /\ UNCHANGED <<readThread, waits>>
      BY <2>6 DEF ClosePort, Goes
    <3>2. readThread = None /\ \A r \in Live : r # None
      BY <1>1, <3>1 DEF ThreadInv, Live
    <3>3. \A u \in Callers : /\ at[u] = "wait" => at'[u] = "wait"
                          /\ at'[u] \in {"wait", "close"} => at[u] \in {"wait", "close"}
      BY <1>1, <3>1
    <3>4. open' = {}
      BY <3>1 DEF ThreadInv
    <3> QED
      BY <2>1, <3>1, <3>2, <3>3, <3>4 DEF ThreadInv, Live
  <2>7. CASE TellDisconnected(t)
    BY <2>3, <2>7 DEF TellDisconnected, Goes
  <2> QED
    BY <1>5, <2>4, <2>5, <2>6, <2>7 DEF Disconnect
<1>6. ASSUME NEW r \in Readers, Reader(r) PROVE ThreadInv'
  <2>1. reader[r] \notin {"unborn", "dead"} /\ \E p \in ReaderPlaces : reader' = [reader EXCEPT ![r] = p]
    BY <1>6 DEF Reader, Top, Select, Read, PostFrame, Fail, Turns, GivesUp, ReaderPlaces
  <2>2. UNCHANGED <<at, readThread, connected, open, fd, waits>>
    BY <1>6 DEF Reader, Top, Select, Read, PostFrame, Fail, ReaderUnchanged
  <2>3. Live' \subseteq Live
    BY <1>1, <2>1 DEF Live
  <2> QED
    BY <1>2, <2>2, <2>3
<1>7. CASE PostConnect \/ PostDisconnect \/ PostRaw \/ SetRawMode \/ HandleNotice \/ UNCHANGED vars
  <2>1. UNCHANGED <<at, reader, readThread, connected, open, fd, waits>>
    BY <1>7 DEF PostConnect, PostDisconnect, PostRaw, SetRawMode, HandleNotice, vars
  <2> QED
    BY <1>2, <2>1 DEF Live
<1>8. CASE WriteFrame \/ ReportFrame \/ Quitting
  <2>1. UNCHANGED <<reader, readThread, connected, open, fd, waits>>
    BY <1>8 DEF WriteFrame, ReportFrame, Quitting, QuitRequested, DisconnectIfConnected, PostQuit
  <2>2. \E x \in {"sent", "idle", "quit1", "quit2", "quit3", "stop", "gone"} :
          at["window"] \in {"sent", "idle", "quit1", "quit2", "quit3"} /\ at' = [at EXCEPT !["window"] = x]
    BY <1>8 DEF WriteFrame, ReportFrame, Quitting, QuitRequested, DisconnectIfConnected, CallsDisconnect,
                PostQuit, Goes, WindowIdle
  <2> QED
    BY <1>1, <1>2, <2>1, <2>2 DEF Live
<1> QED
  BY <1>3, <1>4, <1>5, <1>6, <1>7, <1>8 DEF Next, Looper, Window, Callers

LEMMA EndStep == EndInv /\ [Next]_vars => EndInv'
<1> SUFFICES ASSUME EndInv, [Next]_vars PROVE EndInv'
  OBVIOUS
<1>1. IInv' /\ TypeOK /\ QuitInv /\ (WindowServes' => WindowServes)
  BY IInvStep, QuitStep DEF EndInv, IInv
<1>2. ViewInv'
  <2>1. CASE ~WindowServes'
    BY <2>1 DEF ViewInv
  <2>2. CASE WindowServes'
    BY <1>1, <2>2, ViewStep DEF EndInv, IInv
  <2> QED
    BY <2>1, <2>2
<1>3. again => again'
  BY DEF Next, Looper, Window, Quitting, Disconnect, StopReader, WaitReader, ClosePort, TellDisconnected,
     BeginConnect, OpenPort, OpenFails, HandleDisconnect, HandleRaw, HandleQuit, Reader, Top, Select, Read,
     PostFrame, Fail, ReaderUnchanged, PostConnect, PostDisconnect, PostRaw, WriteFrame, ReportFrame,
     SetRawMode, HandleNotice, QuitRequested, DisconnectIfConnected, PostQuit, vars
<1>4. CleanInv'
  BY <1>1, <1>3, ConnectStep, ThreadStep DEF EndInv, CleanInv
<1> QED
  BY <1>1, <1>2, <1>4 DEF EndInv

LEMMA EndInvariance == Spec => []EndInv
  BY InitEndInv, EndStep, PTL DEF Spec

(* When nothing is under way the window shows the link as it is, however   *)
(* connects, disconnects, failures and notices were interleaved.           *)
THEOREM WindowKnows == Spec => []ViewFollowsLink
<1>1. EndInv => ViewFollowsLink
  <2> SUFFICES ASSUME EndInv, notices = <<>>, at["looper"] = "idle", at["window"] = "idle"
               PROVE  up = connected
    BY DEF ViewFollowsLink
  <2>1. Knows
    BY DEF EndInv, ViewInv, WindowServes
  <2>2. \A n : ~LastNews(<<>>, n)
    BY DEF LastNews
  <2> QED
    BY <2>1, <2>2 DEF Knows
<1> QED
  BY <1>1, EndInvariance, PTL

(* The two threads may both disconnect as they end, in any interleaving:   *)
(* nothing is left connected or open and no reader lives.                  *)
THEOREM EndsClean == Spec => []CleanEnd
<1>1. EndInv => CleanEnd
  BY DEF EndInv, CleanInv, CleanEnd, ConnectInv, ThreadInv, Callers
<1> QED
  BY <1>1, EndInvariance, PTL
-----------------------------------------------------------------------------
(* The promise of LinkPromise.                                             *)

(* What the promise sees of the link while the window serves.              *)
PhaseOf(c, place) == IF c THEN "up" ELSE IF place = "tell" THEN "closed" ELSE "down"

LEMMA PhaseSeen ==
  /\ WindowServes => Phase = PhaseOf(connected, at["looper"])
  /\ ~WindowServes => Phase = "over"
  /\ WindowServes' => Phase' = PhaseOf(connected', at'["looper"])
  /\ ~WindowServes' => Phase' = "over"
<1>1. /\ WindowServes => Phase = PhaseOf(connected, at["looper"])
      /\ ~WindowServes => Phase = "over"
  BY DEF Phase, PhaseOf
<1>2. /\ WindowServes' => Phase' = PhaseOf(connected', at'["looper"])
      /\ ~WindowServes' => Phase' = "over"
  BY DEF Phase, PhaseOf
<1> QED
  BY <1>1, <1>2

(* The steps of the promise, in terms of the link.                         *)
Seen == <<PhaseOf(connected, at["looper"]), Live, notices, up>>
SeenOpen ==
  /\ ~connected /\ at["looper"] # "tell" /\ Live = {}
  /\ connected' /\ \E r \in Readers : Live' = {r}
  /\ notices' = Append(notices, "connected") /\ up' = up
SeenEnd ==
  /\ connected /\ connected' /\ Live # {} /\ Live' = {}
  /\ notices' \in {notices, Append(notices, "error")} /\ up' = up
SeenClose ==
  /\ connected /\ ~connected' /\ at'["looper"] = "tell" /\ Live = {} /\ Live' = {}
  /\ UNCHANGED <<notices, up>>
SeenDown ==
  /\ ~connected /\ at["looper"] = "tell" /\ ~connected' /\ at'["looper"] # "tell"
  /\ notices' = Append(notices, "disconnected")
  /\ Live' = Live /\ up' = up
SeenFailure ==
  /\ ~connected /\ at["looper"] # "tell" /\ ~connected' /\ at'["looper"] # "tell"
  /\ notices' = Append(notices, "error")
  /\ Live' = Live /\ up' = up
SeenNotice ==
  /\ notices # <<>> /\ notices' = Tail(notices)
  /\ up' = IF Head(notices) = "error" THEN up ELSE Head(notices) = "connected"
  /\ UNCHANGED <<connected, at>> /\ Live' = Live
SeenStep == SeenOpen \/ SeenEnd \/ SeenClose \/ SeenDown \/ SeenFailure \/ SeenNotice

LEMMA LooperSeen == ServeInv /\ Looper => SeenStep \/ UNCHANGED Seen
<1> SUFFICES ASSUME ServeInv, Looper PROVE SeenStep \/ UNCHANGED Seen
  OBVIOUS
<1> USE DEF Seen, PhaseOf, link, calls, Callers
<1>1. /\ TypeOK /\ LooperInv /\ at \in [Callers -> LooperPlaces \cup WindowPlaces]
      /\ at["looper"] \in {"open", "close", "tell"} => Live = {}
  BY DEF ServeInv, LiveInv, TypeOK
<1>2. CASE BeginConnect \/ HandleDisconnect \/ HandleQuit
  BY <1>1, <1>2 DEF BeginConnect, HandleDisconnect, HandleQuit, Takes, CallsDisconnect, Goes, Live
<1>3. CASE HandleRaw
  BY <1>3 DEF HandleRaw, Live
<1>4. CASE OpenPort
  <2>1. ~connected /\ at["looper"] = "open" /\ Live = {}
    BY <1>1, <1>4 DEF OpenPort, LooperInv
  <2>2. PICK r \in Readers : reader' = [reader EXCEPT ![r] = "top"]
    BY <1>4 DEF OpenPort
  <2>3. Live' = {r}
    BY <1>1, <2>1, <2>2 DEF Live, TypeOK
  <2>4. SeenOpen
    BY <1>4, <2>1, <2>3 DEF OpenPort, Notifies, SeenOpen
  <2> QED
    BY <2>4 DEF SeenStep
<1>5. CASE OpenFails
  <2>1. ~connected /\ at["looper"] = "open"
    BY <1>1, <1>5 DEF OpenFails, LooperInv
  <2>2. SeenFailure
    BY <1>1, <1>5, <2>1 DEF OpenFails, Notifies, Goes, SeenFailure, Live
  <2> QED
    BY <2>2 DEF SeenStep
<1>6. CASE StopReader("looper")
  BY <1>1, <1>6 DEF StopReader, Goes, Live, LooperInv
<1>7. CASE WaitReader("looper")
  BY <1>1, <1>7 DEF WaitReader, Goes, Live
<1>8. CASE ClosePort("looper")
  <2>1. SeenClose
    BY <1>1, <1>8 DEF ClosePort, Goes, SeenClose, Live, LooperInv
  <2> QED
    BY <2>1 DEF SeenStep
<1>9. CASE TellDisconnected("looper")
  <2>1. SeenDown
    BY <1>1, <1>9 DEF TellDisconnected, Goes, Notifies, SeenDown, Live, LooperInv
  <2> QED
    BY <2>1 DEF SeenStep
<1> QED
  BY <1>2, <1>3, <1>4, <1>5, <1>6, <1>7, <1>8, <1>9 DEF Looper, Disconnect

LEMMA ReaderSeen ==
  ASSUME ServeInv, NEW r \in Readers, Reader(r)
  PROVE  SeenStep \/ UNCHANGED Seen
<1> USE DEF Seen, link, calls
<1>1. TypeOK /\ LiveInv
  BY DEF ServeInv
<1>2. UNCHANGED <<up, connected, at>>
  BY DEF Reader, Top, Select, Read, PostFrame, Fail, ReaderUnchanged
<1>3. r \in Live
  BY DEF Reader, Top, Select, Read, PostFrame, Fail, Live
<1>4. connected /\ Live = {r}
  BY <1>1, <1>3 DEF LiveInv
<1>5. PICK p \in ReaderPlaces \ {"unborn"} :
        /\ reader' = [reader EXCEPT ![r] = p]
        /\ notices' = notices \/ (p = "dead" /\ notices' = Append(notices, "error"))
  BY DEF Reader, Top, Select, Read, PostFrame, Fail, Turns, GivesUp, Notifies, ReaderPlaces
<1>6. CASE p = "dead"
  <2>1. Live' = {}
    BY <1>1, <1>4, <1>5, <1>6 DEF Live, TypeOK
  <2>2. SeenEnd
    BY <1>2, <1>4, <1>5, <2>1 DEF SeenEnd
  <2> QED
    BY <2>2 DEF SeenStep
<1>7. CASE p # "dead"
  <2>1. Live' = Live
    BY <1>1, <1>3, <1>5, <1>7 DEF Live, TypeOK
  <2> QED
    BY <1>2, <1>5, <1>7, <2>1
<1> QED
  BY <1>6, <1>7

LEMMA WindowSeen == ServeInv /\ Window /\ WindowServes' => SeenStep \/ UNCHANGED Seen
<1> SUFFICES ASSUME ServeInv, Window, WindowServes' PROVE SeenStep \/ UNCHANGED Seen
  OBVIOUS
<1> USE DEF Seen, link, calls, Callers
<1>1. TypeOK /\ WindowServes /\ at \in [Callers -> LooperPlaces \cup WindowPlaces]
  BY DEF ServeInv, TypeOK
<1>2. CASE PostConnect \/ PostDisconnect \/ PostRaw
  BY <1>2 DEF PostConnect, PostDisconnect, PostRaw, Live
<1>3. CASE WriteFrame \/ ReportFrame
  BY <1>1, <1>3 DEF WriteFrame, ReportFrame, Goes, Live
<1>4. CASE SetRawMode
  BY <1>4 DEF SetRawMode, Live
<1>5. CASE HandleNotice
  <2>1. Head(notices) \in {"connected", "disconnected", "error"} /\ notices # <<>>
    BY <1>1, <1>5 DEF HandleNotice, TypeOK
  <2>2. up' = IF Head(notices) = "error" THEN up ELSE Head(notices) = "connected"
    BY <1>5, <2>1 DEF HandleNotice
  <2>3. SeenNotice
    BY <1>5, <2>1, <2>2 DEF HandleNotice, SeenNotice, Live
  <2> QED
    BY <2>3 DEF SeenStep
<1>6. CASE Quitting
  BY <1>1, <1>6 DEF Quitting, QuitRequested, DisconnectIfConnected, CallsDisconnect, PostQuit, Goes,
                    WindowServes, TypeOK
<1>7. CASE Disconnect("window")
  BY <1>1, <1>7 DEF Disconnect, StopReader, WaitReader, ClosePort, TellDisconnected, WindowServes
<1> QED
  BY <1>2, <1>3, <1>4, <1>5, <1>6, <1>7 DEF Window

(* A step the promise sees is one of its own.                              *)
LEMMA SeenKeeps ==
  ASSUME WindowServes, WindowServes', SeenStep \/ UNCHANGED Seen
  PROVE  L!Step \/ UNCHANGED L!promiseVars
<1>1. Phase = PhaseOf(connected, at["looper"]) /\ Phase' = PhaseOf(connected', at'["looper"])
  BY PhaseSeen
<1> USE DEF PhaseOf, L!Step, L!Tells
<1>2. CASE SeenOpen
  <2>1. L!Open
    BY <1>1, <1>2 DEF SeenOpen, L!Open
  <2> QED
    BY <2>1
<1>3. CASE SeenEnd
  <2>1. L!ReaderEnds
    BY <1>1, <1>3 DEF SeenEnd, L!ReaderEnds
  <2> QED
    BY <2>1
<1>4. CASE SeenClose
  <2>1. L!Close
    BY <1>1, <1>4 DEF SeenClose, L!Close
  <2> QED
    BY <2>1
<1>5. CASE SeenDown
  <2>1. L!Down
    BY <1>1, <1>5 DEF SeenDown, L!Down
  <2> QED
    BY <2>1
<1>6. CASE SeenFailure
  <2>1. L!OpenFails
    BY <1>1, <1>6 DEF SeenFailure, L!OpenFails
  <2> QED
    BY <2>1
<1>7. CASE SeenNotice
  <2>1. L!Hear
    BY <1>1, <1>7 DEF SeenNotice, L!Hear
  <2> QED
    BY <2>1
<1>8. CASE UNCHANGED Seen
  BY <1>1, <1>8 DEF Seen, L!promiseVars
<1> QED
  BY <1>2, <1>3, <1>4, <1>5, <1>6, <1>7, <1>8 DEF SeenStep

(* One connection at a time, each with a reader of its own that has ended  *)
(* before the port is closed, one notice when it is up and one when it is  *)
(* down, all heard in order: until the window quits, whatever is posted to *)
(* the looper and whichever port breaks.                                   *)
THEOREM LinkKeepsPromise == Spec => KeepsPromise
<1>1. Init => L!Begin
  <2> SUFFICES ASSUME Init PROVE L!Begin
    OBVIOUS
  <2>1. WindowServes /\ ~connected /\ at["looper"] = "idle" /\ notices = <<>> /\ up = FALSE
    BY DEF Init, WindowServes, Callers
  <2>2. Live = {}
    BY DEF Init, Live
  <2> QED
    BY <2>1, <2>2, PhaseSeen DEF L!Begin, PhaseOf
<1>2. IInv /\ [Next]_vars => [L!Step]_(L!promiseVars)
  <2> SUFFICES ASSUME IInv, [Next]_vars PROVE L!Step \/ UNCHANGED L!promiseVars
    OBVIOUS
  <2>1. WindowServes' => WindowServes
    BY QuitStep DEF IInv
  <2>2. CASE WindowServes'
    <3>1. ServeInv /\ WindowServes
      BY <2>1, <2>2 DEF IInv
    <3>2. CASE UNCHANGED vars
      BY <3>2 DEF vars, link, calls, Phase, Live, WindowServes, L!promiseVars
    <3>3. CASE Next
      <4>1. SeenStep \/ UNCHANGED Seen
        BY <2>2, <3>1, <3>3, LooperSeen, WindowSeen, ReaderSeen DEF Next
      <4> QED
        BY <2>2, <3>1, <4>1, SeenKeeps
    <3> QED
      BY <3>2, <3>3
  <2>3. CASE WindowServes /\ ~WindowServes'
    <3>1. Phase # "over" /\ Phase' = "over"
      BY <2>3, PhaseSeen DEF PhaseOf
    <3>2. L!Quit
      BY <2>3, <3>1 DEF L!Quit
    <3> QED
      BY <3>2 DEF L!Step
  <2>4. CASE ~WindowServes /\ ~WindowServes'
    BY <2>4, PhaseSeen DEF L!promiseVars
  <2> QED
    BY <2>1, <2>2, <2>3, <2>4
<1> QED
  BY <1>1, <1>2, Inductive, PTL DEF Spec, KeepsPromise, L!Promise
=============================================================================
