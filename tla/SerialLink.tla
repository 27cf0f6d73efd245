----------------------------- MODULE SerialLink -----------------------------
(***************************************************************************)
(* The serial link: SerialHandler's looper, its reader threads and the     *)
(* threads that call into it, with the two locks they share.               *)
(*                                                                         *)
(* SerialHandler is a looper of its own that handles CONNECT, DISCONNECT   *)
(* and SEND_RAW.  Connect starts a reader thread, Disconnect waits for it  *)
(* and closes the port.  The window's thread calls SendFrame, SetRawMode   *)
(* and, when it quits, Disconnect directly.  fLock is recursive and is     *)
(* held for more than one step by Connect only; fWriteLock is held by      *)
(* SendFrame while it waits for fLock.  Everything else is read without    *)
(* a lock.  Notices are posted to the window and handled there in order.   *)
(*                                                                         *)
(* A reader thread and the port it was started for have the same number;   *)
(* None stands for fSerialFd = -1 and for fReadThread = -1.                *)
(***************************************************************************)
EXTENDS Integers, Sequences

CONSTANTS
  NReaders,  \* bound: how many times a port is opened
  MaxMail,   \* bound: the user acts while fewer messages and fewer notices wait
  Hazards    \* what may happen: "connect_again", "quit", "unplug"

ASSUME NReadersAssumption == NReaders \in Nat \ {0}
ASSUME MaxMailAssumption == MaxMail \in Nat \ {0}
ASSUME HazardsAssumption == Hazards \subseteq {"connect_again", "quit", "unplug"}

None == 0
Readers == 1 .. NReaders
Callers == {"looper", "window"}

VARIABLES
  mail,      \* SerialHandler's message queue, oldest first
  notices,   \* what SerialHandler posted to the window, not yet handled
  up,        \* MainWindow's fConnected
  connected, \* SerialHandler's fConnected
  running,   \* fRunning
  rawMode,   \* fRawMode
  fd,        \* fSerialFd
  readThread,\* fReadThread
  open,      \* the ports that are open
  at,        \* where the looper and the window stand
  reader,    \* where each reader thread stands
  back,      \* where Disconnect returns to, for its callers
  waits,     \* the reader Disconnect waits for (threadToWait), for its callers
  using,     \* the port each reader works on in this turn of its loop
  again      \* history: a CONNECT was posted while a connection was up or under way

link == <<connected, running, rawMode, fd, readThread, open>>
calls == <<back, waits>>
vars == <<mail, notices, up, link, at, calls, reader, using, again>>

Kinds == {"connect", "disconnect", "raw", "quit"}
LooperPlaces == {"idle", "open", "stop", "wait", "close", "tell", "gone"}
WindowPlaces == {"idle", "sent", "quit1", "quit2", "quit3", "stop", "wait", "close", "tell", "gone"}
ReaderPlaces == {"unborn", "top", "select", "read", "post", "fail", "dead"}

TypeOK ==
  /\ mail \in Seq(Kinds)
  /\ notices \in Seq({"connected", "disconnected", "error"})
  /\ up \in BOOLEAN
  /\ connected \in BOOLEAN
  /\ running \in BOOLEAN
  /\ rawMode \in BOOLEAN
  /\ fd \in Readers \cup {None}
  /\ readThread \in Readers \cup {None}
  /\ open \subseteq Readers
  /\ at \in [Callers -> LooperPlaces \cup WindowPlaces]
  /\ reader \in [Readers -> ReaderPlaces]
  /\ back \in [Callers -> LooperPlaces \cup WindowPlaces]
  /\ waits \in [Callers -> Readers \cup {None}]
  /\ using \in [Readers -> Readers \cup {None}]
  /\ again \in BOOLEAN

Init ==
  /\ mail = <<>>
  /\ notices = <<>>
  /\ up = FALSE
  /\ connected = FALSE
  /\ running = FALSE
  /\ rawMode = FALSE
  /\ fd = None
  /\ readThread = None
  /\ open = {}
  /\ at = [t \in Callers |-> "idle"]
  /\ reader = [r \in Readers |-> "unborn"]
  /\ back = [t \in Callers |-> "idle"]
  /\ waits = [t \in Callers |-> None]
  /\ using = [r \in Readers |-> None]
  /\ again = FALSE

-----------------------------------------------------------------------------
(* Locks.                                                                  *)

(* Connect holds fLock from its first line to its last, the Disconnect it  *)
(* calls included.                                                         *)
InConnect == at["looper"] = "open" \/ (at["looper"] \in {"stop", "wait", "close", "tell"} /\ back["looper"] = "open")

LockFreeHeldInWait == ~InConnect /\ \A t \in Callers : at[t] # "wait"
LockFree == ~InConnect
LockFreeFor(t) == t = "looper" \/ LockFree

WriteLockFree == at["window"] # "sent"

Goes(t, p) == at' = [at EXCEPT ![t] = p]
Notifies(n) == notices' = Append(notices, n)
Live == {r \in Readers : reader[r] \notin {"unborn", "dead"}}

-----------------------------------------------------------------------------
(* Disconnect, called by t.                                                *)

CallsDisconnect(t, from, to) ==
  /\ at[t] = from
  /\ Goes(t, "stop")
  /\ back' = [back EXCEPT ![t] = to]

(* Nothing to do unless connected; fRunning tells the reader to end.       *)
StopReader(t) ==
  /\ at[t] = "stop"
  /\ LockFreeFor(t)
  /\ \/ /\ ~connected
        /\ Goes(t, back[t])
        /\ UNCHANGED <<running, readThread, waits>>
     \/ /\ connected
        /\ running' = FALSE
        /\ waits' = [waits EXCEPT ![t] = readThread]
        /\ readThread' = None
        /\ Goes(t, "wait")
  /\ UNCHANGED <<mail, notices, up, connected, rawMode, fd, open, back, reader, using, again>>

(* wait_for_thread, when there is a thread to wait for.                    *)
WaitReaderNot(t) ==
  /\ at[t] = "wait"
  /\ Goes(t, "close")
  /\ UNCHANGED <<mail, notices, up, link, calls, reader, using, again>>
WaitReader(t) ==
  /\ at[t] = "wait"
  /\ waits[t] # None => reader[waits[t]] = "dead"
  /\ Goes(t, "close")
  /\ UNCHANGED <<mail, notices, up, link, calls, reader, using, again>>

ClosePort(t) ==
  /\ at[t] = "close"
  /\ LockFreeFor(t)
  /\ open' = open \ {fd}
  /\ fd' = None
  /\ connected' = FALSE
  /\ rawMode' = FALSE
  /\ Goes(t, "tell")
  /\ UNCHANGED <<mail, notices, up, running, readThread, calls, reader, using, again>>

TellDisconnectedNot(t) ==
  /\ at[t] = "tell"
  /\ Goes(t, back[t])
  /\ UNCHANGED <<mail, notices, up, link, calls, reader, using, again>>
TellDisconnected(t) ==
  /\ at[t] = "tell"
  /\ LockFreeFor(t)
  /\ Notifies("disconnected")
  /\ Goes(t, back[t])
  /\ UNCHANGED <<mail, up, link, calls, reader, using, again>>

Disconnect(t) == StopReader(t) \/ WaitReader(t) \/ ClosePort(t) \/ TellDisconnected(t)

-----------------------------------------------------------------------------
(* SerialHandler's looper.                                                 *)

Takes(kind) ==
  /\ at["looper"] = "idle"
  /\ mail # <<>>
  /\ Head(mail) = kind
  /\ mail' = Tail(mail)

(* Connect first closes the port that is open.                             *)
BeginConnectOver ==
  /\ Takes("connect")
  /\ Goes("looper", "open")
  /\ UNCHANGED <<notices, up, link, calls, reader, using, again>>
BeginConnect ==
  /\ Takes("connect")
  /\ \/ connected /\ CallsDisconnect("looper", "idle", "open")
     \/ ~connected /\ Goes("looper", "open") /\ UNCHANGED back
  /\ UNCHANGED <<notices, up, link, waits, reader, using, again>>

(* The port opens and its reader is started.                               *)
OpenPort ==
  /\ at["looper"] = "open"
  /\ \E r \in Readers :
       /\ reader[r] = "unborn"
       /\ \A s \in Readers : s < r => reader[s] # "unborn"
       /\ fd' = r
       /\ readThread' = r
       /\ open' = open \cup {r}
       /\ reader' = [reader EXCEPT ![r] = "top"]
  /\ Goes("looper", "idle")
  /\ connected' = TRUE
  /\ running' = TRUE
  /\ Notifies("connected")
  /\ UNCHANGED <<mail, up, rawMode, calls, using, again>>

(* The port does not open, or it is closed again as no thread can start.   *)
OpenFails ==
  /\ at["looper"] = "open"
  /\ running' \in {running, TRUE}
  /\ Notifies("error")
  /\ Goes("looper", "idle")
  /\ UNCHANGED <<mail, up, connected, rawMode, fd, readThread, open, calls, reader, using, again>>

HandleDisconnect ==
  /\ Takes("disconnect")
  /\ CallsDisconnect("looper", "idle", "idle")
  /\ UNCHANGED <<notices, up, link, waits, reader, using, again>>

(* SendRawText writes under fWriteLock and posts nothing.                  *)
HandleRaw ==
  /\ WriteLockFree
  /\ Takes("raw")
  /\ UNCHANGED <<notices, up, link, at, calls, reader, using, again>>

(* Quit: the destructor disconnects in the looper's own thread.            *)
HandleQuitOnly ==
  /\ Takes("quit")
  /\ Goes("looper", "gone")
  /\ UNCHANGED <<notices, up, link, calls, reader, using, again>>
HandleQuit ==
  /\ Takes("quit")
  /\ CallsDisconnect("looper", "idle", "gone")
  /\ UNCHANGED <<notices, up, link, waits, reader, using, again>>

Looper == BeginConnect \/ OpenPort \/ OpenFails \/ HandleDisconnect \/ HandleRaw \/ HandleQuit
          \/ Disconnect("looper")

-----------------------------------------------------------------------------
(* A reader thread: _ReadLoop.                                             *)

Turns(r, p) == reader' = [reader EXCEPT ![r] = p]
ReaderUnchanged == UNCHANGED <<mail, up, link, at, calls, again>>

Top(r) ==
  /\ reader[r] = "top"
  /\ using' = [using EXCEPT ![r] = fd]
  /\ \/ (~running \/ fd = None) /\ Turns(r, "dead")
     \/ running /\ fd # None /\ Turns(r, "select")
  /\ ReaderUnchanged
  /\ UNCHANGED notices

(* A port that is closed or unplugged fails the call: the reader reports   *)
(* it, unless it is being stopped, and ends.  fConnected stays.            *)
Breaks(r) == using[r] \notin open \/ "unplug" \in Hazards
GivesUp(r) == Turns(r, IF running THEN "fail" ELSE "dead")

(* select: data, a timeout of one second (fRunning is read again before    *)
(* the port is touched by ioctl), or an error.  A signal ends the reader   *)
(* without a report, running or not.                                       *)
Select(r) ==
  /\ reader[r] = "select"
  /\ \/ Turns(r, "read")
     \/ Turns(r, "dead")
     \/ running /\ Turns(r, "top")
     \/ Breaks(r) /\ GivesUp(r)
  /\ ReaderUnchanged
  /\ UNCHANGED <<notices, using>>

(* read: bytes that complete a frame or a line, or not, or an error.       *)
Read(r) ==
  /\ reader[r] = "read"
  /\ \/ Turns(r, "post")
     \/ Turns(r, "top")
     \/ Breaks(r) /\ GivesUp(r)
  /\ ReaderUnchanged
  /\ UNCHANGED <<notices, using>>

(* _NotifyFrameReceived, _NotifyRawLine: the window's other business.      *)
PostFrame(r) ==
  /\ reader[r] = "post"
  /\ LockFree
  /\ Turns(r, "top")
  /\ ReaderUnchanged
  /\ UNCHANGED <<notices, using>>

Fail(r) ==
  /\ reader[r] = "fail"
  /\ LockFree
  /\ Notifies("error")
  /\ Turns(r, "dead")
  /\ ReaderUnchanged
  /\ UNCHANGED using

Reader(r) == Top(r) \/ Select(r) \/ Read(r) \/ PostFrame(r) \/ Fail(r)

-----------------------------------------------------------------------------
(* The window's thread.                                                    *)

Room == Len(mail) < MaxMail /\ Len(notices) < MaxMail  \* bound, for the user only
Posts(kind) == mail' = Append(mail, kind)
WindowIdle == at["window"] = "idle"

(* No connection is up, under way or asked for.                            *)
Quiet == ~up /\ ~connected /\ mail = <<>> /\ at["looper"] = "idle"

(* The port menu or the auto-connect timer.  Both are enabled while an     *)
(* earlier CONNECT is under way; the menu also while connected.            *)
PostConnect ==
  /\ WindowIdle
  /\ Room
  /\ "connect_again" \in Hazards \/ Quiet
  /\ Posts("connect")
  /\ again' = (again \/ ~Quiet)
  /\ UNCHANGED <<notices, up, link, at, calls, reader, using>>

PostDisconnect ==
  /\ WindowIdle
  /\ Room
  /\ Posts("disconnect")
  /\ UNCHANGED <<notices, up, link, at, calls, reader, using, again>>

PostRaw ==
  /\ WindowIdle
  /\ Room
  /\ Posts("raw")
  /\ UNCHANGED <<notices, up, link, at, calls, reader, using, again>>

(* SendFrame: the frame is written under fWriteLock, then reported.        *)
WriteFrame ==
  /\ WindowIdle
  /\ connected
  /\ fd # None
  /\ Goes("window", "sent")
  /\ UNCHANGED <<mail, notices, up, link, calls, reader, using, again>>

ReportFrame ==
  /\ at["window"] = "sent"
  /\ LockFree
  /\ Goes("window", "idle")
  /\ UNCHANGED <<mail, notices, up, link, calls, reader, using, again>>

(* The handshake has timed out: SetRawMode.                                *)
SetRawMode ==
  /\ WindowIdle
  /\ up
  /\ LockFree
  /\ rawMode' = TRUE
  /\ UNCHANGED <<mail, notices, up, connected, running, fd, readThread, open, at, calls, reader, using, again>>

(* _OnConnected, _OnDisconnected; an error is logged and nothing else.     *)
HandleNotice ==
  /\ WindowIdle
  /\ notices # <<>>
  /\ up' = CASE Head(notices) = "connected" -> TRUE
             [] Head(notices) = "disconnected" -> FALSE
             [] OTHER -> up
  /\ notices' = Tail(notices)
  /\ UNCHANGED <<mail, link, at, calls, reader, using, again>>

(* QuitRequested and the destructor each disconnect if still connected,    *)
(* then the looper is told to quit and waited for.                         *)
QuitRequested ==
  /\ "quit" \in Hazards
  /\ WindowIdle
  /\ Goes("window", "quit1")
  /\ UNCHANGED <<mail, notices, up, link, calls, reader, using, again>>

DisconnectIfConnected(from, to) ==
  /\ \/ connected /\ CallsDisconnect("window", from, to)
     \/ ~connected /\ at["window"] = from /\ Goes("window", to) /\ UNCHANGED back
  /\ UNCHANGED <<mail, notices, up, link, waits, reader, using, again>>

PostQuit ==
  /\ at["window"] = "quit3"
  /\ Posts("quit")
  /\ Goes("window", "gone")
  /\ UNCHANGED <<notices, up, link, calls, reader, using, again>>

Quitting ==
  \/ QuitRequested
  \/ DisconnectIfConnected("quit1", "quit2")
  \/ DisconnectIfConnected("quit2", "quit3")
  \/ PostQuit

WindowWork == ReportFrame \/ HandleNotice \/ Disconnect("window")
              \/ (Quitting /\ at["window"] # "idle")

Window ==
  \/ PostConnect
  \/ PostDisconnect
  \/ PostRaw
  \/ WriteFrame
  \/ ReportFrame
  \/ SetRawMode
  \/ HandleNotice
  \/ Quitting
  \/ Disconnect("window")

Next ==
  \/ Looper
  \/ Window
  \/ \E r \in Readers : Reader(r)

Spec == Init /\ [][Next]_vars

(* Every thread runs; a lock that is free again and again is given to the  *)
(* thread that waits for it, as BLocker queues its waiters.  Nothing makes *)
(* the user act or data arrive.                                            *)
Fairness ==
  /\ SF_vars(Looper)
  /\ SF_vars(WindowWork)
  /\ \A r \in Readers : SF_vars(Reader(r))

FairSpec == Spec /\ Fairness

-----------------------------------------------------------------------------
(* Properties.                                                             *)

(* Until the window quits, a reader never works on a port that has been    *)
(* closed: closing under a pending select panics the USB driver.           *)
WindowServes == at["window"] \in {"idle", "sent"}
ReaderUsesOpenFd ==
  WindowServes => \A r \in Readers : reader[r] \in {"select", "read"} => using[r] \in open

(* Until the window quits, at most one reader works on fReadBuffer and     *)
(* fFrameBuffer, which no lock protects.                                   *)
OneReader == WindowServes => \A r, s \in Live : r = s

(* Disconnect returns: the reader it waits for ends, whatever it was doing *)
(* and whichever lock it needed for that.                                  *)
DisconnectReturns == \A t \in Callers : at[t] = "wait" ~> at[t] # "wait"

(* It does unless a connection was asked for on top of another: that one   *)
(* holds fLock, or has set fRunning again.                                 *)
DisconnectReturnsFirst == \A t \in Callers : at[t] = "wait" ~> at[t] # "wait" \/ again

(* When nothing is under way the window and SerialHandler agree on whether *)
(* the link is up.                                                         *)
ViewFollowsLink ==
  notices = <<>> /\ at["looper"] = "idle" /\ at["window"] = "idle" => up = connected

(* When both threads have ended every port is closed and no reader lives,  *)
(* unless a connection was asked for on top of another.                    *)
CleanEnd ==
  ~again /\ at["looper"] = "gone" /\ at["window"] = "gone" => ~connected /\ open = {} /\ Live = {}

(* The link keeps the promise of LinkPromise.                              *)
Phase ==
  CASE ~WindowServes -> "over"
    [] WindowServes /\ connected -> "up"
    [] WindowServes /\ ~connected -> IF at["looper"] = "tell" THEN "closed" ELSE "down"

L == INSTANCE LinkPromise WITH
       Connections <- Readers, phase <- Phase,
       alive <- IF WindowServes THEN Live ELSE {},
       told <- IF WindowServes THEN notices ELSE <<>>,
       view <- IF WindowServes THEN up ELSE FALSE

KeepsPromise == L!Promise
=============================================================================
