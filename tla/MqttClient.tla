------------------------------- MODULE MqttClient -------------------------------
(***************************************************************************)
(* The bridge to an MQTT broker.  Three threads share it: the window calls *)
(* Connect and Disconnect, the client's looper starts and stops the        *)
(* library and takes note of the connection, and the library's network     *)
(* thread connects, reconnects and reports.  Whoever is not the looper     *)
(* posts to it; only the flag of a manual disconnect, the settings and the *)
(* reconnect timer are touched by the window as well.                      *)
(*                                                                         *)
(* The library is modelled by what the client sees of it: its thread       *)
(* retries by itself while it runs, opening a connection anew closes an    *)
(* old one without a report, and a disconnect reports in the caller's      *)
(* thread what was connected.  loop_stop takes the thread between two of   *)
(* its steps.                                                              *)
(***************************************************************************)
EXTENDS Integers, Sequences

CONSTANTS
  NClicks, \* bound: what the user asks for after the first connection
  NLosses  \* bound: connections lost or refused

ASSUME BoundsAssumption == NClicks \in Nat /\ NLosses \in Nat

\* Every loss makes at most one timer, a refusal two.
Timers == 1 .. 2 * NLosses
NULL == 0

VARIABLES
  enabled,   \* fSettings.enabled
  manual,    \* fManualDisconnect
  connected, \* fConnected
  timer,     \* fReconnectTimer
  runner,    \* the runners it pointed to: unborn, armed, fired or deleted
  mail,      \* the looper's messages
  window,    \* where the window is in Connect or Disconnect
  looper,    \* where the looper is in _StartReconnectTimer
  loop,      \* the library's thread runs
  sock,      \* its connection: none, open (not accepted yet) or up
  failed,    \* history: connecting failed at once and nothing runs
  cut,       \* history: a connection was closed with its report still to come
  crashed,   \* a runner was deleted twice, and nothing is known after it
  clicks, losses \* what is left of the bounds

flags == <<enabled, manual, connected>>
timing == <<timer, runner>>
library == <<loop, sock>>
history == <<failed, cut>>
vars == <<flags, timing, mail, window, looper, library, history, crashed, clicks, losses>>

States == {"up", "refused", "lost", "ended"}

(* Also, no connection is left without the thread that serves it.          *)
TypeOK ==
  /\ enabled \in BOOLEAN /\ manual \in BOOLEAN /\ connected \in BOOLEAN
  /\ timer \in Timers \cup {NULL}
  /\ runner \in [Timers -> {"unborn", "armed", "fired", "deleted"}]
  /\ mail \in Seq({"connect", "disconnect", "timer"} \cup States)
  /\ window \in {"idle", "connect", "disconnect"} \X {"stop", "null", "post"}
  /\ looper \in {"idle", "null", "arm"}
  /\ loop \in BOOLEAN /\ sock \in {"none", "open", "up"} /\ (sock # "none" => loop)
  /\ failed \in BOOLEAN /\ cut \in BOOLEAN /\ crashed \in BOOLEAN
  /\ clicks \in 0 .. NClicks /\ losses \in 0 .. NLosses

(* The window makes the client once MQTT is enabled, and connects.         *)
Idle == <<"idle", "stop">>
Init ==
  /\ enabled = TRUE /\ manual = FALSE /\ connected = FALSE
  /\ timer = NULL /\ runner = [t \in Timers |-> "unborn"]
  /\ mail = <<>>
  /\ window = <<"connect", "stop">> /\ looper = "idle"
  /\ loop = FALSE /\ sock = "none"
  /\ failed = FALSE /\ cut = FALSE /\ crashed = FALSE
  /\ clicks = NClicks /\ losses = NLosses

-----------------------------------------------------------------------------
(* The timer, which both threads delete.                                   *)

DeletesTimer ==
  /\ runner' = IF timer = NULL THEN runner ELSE [runner EXCEPT ![timer] = "deleted"]
  /\ crashed' = (timer # NULL /\ runner[timer] = "deleted")

(* The pointer is cleared; a deleted runner may then be made again.        *)
ClearsPointer ==
  /\ timer' = NULL
  /\ runner' = IF timer # NULL /\ runner[timer] = "deleted"
               THEN [runner EXCEPT ![timer] = "unborn"] ELSE runner

RunnerFires ==
  \E t \in Timers :
    /\ ~crashed /\ runner[t] = "armed"
    /\ runner' = [runner EXCEPT ![t] = "fired"]
    /\ mail' = Append(mail, "timer")
    /\ UNCHANGED <<flags, timer, window, looper, library, history, crashed, clicks, losses>>

-----------------------------------------------------------------------------
(* The window's thread.                                                    *)

Calls(what) ==
  /\ ~crashed /\ window = Idle /\ clicks > 0
  /\ clicks' = clicks - 1
  /\ window' = <<what, "stop">>
  /\ UNCHANGED <<connected, timing, mail, looper, library, history, crashed, losses>>

(* From the settings, from a profile or from the button in the top bar.    *)
Connect == Calls("connect") /\ enabled' = TRUE /\ manual' = FALSE

(* The settings disable it at any time, the button only what is connected. *)
Disconnect ==
  /\ Calls("disconnect")
  /\ manual' = TRUE
  /\ \/ enabled' = FALSE
     \/ connected /\ enabled /\ UNCHANGED enabled

(* A profile that disables it does not disconnect it.                      *)
ImportDisabled ==
  /\ ~crashed /\ window = Idle /\ clicks > 0
  /\ clicks' = clicks - 1
  /\ enabled' = FALSE
  /\ UNCHANGED <<manual, connected, timing, mail, window, looper, library, history, crashed,
                 losses>>

(* _StopReconnectTimer: the pointer is cleared after the deletion.         *)
StopTimer ==
  /\ ~crashed /\ window # Idle /\ window[2] = "stop"
  /\ DeletesTimer
  /\ window' = <<window[1], "null">>
  /\ UNCHANGED <<flags, timer, mail, looper, library, history, clicks, losses>>
ClearTimer ==
  /\ ~crashed /\ window[2] = "null"
  /\ ClearsPointer
  /\ window' = <<window[1], "post">>
  /\ UNCHANGED <<flags, mail, looper, library, history, crashed, clicks, losses>>
Posts ==
  /\ ~crashed /\ window[2] = "post"
  /\ mail' = Append(mail, window[1])
  /\ window' = Idle
  /\ UNCHANGED <<flags, timing, looper, library, history, crashed, clicks, losses>>

-----------------------------------------------------------------------------
(* The looper's thread.                                                    *)

Takes(what) ==
  /\ ~crashed /\ looper = "idle" /\ mail # <<>> /\ Head(mail) = what
  /\ UNCHANGED <<enabled, manual, timer, window, clicks, losses>>

(* mosquitto_disconnect reports what it closes, if it can still be told.   *)
Closing ==
  CASE sock = "up" -> {<<"ended">>}
    [] sock = "open" -> {<<>>, <<"ended">>}
    [] sock = "none" -> {<<>>}

(* The same, with the thread stopped and the connection forgotten.         *)
DoDisconnectStop ==
  /\ mail' = Tail(mail)
  /\ loop' = FALSE
  /\ connected' = FALSE
  /\ UNCHANGED <<sock, history>>

DoDisconnect ==
  /\ \E report \in Closing :
       /\ mail' = Tail(mail) \o report
       /\ cut' = (cut /\ report = <<>>)
  /\ loop' = FALSE /\ sock' = "none"
  /\ connected' = FALSE
  /\ UNCHANGED failed

(* What a connection is opened on: nothing, after a disconnect, or whatever*)
(* there is.                                                               *)
Clears ==
  IF connected
  THEN \E report \in Closing : mail' = Tail(mail) \o report /\ cut' = (cut /\ report = <<>>)
  ELSE mail' = Tail(mail) /\ cut' = (cut \/ sock = "up")
\* As if it ran already.
StartsLoopNot == UNCHANGED loop
StartsLoop == loop' = TRUE

DoConnect ==
  /\ Clears
  /\ connected' = FALSE
  /\ \/ sock' = "open" /\ StartsLoop /\ failed' = FALSE
     \/ /\ sock' = "none"
        /\ loop' = (loop /\ ~connected)
        /\ failed' = ~loop'

Ignores == mail' = Tail(mail) /\ UNCHANGED <<connected, library, history>>

TakesConnect ==
  /\ Takes("connect")
  /\ IF enabled THEN DoConnect ELSE Ignores
  /\ UNCHANGED <<runner, looper, crashed>>

TakesDisconnect ==
  /\ Takes("disconnect")
  /\ DoDisconnect
  /\ UNCHANGED <<runner, looper, crashed>>

(* Without a look at the flag.                                             *)
ReconnectsAnyway == ~connected /\ enabled
Reconnects == ~connected /\ enabled /\ ~manual

TakesTimer ==
  /\ Takes("timer")
  /\ IF Reconnects THEN DoConnect ELSE Ignores
  /\ UNCHANGED <<runner, looper, crashed>>

(* A loss or a refusal sets the timer, unless the user disconnected.       *)
NotesState(state) == connected' = (state = "up")
ConnStateChanged ==
  \E state \in States :
    /\ Takes(state)
    /\ mail' = Tail(mail)
    /\ NotesState(state)
    /\ IF state \in {"lost", "refused"} /\ ~manual /\ enabled
       THEN DeletesTimer /\ looper' = "null"
       ELSE UNCHANGED <<runner, looper, crashed>>
    /\ UNCHANGED <<library, history>>

ForgetsTimer ==
  /\ ~crashed /\ looper = "null"
  /\ looper' = "arm"
  /\ ClearsPointer
  /\ UNCHANGED <<flags, mail, window, library, history, crashed, clicks, losses>>
ArmTimer ==
  /\ ~crashed /\ looper = "arm"
  /\ looper' = "idle"
  /\ \E t \in Timers :
       /\ runner[t] = "unborn" /\ \A u \in Timers : u < t => runner[u] # "unborn"
       /\ timer' = t
       /\ runner' = [runner EXCEPT ![t] = "armed"]
  /\ UNCHANGED <<flags, mail, window, library, history, crashed, clicks, losses>>

-----------------------------------------------------------------------------
(* The library's thread.                                                   *)

Reports(states) ==
  /\ ~crashed /\ loop
  /\ mail' = mail \o states
  /\ UNCHANGED <<flags, timing, window, looper, loop, failed, crashed, clicks>>

Retries ==
  /\ Reports(<<>>)
  /\ sock = "none" /\ sock' = "open"
  /\ UNCHANGED <<cut, losses>>
Accepted ==
  /\ Reports(<<"up">>)
  /\ sock = "open" /\ sock' = "up"
  /\ cut' = FALSE
  /\ UNCHANGED losses
Refused ==
  /\ Reports(<<"refused", "lost">>)
  /\ sock = "open" /\ sock' = "none"
  /\ cut' = FALSE
  /\ losses > 0 /\ losses' = losses - 1
Lost ==
  /\ Reports(<<"lost">>)
  /\ sock # "none" /\ sock' = "none"
  /\ cut' = FALSE
  /\ losses > 0 /\ losses' = losses - 1

-----------------------------------------------------------------------------
Window == Connect \/ Disconnect \/ ImportDisabled
Finishes == StopTimer \/ ClearTimer \/ Posts
Looper == TakesConnect \/ TakesDisconnect \/ TakesTimer \/ ConnStateChanged \/ ForgetsTimer \/ ArmTimer
Library == Retries \/ Accepted

Next == Window \/ Finishes \/ RunnerFires \/ Looper \/ Library \/ Refused \/ Lost

Spec == Init /\ [][Next]_vars

(* Threads run on; a broker that is there accepts.                         *)
FairSpec == Spec /\ WF_vars(Finishes) /\ WF_vars(Looper) /\ WF_vars(Library)

-----------------------------------------------------------------------------
(* Properties.                                                             *)

Quiet == mail = <<>> /\ window = Idle /\ looper = "idle" /\ ~crashed

(* A manual disconnect lasts: once it is handled, nothing connects, neither*)
(* a timer set while it was asked for nor the library's own retries.       *)
StaysOff == Quiet /\ manual => ~loop /\ sock = "none"

(* Once every report is handled, the client knows whether it is connected, *)
(* unless it opened a connection on one it had not heard of yet.           *)
Agrees == Quiet /\ ~cut => (connected <=> sock = "up")

(* Reports of the network thread and orders of the window, handled in the  *)
(* order they came, leave the client as it was last told to be.            *)
Settles == StaysOff /\ Agrees

(* A connection that is wanted is made, and made again after each loss,    *)
(* unless the first attempt failed at once: nothing then tries again.      *)
Wanted == enabled /\ ~manual /\ ~failed /\ ~crashed
ComesBack == Wanted ~> (connected \/ ~Wanted)
=============================================================================
