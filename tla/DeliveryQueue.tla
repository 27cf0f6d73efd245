---------------------------- MODULE DeliveryQueue ----------------------------
(***************************************************************************)
(* Delivery of direct messages: DeliveryManager together with the parts of *)
(* MainWindow that feed it.  Both are handlers of ONE looper thread and    *)
(* talk by posting messages to themselves, so a decision taken in one      *)
(* handler is carried out in another, after everything already queued.     *)
(* The serial reader, the user and the BMessageRunner timer run beside the *)
(* looper and only append to its queue.                                    *)
(*                                                                         *)
(* A message is a number given in the order the user sends: AddItem only   *)
(* appends to fPendingMessages and nothing reorders it, so the list is the *)
(* set of its numbers in increasing order, and "from the end" is "from the *)
(* largest number".                                                        *)
(*                                                                         *)
(* The radio is external.  It answers the SEND_TXT frames in the order it  *)
(* gets them, with RSP_SENT and an ack code of its own for each, or with   *)
(* RSP_ERR; for an accepted frame it may later push SEND_CONFIRMED once.   *)
(***************************************************************************)
EXTENDS Integers, Sequences, FiniteSets

CONSTANTS
  NMsgs,        \* bound: how many messages the user sends
  CliMsgs,      \* those sent by _SendCliCommand, the others by _SendTextMessage
  MaxPending,   \* kMaxSimultaneousPending
  MaxAttempts,  \* kMaxRetryAttempts
  MaxQueue,     \* bound: threads add to the looper's queue while it is shorter
  Hazards       \* what may happen: "disconnect", "resync", "write_error", "other_request"

ASSUME NMsgsAssumption == NMsgs \in Nat \ {0}
ASSUME CliAssumption == CliMsgs \subseteq 1 .. NMsgs
(* SendDM writes no attempt byte above 3: four attempts are told apart.    *)
ASSUME LimitsAssumption == MaxPending \in Nat \ {0} /\ MaxAttempts \in 1 .. 4
ASSUME MaxQueueAssumption == MaxQueue \in Nat \ {0}
ASSUME HazardsAssumption ==
  Hazards \subseteq {"disconnect", "resync", "write_error", "other_request"}

Msgs == 1 .. NMsgs
None == 0

(* One SEND_TXT frame on the wire: which message, and the attempt byte.    *)
(* The ack code of the radio identifies it.  NoAck is expectedAck = 0, or  *)
(* any code that no frame of ours has.                                     *)
Frames == Msgs \X (0 .. MaxAttempts - 1)
NoAck == <<None, 0>>

Places == {"new", "typed", "sending", "posted", "pending", "gone", "refused"}
Statuses == {"pending", "retrying", "confirmed", "failed"}

(* What waits in the looper's queue: user and posted messages carry a      *)
(* message number, frames and ack notices carry a frame.                   *)
MsgEvents == {"send", "enqueue"}
AckEvents == {"frame_sent", "rsp_sent", "frame_confirmed", "confirmed"}
BareEvents == {"check", "drain", "stop", "disconnected", "contacts_start", "contacts_end"}
Event(w, f) == [what |-> w, frame |-> f]
Events == [what : MsgEvents \cup AckEvents \cup BareEvents, frame : Frames \cup {NoAck}]

VARIABLES
  looper,   \* the looper's message queue, oldest first
  busy,     \* the handler being run when it takes several steps: [op, at, sent]
  place,    \* where each message is; "pending" means in fPendingMessages
  entry,    \* the PendingMessage record of each message
  timer,    \* fDeliveryCheckTimer # NULL
  status,   \* last status posted with MSG_DELIVERY_UPDATE_STATUS, "pending" before
  link,     \* fSerialHandler->IsConnected()
  listed,   \* the contact is in fContactManager->Contacts()
  radio,    \* SEND_TXT frames the radio has not answered, oldest first
  air,      \* frames the radio accepted and has not confirmed
  tries     \* history: SEND_TXT frames written for each message

queueVars == <<place, entry, status>>
linkVars == <<link, listed>>
radioVars == <<radio, air, tries>>
vars == <<looper, busy, timer, queueVars, linkVars, radioVars>>

pending == {m \in Msgs : place[m] = "pending"}
Entries == [attempt : 0 .. MaxAttempts, gotSent : BOOLEAN,
            ack : Frames \cup {NoAck}, grace : BOOLEAN]
NewEntry == [attempt |-> 0, gotSent |-> FALSE, ack |-> NoAck, grace |-> FALSE]
Scan(op, m, sent) == [op |-> op, at |-> m, sent |-> sent]
Idle == Scan("idle", None, FALSE)

First(m, S) == m \in S /\ \A n \in S : m <= n
Last(m, S) == m \in S /\ \A n \in S : n <= m

TypeOK ==
  /\ looper \in Seq(Events)
  /\ busy \in [op : {"idle", "send", "check", "drain"}, at : 0 .. NMsgs + 1, sent : BOOLEAN]
  /\ place \in [Msgs -> Places]
  /\ entry \in [Msgs -> Entries]
  /\ timer \in BOOLEAN
  /\ status \in [Msgs -> Statuses]
  /\ link \in BOOLEAN
  /\ listed \in BOOLEAN
  /\ radio \in Seq(Frames)
  /\ air \subseteq Frames
  /\ tries \in [Msgs -> 0 .. MaxAttempts]

(* The program after its first contact sync: connected, contacts listed.   *)
Init ==
  /\ looper = <<>>
  /\ busy = Idle
  /\ place = [m \in Msgs |-> "new"]
  /\ entry = [m \in Msgs |-> NewEntry]
  /\ timer = FALSE
  /\ status = [m \in Msgs |-> "pending"]
  /\ link = TRUE
  /\ listed = TRUE
  /\ radio = <<>>
  /\ air = {}
  /\ tries = [m \in Msgs |-> 0]

-----------------------------------------------------------------------------
(* The looper takes the next message only when the last handler is done.   *)

Takes(what) ==
  /\ busy = Idle
  /\ looper # <<>>
  /\ Head(looper).what = what

Room == Len(looper) < MaxQueue  \* for the other threads, never for the looper itself
Done == looper' = Tail(looper)
Posts(e) == looper' = Append(Tail(looper), e)
Receives(e) == looper' = Append(looper, e)

(* SendDM: the frame with this attempt byte reaches the radio.  When the   *)
(* port is closed, or write() fails, nothing is sent.                      *)
Transmits(m, wireAttempt) ==
  /\ link
  /\ radio' = Append(radio, <<m, wireAttempt>>)
  /\ tries' = [tries EXCEPT ![m] = @ + 1]

NotTransmitted ==
  /\ link => "write_error" \in Hazards
  /\ UNCHANGED <<radio, tries>>

-----------------------------------------------------------------------------
(* MainWindow: sending.                                                    *)

Typed == Head(looper).frame[1]
HasRoom == Cardinality(pending) < MaxPending

(* _SendTextMessage and _SendCliCommand up to the post of ENQUEUE.  The    *)
(* limit is read from the list as it is now.  A text is queued unsent when *)
(* the port is closed or the write fails, a command is refused.            *)
SendRefused ==
  /\ Takes("send")
  /\ \/ ~listed
     \/ ~HasRoom
     \/ Typed \in CliMsgs /\ NotTransmitted
  /\ place' = [place EXCEPT ![Typed] = "refused"]
  /\ Done
  /\ UNCHANGED <<busy, timer, entry, status, linkVars, radioVars>>

SendAccepted ==
  /\ Takes("send")
  /\ listed
  /\ HasRoom
  /\ \/ /\ Transmits(Typed, 0)
        /\ entry' = [entry EXCEPT ![Typed].attempt = 1]
     \/ /\ Typed \notin CliMsgs
        /\ NotTransmitted
        /\ UNCHANGED entry
  /\ place' = [place EXCEPT ![Typed] = "sending"]
  /\ busy' = Scan("send", Typed, FALSE)
  /\ Done
  /\ UNCHANGED <<timer, status, linkVars, air>>

(* The end of both: the record goes to DeliveryManager by message.         *)
PostEnqueue ==
  /\ busy.op = "send"
  /\ place' = [place EXCEPT ![busy.at] = "posted"]
  /\ Receives(Event("enqueue", <<busy.at, 0>>))
  /\ busy' = Idle
  /\ UNCHANGED <<timer, entry, status, linkVars, radioVars>>

-----------------------------------------------------------------------------
(* MainWindow: frames and connection notices.                              *)

Hands(from, to) ==
  /\ Takes(from)
  /\ Posts(Event(to, Head(looper).frame))
  /\ UNCHANGED <<busy, timer, queueVars, linkVars, radioVars>>

(* _HandleMsgSent: the code is handed on, whatever was asked for.          *)
HandleFrameSentAtOnce ==
  /\ Takes("frame_sent")
  /\ looper' = <<Event("rsp_sent", Head(looper).frame)>> \o Tail(looper)
  /\ UNCHANGED <<busy, timer, queueVars, linkVars, radioVars>>
HandleFrameSent == Hands("frame_sent", "rsp_sent")

(* PUSH_SEND_CONFIRMED: the same.                                          *)
HandleFrameConfirmed == Hands("frame_confirmed", "confirmed")

(* _OnDisconnected: its loop runs over MainWindow's own fPendingMessages,  *)
(* to which nothing is ever added; what remains is the STOP and the        *)
(* emptied contact list.                                                   *)
HandleDisconnected ==
  /\ Takes("disconnected")
  /\ listed' = FALSE
  /\ Posts(Event("stop", NoAck))
  /\ UNCHANGED <<busy, timer, queueVars, link, radioVars>>

(* _HandleContactsStart: the contacts move aside until they are received.  *)
HandleContactsStart ==
  /\ Takes("contacts_start")
  /\ listed' = FALSE
  /\ Done
  /\ UNCHANGED <<busy, timer, queueVars, link, radioVars>>

(* _HandleContactsEnd: contacts back in place, then the outbox is drained. *)
HandleContactsEnd ==
  /\ Takes("contacts_end")
  /\ listed' = TRUE
  /\ Posts(Event("drain", NoAck))
  /\ UNCHANGED <<busy, timer, queueVars, link, radioVars>>

-----------------------------------------------------------------------------
(* DeliveryManager: one-step handlers.                                     *)

HandleEnqueue ==
  /\ Takes("enqueue")
  /\ place' = [place EXCEPT ![Head(looper).frame[1]] = "pending"]
  /\ timer' = TRUE
  /\ Done
  /\ UNCHANGED <<busy, entry, status, linkVars, radioVars>>

Unanswered == {m \in pending : ~entry[m].gotSent}

(* The most recent entry without an answer takes the ack code.             *)
HandleRspSentEvery ==
  /\ Takes("rsp_sent")
  /\ entry' = [m \in Msgs |-> IF m \in Unanswered
                              THEN [entry[m] EXCEPT !.gotSent = TRUE, !.ack = Head(looper).frame]
                              ELSE entry[m]]
  /\ Done
  /\ UNCHANGED <<busy, timer, place, status, linkVars, radioVars>>
HandleRspSent ==
  /\ Takes("rsp_sent")
  /\ \/ Unanswered = {} /\ UNCHANGED entry
     \/ \E m \in Msgs :
          /\ Last(m, Unanswered)
          /\ entry' = [entry EXCEPT ![m].gotSent = TRUE, ![m].ack = Head(looper).frame]
  /\ Done
  /\ UNCHANGED <<busy, timer, place, status, linkVars, radioVars>>

Awaiting(f) == {m \in pending : entry[m].gotSent /\ entry[m].ack = f}

(* The entry is deleted from the list.                                     *)
Leaves(m) ==
  /\ place' = [place EXCEPT ![m] = "gone"]
  /\ entry' = [entry EXCEPT ![m] = NewEntry]

(* An empty list stops the timer.                                          *)
StopAlways == timer' = FALSE
StopIfEmpty == timer' = (timer /\ pending' # {})

(* The confirmed entry is reported and removed.                            *)
HandleConfirmed ==
  LET A == Awaiting(Head(looper).frame) IN
  /\ Takes("confirmed")
  /\ \/ A = {} /\ UNCHANGED queueVars
     \/ \E m \in Msgs :
          /\ Last(m, A)
          /\ Leaves(m)
          /\ status' = [status EXCEPT ![m] = "confirmed"]
  /\ StopIfEmpty
  /\ Done
  /\ UNCHANGED <<busy, linkVars, radioVars>>

HandleStop ==
  /\ Takes("stop")
  /\ timer' = FALSE
  /\ Done
  /\ UNCHANGED <<busy, queueVars, linkVars, radioVars>>

-----------------------------------------------------------------------------
(* DeliveryManager: _CheckTimeouts, from the last entry to the first.      *)
(* Which deadlines have passed is left open: the timeout is 15, 30, 60     *)
(* seconds or whatever the predictor was last trained to.                  *)

CheckGoesTo(S) ==
  \E n \in 0 .. NMsgs : Last(n, S \cup {None}) /\ busy' = Scan("check", n, FALSE)

HandleCheck ==
  /\ Takes("check")
  /\ CheckGoesTo(pending)
  /\ Done
  /\ UNCHANGED <<timer, queueVars, linkVars, radioVars>>

Checks(m) ==
  /\ busy.op = "check"
  /\ busy.at = m
  /\ CheckGoesTo({n \in pending : n < m})
  /\ UNCHANGED <<looper, linkVars, air>>

CheckNotDue(m) ==
  /\ Checks(m)
  /\ UNCHANGED <<timer, queueVars, radio, tries>>

(* _FailMessage (the database row fails with it), and the entry leaves.    *)
FailsKept(m) ==
  /\ UNCHANGED <<place, entry>>
  /\ status' = [status EXCEPT ![m] = "failed"]
Fails(m) ==
  /\ Leaves(m)
  /\ status' = [status EXCEPT ![m] = "failed"]

CheckGraceOver(m) ==
  /\ Checks(m)
  /\ entry[m].attempt > 0
  /\ entry[m].grace
  /\ Fails(m)
  /\ UNCHANGED <<timer, radio, tries>>

(* The attempts are counted from one.                                      *)
AttemptsLeftOneMore(m) == entry[m].attempt <= MaxAttempts
AttemptsLeft(m) == entry[m].attempt < MaxAttempts

Overdue(m) ==
  /\ entry[m].attempt > 0
  /\ ~entry[m].grace
  /\ ~entry[m].gotSent

CheckEntersGrace(m) ==
  /\ Checks(m)
  /\ Overdue(m)
  /\ ~AttemptsLeft(m)
  /\ entry' = [entry EXCEPT ![m].grace = TRUE]
  /\ UNCHANGED <<place, timer, status, radio, tries>>

WireAttemptStale(m) == entry[m].attempt - 1
WireAttempt(m) == entry[m].attempt

(* _RetryMessage: the attempt byte is one less than the new attemptCount;  *)
(* expectedAck keeps its value.  The reset-path frame sent before it is    *)
(* answered by RSP_OK, which no handler here reads.                        *)
CheckRetries(m) ==
  /\ Checks(m)
  /\ Overdue(m)
  /\ AttemptsLeft(m)
  /\ \/ /\ Transmits(m, WireAttempt(m))
        /\ entry' = [entry EXCEPT ![m].attempt = @ + 1, ![m].gotSent = FALSE]
        /\ status' = [status EXCEPT ![m] = "retrying"]
        /\ UNCHANGED <<place, timer>>
     \/ /\ NotTransmitted
        /\ Fails(m)
        /\ StopIfEmpty

(* Answered but not confirmed for two minutes: dropped without a word.     *)
CheckForgets(m) ==
  /\ Checks(m)
  /\ entry[m].attempt > 0
  /\ ~entry[m].grace
  /\ entry[m].gotSent
  /\ Leaves(m)
  /\ UNCHANGED <<timer, status, radio, tries>>

CheckDue(m) ==
  \/ CheckGraceOver(m)
  \/ CheckEntersGrace(m)
  \/ CheckRetries(m)
  \/ CheckForgets(m)

EndCheck ==
  /\ busy.op = "check"
  /\ busy.at = None
  /\ busy' = Idle
  /\ UNCHANGED <<looper, queueVars, linkVars, radioVars>>
  /\ StopIfEmpty

-----------------------------------------------------------------------------
(* DeliveryManager: _DrainOutbox, from the first entry to the last.        *)

End == NMsgs + 1

DrainGoesTo(S, sent) ==
  \E n \in 1 .. End : First(n, S \cup {End}) /\ busy' = Scan("drain", n, sent)

HandleDrain ==
  /\ Takes("drain")
  /\ DrainGoesTo(pending, FALSE)
  /\ Done
  /\ UNCHANGED <<timer, queueVars, linkVars, radioVars>>

Drains(m, sent) ==
  /\ busy.op = "drain"
  /\ busy.at = m
  /\ DrainGoesTo({n \in pending : n > m}, busy.sent \/ sent)
  /\ UNCHANGED <<looper, place, timer, status, linkVars, air>>

UnsentOrNot(m) == entry[m].attempt \in 0 .. MaxAttempts
Unsent(m) == entry[m].attempt = 0

(* Entries sent before are skipped; so is one whose write fails.           *)
DrainSkips(m) ==
  /\ Drains(m, FALSE)
  /\ Unsent(m) => NotTransmitted
  /\ UNCHANGED <<entry, radio, tries>>

DrainSends(m) ==
  /\ Drains(m, TRUE)
  /\ Unsent(m)
  /\ Transmits(m, 0)
  /\ entry' = [entry EXCEPT ![m].attempt = 1, ![m].gotSent = FALSE]

EndDrain ==
  /\ busy.op = "drain"
  /\ busy.at = End
  /\ busy' = Idle
  /\ timer' = (timer \/ busy.sent)
  /\ UNCHANGED <<looper, queueVars, linkVars, radioVars>>

-----------------------------------------------------------------------------
(* The threads and devices around the looper.                              *)

(* The user presses Enter: the message waits in the looper's queue.        *)
UserSend(m) ==
  /\ Room
  /\ place[m] = "new"
  /\ \A n \in Msgs : n < m => place[n] # "new"
  /\ place' = [place EXCEPT ![m] = "typed"]
  /\ Receives(Event("send", <<m, 0>>))
  /\ UNCHANGED <<busy, timer, entry, status, linkVars, radioVars>>

InLooper(kinds) == \E i \in DOMAIN looper : looper[i].what \in kinds

(* The BMessageRunner ticks.  Bound: no tick while one is still waiting.   *)
TimerTick ==
  /\ Room
  /\ timer
  /\ ~InLooper({"check"})
  /\ Receives(Event("check", NoAck))
  /\ UNCHANGED <<busy, timer, queueVars, linkVars, radioVars>>

(* The radio accepts the oldest frame: the reader thread posts RSP_SENT.   *)
RadioAccepts ==
  /\ Room
  /\ link
  /\ radio # <<>>
  /\ radio' = Tail(radio)
  /\ air' = air \cup {Head(radio)}
  /\ Receives(Event("frame_sent", Head(radio)))
  /\ UNCHANGED <<busy, timer, queueVars, linkVars, tries>>

(* The radio accepts a login, a telemetry request or a trace: an RSP_SENT  *)
(* too, with a tag that is no message's.  Bound: one of them at a time.    *)
OtherAnswer ==
  /\ Room
  /\ "other_request" \in Hazards
  /\ link
  /\ \A i \in DOMAIN looper :
       looper[i].what \in {"frame_sent", "rsp_sent"} => looper[i].frame # NoAck
  /\ Receives(Event("frame_sent", NoAck))
  /\ UNCHANGED <<busy, timer, queueVars, linkVars, radioVars>>

(* The radio answers RSP_ERR, or its answer is lost.  _HandleCmdErr looks  *)
(* for the message in the list nothing is added to: no effect here.        *)
RadioRejects ==
  /\ link
  /\ radio # <<>>
  /\ radio' = Tail(radio)
  /\ UNCHANGED <<looper, busy, timer, queueVars, linkVars, air, tries>>

(* The recipient's acknowledgement comes back.                             *)
PeerAcks(f) ==
  /\ Room
  /\ link
  /\ f \in air
  /\ air' = air \ {f}
  /\ Receives(Event("frame_confirmed", f))
  /\ UNCHANGED <<busy, timer, queueVars, linkVars, radio, tries>>

(* The user closes the port: answers not yet read are lost.                *)
Disconnect ==
  /\ Room
  /\ "disconnect" \in Hazards
  /\ link
  /\ link' = FALSE
  /\ radio' = <<>>
  /\ Receives(Event("disconnected", NoAck))
  /\ UNCHANGED <<busy, timer, queueVars, listed, air, tries>>

Reconnect ==
  /\ ~link
  /\ link' = TRUE
  /\ UNCHANGED <<looper, busy, timer, queueVars, listed, radioVars>>

(* A contact sync: its first and its last frame.  Bound: no new sync while *)
(* one is on its way or has left its mark in the queue.                    *)
NoSyncUnderWay == ~InLooper({"contacts_start", "contacts_end", "drain"})

SyncStarts ==
  /\ Room
  /\ "resync" \in Hazards
  /\ link
  /\ listed
  /\ NoSyncUnderWay
  /\ Receives(Event("contacts_start", NoAck))
  /\ UNCHANGED <<busy, timer, queueVars, linkVars, radioVars>>

SyncEnds ==
  /\ Room
  /\ link
  /\ ~listed
  /\ NoSyncUnderWay
  /\ Receives(Event("contacts_end", NoAck))
  /\ UNCHANGED <<busy, timer, queueVars, linkVars, radioVars>>

-----------------------------------------------------------------------------
Looper ==
  \/ SendRefused
  \/ SendAccepted
  \/ PostEnqueue
  \/ HandleFrameSent
  \/ HandleFrameConfirmed
  \/ HandleDisconnected
  \/ HandleContactsStart
  \/ HandleContactsEnd
  \/ HandleEnqueue
  \/ HandleRspSent
  \/ HandleConfirmed
  \/ HandleStop
  \/ HandleCheck
  \/ \E m \in Msgs : CheckNotDue(m) \/ CheckDue(m)
  \/ EndCheck
  \/ HandleDrain
  \/ \E m \in Msgs : DrainSkips(m) \/ DrainSends(m)
  \/ EndDrain

Environment ==
  \/ \E m \in Msgs : UserSend(m)
  \/ TimerTick
  \/ RadioAccepts
  \/ OtherAnswer
  \/ RadioRejects
  \/ \E f \in Frames : PeerAcks(f)
  \/ Disconnect
  \/ Reconnect
  \/ SyncStarts
  \/ SyncEnds

Next == Looper \/ Environment

Spec == Init /\ [][Next]_vars

(* The looper thread runs, the timer ticks while it exists, and a deadline *)
(* that is looked at again and again has passed one time: deadlines are    *)
(* finite and nothing moves them but a retry.                              *)
Fairness ==
  /\ WF_vars(Looper)
  /\ WF_vars(TimerTick)
  /\ \A m \in Msgs : SF_vars(CheckDue(m))

FairSpec == Spec /\ Fairness

-----------------------------------------------------------------------------
(* Properties.                                                             *)

(* No two queued messages wait for the code of the same frame, so that a   *)
(* confirmation settles at most one of them (the break in the RSP_SENT     *)
(* loop).  Tags of other requests are never confirmed.                     *)
OneAckOneEntry ==
  \A m, n \in pending :
    /\ m # n
    /\ entry[m].gotSent
    /\ entry[n].gotSent
    /\ entry[m].ack # NoAck
    => entry[m].ack # entry[n].ack

(* An RSP_SENT is never handled before the ENQUEUE of its message, however *)
(* fast the radio answers: it takes one more hop through the looper.       *)
AnswerAfterEnqueue ==
  looper # <<>> /\ Head(looper).what = "rsp_sent" /\ Head(looper).frame # NoAck
    => place[Head(looper).frame[1]] \in {"pending", "gone"}

(* The attempt byte of a frame counts the frames of the same message sent  *)
(* before it, so the radio can tell a retry from a new message, and a      *)
(* message is never on the air more than MaxAttempts times.                *)
AttemptBytes ==
  [][\A m \in Msgs : tries'[m] # tries[m] =>
        /\ tries'[m] = tries[m] + 1
        /\ tries'[m] <= MaxAttempts
        /\ radio' = Append(radio, <<m, tries[m]>>)]_vars

(* A message is reported confirmed or failed once: no late answer, retry   *)
(* or drain changes the verdict or sends the message again.                *)
OneVerdict ==
  [][\A m \in Msgs :
        status[m] \in {"confirmed", "failed"} => status'[m] = status[m] /\ tries'[m] = tries[m]]_vars

(* While the port stays open, a message that went out leaves the queue: no *)
(* order of confirmations, failures and drains stops the timer too early.  *)
EventuallyLeaves ==
  \A m \in Msgs : (m \in pending /\ entry[m].attempt > 0) ~> (m \notin pending)

(* The queue keeps the promise of DeliveryPromise.                         *)
Fate(m) ==
  CASE place[m] \in {"new", "typed"} -> "new"
    [] place[m] = "refused" -> "refused"
    [] place[m] = "gone" ->
         IF status[m] \in {"confirmed", "failed"} THEN status[m] ELSE "forgotten"
    [] OTHER -> IF entry[m].attempt = 0 THEN "queued" ELSE "onair"

P == INSTANCE DeliveryPromise WITH
       Messages <- Msgs, fate <- [m \in Msgs |-> Fate(m)], sendings <- tries

KeepsPromise == P!Promise

-----------------------------------------------------------------------------
(* What the repository says and the code does not do.                      *)

(* "PUSH_SEND_CONFIRMED uses the ackCode to identify the pending message": *)
(* a message shown as confirmed was acknowledged by its recipient.         *)
ConfirmedWasReached ==
  [][\A m \in Msgs : status[m] # "confirmed" /\ status'[m] = "confirmed"
        => Head(looper).frame[1] = m]_vars
=============================================================================
