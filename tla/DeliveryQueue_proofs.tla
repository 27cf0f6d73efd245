------------------------ MODULE DeliveryQueue_proofs ------------------------
(***************************************************************************)
(* What holds of DeliveryQueue for every number of messages, every limit   *)
(* and every set of hazards.                                               *)
(***************************************************************************)
EXTENDS DeliveryQueue, TLAPS

-----------------------------------------------------------------------------
(* Sequences: taking the head and appending at the end.                    *)

LEMMA TailFacts ==
  ASSUME NEW S, NEW q \in Seq(S), q # <<>>
  PROVE  /\ Head(q) = q[1] /\ Head(q) \in S /\ 1 \in DOMAIN q
         /\ Tail(q) \in Seq(S)
         /\ DOMAIN Tail(q) = 1 .. Len(q) - 1
         /\ \A i \in DOMAIN Tail(q) : i + 1 \in DOMAIN q /\ Tail(q)[i] = q[i + 1]
  OBVIOUS

LEMMA AppendFacts ==
  ASSUME NEW S, NEW q \in Seq(S), NEW e \in S
  PROVE  /\ Append(q, e) \in Seq(S)
         /\ DOMAIN Append(q, e) = 1 .. Len(q) + 1
         /\ \A i \in DOMAIN q : i \in DOMAIN Append(q, e) /\ Append(q, e)[i] = q[i]
         /\ Append(q, e)[Len(q) + 1] = e
  OBVIOUS

-----------------------------------------------------------------------------
(* The inductive invariant.                                                *)

(* Where the looper stands agrees with where the messages are.             *)
BusyInv ==
  /\ busy.op = "send" => busy.at \in Msgs /\ place[busy.at] = "sending"
  /\ \A m \in Msgs : place[m] = "sending" => busy.op = "send" /\ busy.at = m
  /\ busy.op = "check" => busy.at \in pending \cup {None}
  /\ busy.op = "drain" => busy.at \in pending \cup {End}

(* A message waiting in the looper's queue waits there once.               *)
WaitsAt(e) == IF e.what = "send" THEN "typed" ELSE "posted"
QueueInv ==
  /\ \A i \in DOMAIN looper : looper[i].what \in MsgEvents
       => /\ looper[i].frame[1] \in Msgs
          /\ place[looper[i].frame[1]] = WaitsAt(looper[i])
  /\ \A i, j \in DOMAIN looper :
       /\ looper[i].what \in MsgEvents
       /\ looper[i].what = looper[j].what
       /\ looper[i].frame[1] = looper[j].frame[1]
       => i = j

(* The attempt count of a live entry is the number of frames written.      *)
CountInv ==
  /\ \A m \in Msgs : place[m] \in {"new", "typed", "refused"} => entry[m] = NewEntry /\ tries[m] = 0
  /\ \A m \in Msgs : place[m] \in {"sending", "posted", "pending"}
                     => entry[m].attempt = tries[m]

(* A verdict is given only to messages that have left the queue.           *)
StatusInv ==
  \A m \in Msgs : status[m] \in {"confirmed", "failed"} => place[m] = "gone"

(* An RSP_SENT with an ack code stands for one frame that was written, and *)
(* each frame is in one place: unanswered at the radio, answered in the    *)
(* looper's queue, or the ack code of one entry.  Of the tags of other     *)
(* requests (NoAck) nothing is said.                                       *)
Answers == {"frame_sent", "rsp_sent"}
Written(f) == f \in Frames /\ f[2] < tries[f[1]]
AtRadio(f) == \E i \in DOMAIN radio : radio[i] = f
InQueue(f) == \E i \in DOMAIN looper : looper[i].what \in Answers /\ looper[i].frame = f
RadioInv ==
  /\ \A i \in DOMAIN radio : Written(radio[i]) /\ ~InQueue(radio[i])
  /\ \A i, j \in DOMAIN radio : radio[i] = radio[j] => i = j
AnswerInv ==
  /\ \A i \in DOMAIN looper :
       looper[i].what \in Answers /\ looper[i].frame # NoAck => Written(looper[i].frame)
  /\ \A i, j \in DOMAIN looper :
       /\ looper[i].what \in Answers
       /\ looper[j].what \in Answers
       /\ looper[i].frame # NoAck
       /\ looper[i].frame = looper[j].frame
       => i = j
HeldInv ==
  \A m \in Msgs : entry[m].gotSent =>
    /\ m \in pending
    /\ entry[m].ack # NoAck =>
         Written(entry[m].ack) /\ ~AtRadio(entry[m].ack) /\ ~InQueue(entry[m].ack)

(* The ENQUEUE of a posted message is on its way, and before its RSP_SENT. *)
EnqueueOf(m, k) == looper[k].what = "enqueue" /\ looper[k].frame[1] = m
OrderInv ==
  /\ \A m \in Msgs : place[m] = "posted" => \E k \in DOMAIN looper : EnqueueOf(m, k)
  /\ \A j \in DOMAIN looper : looper[j].what = "rsp_sent" /\ looper[j].frame # NoAck =>
       /\ place[looper[j].frame[1]] # "sending"
       /\ place[looper[j].frame[1]] = "posted" =>
            \E k \in DOMAIN looper : k < j /\ EnqueueOf(looper[j].frame[1], k)

CoreInv == TypeOK /\ BusyInv /\ QueueInv /\ CountInv /\ StatusInv
FrameInv == RadioInv /\ AnswerInv /\ HeldInv /\ OneAckOneEntry
IInv == CoreInv /\ FrameInv /\ OrderInv

USE NMsgsAssumption, LimitsAssumption
USE DEF None, End

(* The codes of frames are of messages, and there is no message 0.         *)
LEMMA CodeFacts ==
  /\ \A f \in Frames : f # NoAck /\ f[1] \in Msgs
  /\ ~Written(NoAck)
  BY DEF Frames, NoAck, Msgs, Written

LEMMA InitIInv == Init => IInv
<1> SUFFICES ASSUME Init PROVE IInv
  OBVIOUS
<1> USE DEF Init, NewEntry, Idle, Scan
<1>1. TypeOK
  <2>1. entry \in [Msgs -> Entries]
    BY DEF Entries
  <2>2. looper \in Seq(Events) /\ radio \in Seq(Frames) /\ air \subseteq Frames
    OBVIOUS
  <2>3. busy \in [op : {"idle", "send", "check", "drain"}, at : 0 .. NMsgs + 1, sent : BOOLEAN]
    OBVIOUS
  <2>4. timer \in BOOLEAN /\ link \in BOOLEAN /\ listed \in BOOLEAN
    OBVIOUS
  <2>5. place \in [Msgs -> Places] /\ status \in [Msgs -> Statuses]
    BY DEF Places, Statuses
  <2>6. tries \in [Msgs -> 0 .. MaxAttempts]
    OBVIOUS
  <2> QED
    BY <2>1, <2>2, <2>3, <2>4, <2>5, <2>6 DEF TypeOK
<1>2. BusyInv
  BY DEF BusyInv
<1>3. QueueInv /\ AnswerInv /\ RadioInv
  BY DEF QueueInv, AnswerInv, RadioInv
<1>4. CountInv
  BY DEF CountInv
<1>5. StatusInv
  BY DEF StatusInv
<1>6. HeldInv /\ OneAckOneEntry
  BY DEF HeldInv, OneAckOneEntry, pending
<1>7. OrderInv
  BY DEF OrderInv
<1> QED
  BY <1>1, <1>2, <1>3, <1>4, <1>5, <1>6, <1>7 DEF IInv, CoreInv, FrameInv

LEMMA EventFacts ==
  ASSUME NEW w \in MsgEvents \cup AckEvents \cup BareEvents, NEW f \in Frames \cup {NoAck}
  PROVE  Event(w, f) \in Events
  BY DEF Event, Events

LEMMA NewEntryType == NewEntry \in Entries
  BY DEF NewEntry, Entries

LEMMA EntryTypes ==
  ASSUME NEW e \in Entries, NEW a \in 0 .. MaxAttempts, NEW f \in Frames \cup {NoAck}
  PROVE  /\ [e EXCEPT !.attempt = a] \in Entries
         /\ [e EXCEPT !.attempt = a, !.gotSent = FALSE] \in Entries
         /\ [e EXCEPT !.gotSent = TRUE, !.ack = f] \in Entries
         /\ [e EXCEPT !.grace = TRUE] \in Entries
  BY DEF Entries

(* The looper's queue keeps its type however a handler moves it.           *)
LEMMA LooperType ==
  ASSUME TypeOK
  PROVE  /\ looper # <<>> => Head(looper) \in Events /\ Tail(looper) \in Seq(Events)
         /\ \A e \in Events : Append(looper, e) \in Seq(Events)
         /\ looper # <<>> => \A e \in Events : Append(Tail(looper), e) \in Seq(Events)
  BY DEF TypeOK

(* The message a SEND event carries has not been touched yet.              *)
LEMMA TypedFacts ==
  ASSUME TypeOK, QueueInv, CountInv, Takes("send")
  PROVE  Typed \in Msgs /\ place[Typed] = "typed" /\ tries[Typed] = 0 /\ entry[Typed] = NewEntry
<1>1. 1 \in DOMAIN looper /\ Head(looper) = looper[1] /\ looper[1].what \in MsgEvents
  BY DEF TypeOK, Takes, MsgEvents
<1> QED
  BY <1>1 DEF QueueInv, CountInv, Takes, Typed, WaitsAt

LEMMA FrameFacts ==
  ASSUME NEW m \in Msgs, NEW a \in 0 .. MaxAttempts - 1
  PROVE  <<m, a>> \in Frames
  BY DEF Frames

LEMMA TypeStep == TypeOK /\ BusyInv /\ QueueInv /\ CountInv /\ [Next]_vars => TypeOK'
<1> SUFFICES ASSUME TypeOK, BusyInv, QueueInv, CountInv, [Next]_vars
             PROVE  TypeOK'
  OBVIOUS
<1> USE DEF TypeOK
<1>1. ASSUME SendRefused PROVE TypeOK'
  <2>1. looper' \in Seq(Events)
    BY <1>1, LooperType DEF SendRefused, Takes, Done
  <2>2. place' \in [Msgs -> Places]
    BY <1>1 DEF SendRefused, Places
  <2> QED
    BY <1>1, <2>1, <2>2 DEF SendRefused, queueVars, linkVars, radioVars
<1>2. ASSUME SendAccepted PROVE TypeOK'
  <2>1. looper' \in Seq(Events)
    BY <1>2, LooperType DEF SendAccepted, Takes, Done
  <2>2. Typed \in Msgs /\ tries[Typed] = 0 /\ entry[Typed] = NewEntry
    BY <1>2, TypedFacts DEF SendAccepted
  <2>3. place' \in [Msgs -> Places]
    BY <1>2 DEF SendAccepted, Places
  <2>4. entry' \in [Msgs -> Entries]
    <3>1. entry' = entry \/ entry' = [entry EXCEPT ![Typed] = [entry[Typed] EXCEPT !.attempt = 1]]
      BY <1>2 DEF SendAccepted
    <3>2. 1 \in 0 .. MaxAttempts
      OBVIOUS
    <3>3. [entry[Typed] EXCEPT !.attempt = 1] \in Entries
      BY <2>2, <3>2, EntryTypes
    <3> QED
      BY <2>2, <3>1, <3>3
  <2>5. radio' \in Seq(Frames) /\ tries' \in [Msgs -> 0 .. MaxAttempts]
    <3>1. CASE Transmits(Typed, 0)
      BY <2>2, <3>1, FrameFacts DEF Transmits
    <3>2. CASE UNCHANGED <<radio, tries>>
      BY <3>2
    <3> QED
      BY <1>2, <3>1, <3>2 DEF SendAccepted, NotTransmitted
  <2>6. busy' \in [op : {"idle", "send", "check", "drain"}, at : 0 .. NMsgs + 1, sent : BOOLEAN]
    BY <1>2, <2>2 DEF SendAccepted, Scan, Msgs
  <2> QED
    BY <1>2, <2>1, <2>3, <2>4, <2>5, <2>6 DEF SendAccepted, linkVars
<1>3. ASSUME PostEnqueue PROVE TypeOK'
  <2>1. <<busy.at, 0>> \in Frames
    BY <1>3, FrameFacts DEF PostEnqueue, BusyInv
  <2>2. looper' \in Seq(Events)
    BY <1>3, <2>1, LooperType, EventFacts DEF PostEnqueue, Receives, MsgEvents
  <2>3. place' \in [Msgs -> Places]
    BY <1>3 DEF PostEnqueue, Places
  <2> QED
    BY <1>3, <2>2, <2>3 DEF PostEnqueue, Idle, Scan, linkVars, radioVars
<1>4. ASSUME HandleFrameSent PROVE TypeOK'
  <2>1. looper' \in Seq(Events)
    BY <1>4, LooperType, EventFacts DEF HandleFrameSent, Hands, Takes, Posts, AckEvents, Events
  <2> QED
    BY <1>4, <2>1, NewEntryType DEF HandleFrameSent, Hands, Takes, Posts, queueVars, linkVars, radioVars
<1>5. ASSUME HandleFrameConfirmed PROVE TypeOK'
  <2>1. looper' \in Seq(Events)
    BY <1>5, LooperType, EventFacts DEF HandleFrameConfirmed, Hands, Takes, Posts, AckEvents, Events
  <2> QED
    BY <1>5, <2>1, NewEntryType DEF HandleFrameConfirmed, Hands, Takes, Posts, queueVars, linkVars, radioVars
<1>6. ASSUME HandleDisconnected PROVE TypeOK'
  <2>1. looper' \in Seq(Events)
    BY <1>6, LooperType, EventFacts DEF HandleDisconnected, Takes, Posts, BareEvents
  <2> QED
    BY <1>6, <2>1, NewEntryType DEF HandleDisconnected, Takes, Posts, queueVars, linkVars, radioVars
<1>7. ASSUME HandleContactsStart PROVE TypeOK'
  <2>1. looper' \in Seq(Events)
    BY <1>7, LooperType DEF HandleContactsStart, Takes, Done
  <2> QED
    BY <1>7, <2>1, NewEntryType DEF HandleContactsStart, Takes, Done, queueVars, linkVars, radioVars
<1>8. ASSUME HandleContactsEnd PROVE TypeOK'
  <2>1. looper' \in Seq(Events)
    BY <1>8, LooperType, EventFacts DEF HandleContactsEnd, Takes, Posts, BareEvents
  <2> QED
    BY <1>8, <2>1, NewEntryType DEF HandleContactsEnd, Takes, Posts, queueVars, linkVars, radioVars
<1>9. ASSUME HandleEnqueue PROVE TypeOK'
  <2>1. looper' \in Seq(Events)
    BY <1>9, LooperType DEF HandleEnqueue, Takes, Done
  <2> QED
    BY <1>9, <2>1, NewEntryType DEF HandleEnqueue, Takes, Done, Places, queueVars, linkVars, radioVars
<1>10. ASSUME HandleRspSent PROVE TypeOK'
  <2>1. looper' \in Seq(Events)
    BY <1>10, LooperType DEF HandleRspSent, Takes, Done
  <2>2. Head(looper).frame \in Frames \cup {NoAck}
    BY <1>10, LooperType DEF HandleRspSent, Takes, Events
  <2>3. entry' \in [Msgs -> Entries]
    <3>1. CASE UNCHANGED entry
      BY <3>1
    <3>2. ASSUME NEW m \in Msgs,
                 entry' = [entry EXCEPT ![m].gotSent = TRUE, ![m].ack = Head(looper).frame]
          PROVE  entry' \in [Msgs -> Entries]
      <4>1. entry' = [entry EXCEPT ![m] = [entry[m] EXCEPT !.gotSent = TRUE, !.ack = Head(looper).frame]]
        BY <3>2
      <4> QED
        BY <2>2, <4>1, EntryTypes
    <3> QED
      BY <1>10, <3>1, <3>2 DEF HandleRspSent
  <2> QED
    BY <1>10, <2>1, <2>3 DEF HandleRspSent, linkVars, radioVars
<1>11. ASSUME HandleConfirmed PROVE TypeOK'
  <2>1. looper' \in Seq(Events)
    BY <1>11, LooperType DEF HandleConfirmed, Takes, Done
  <2>2. place' \in [Msgs -> Places] /\ status' \in [Msgs -> Statuses]
    BY <1>11 DEF HandleConfirmed, Leaves, Places, Statuses, queueVars
  <2>3. entry' \in [Msgs -> Entries]
    BY <1>11, NewEntryType DEF HandleConfirmed, Leaves, queueVars
  <2> QED
    BY <1>11, <2>1, <2>2, <2>3 DEF HandleConfirmed, StopIfEmpty, linkVars, radioVars
<1>12. ASSUME HandleStop PROVE TypeOK'
  <2>1. looper' \in Seq(Events)
    BY <1>12, LooperType DEF HandleStop, Takes, Done
  <2> QED
    BY <1>12, <2>1, NewEntryType DEF HandleStop, Takes, Done, queueVars, linkVars, radioVars
<1>13. ASSUME HandleCheck PROVE TypeOK'
  <2>1. looper' \in Seq(Events)
    BY <1>13, LooperType DEF HandleCheck, Takes, Done
  <2> QED
    BY <1>13, <2>1, NewEntryType DEF HandleCheck, Takes, Done, CheckGoesTo, Scan, queueVars, linkVars, radioVars
<1>14. ASSUME NEW m \in Msgs, CheckNotDue(m) PROVE TypeOK'
  BY <1>14, AppendFacts, NewEntryType DEF CheckNotDue, Checks, CheckGoesTo, Scan, queueVars, linkVars, radioVars
<1>15. ASSUME NEW m \in Msgs, CheckGraceOver(m) PROVE TypeOK'
  BY <1>15, AppendFacts, NewEntryType DEF CheckGraceOver, Checks, CheckGoesTo, Scan, Fails, Leaves, Places, Statuses, queueVars, linkVars, radioVars
<1>16. ASSUME NEW m \in Msgs, CheckEntersGrace(m) PROVE TypeOK'
  <2>1. entry' \in [Msgs -> Entries]
    BY <1>16 DEF CheckEntersGrace, Entries
  <2> QED
    BY <1>16, <2>1 DEF CheckEntersGrace, Checks, CheckGoesTo, Scan, linkVars
<1>17. ASSUME NEW m \in Msgs, CheckRetries(m) PROVE TypeOK'
  <2>1. busy' \in [op : {"idle", "send", "check", "drain"}, at : 0 .. NMsgs + 1, sent : BOOLEAN]
    BY <1>17 DEF CheckRetries, Checks, CheckGoesTo, Scan
  <2>2. place[m] = "pending" /\ tries[m] = entry[m].attempt /\ entry[m].attempt \in 0 .. MaxAttempts - 1
    BY <1>17 DEF CheckRetries, Checks, AttemptsLeft, BusyInv, CountInv, pending, Msgs, Entries
  <2>3. CASE Transmits(m, WireAttempt(m)) /\ UNCHANGED <<place, timer>>
             /\ entry' = [entry EXCEPT ![m].attempt = @ + 1, ![m].gotSent = FALSE]
             /\ status' = [status EXCEPT ![m] = "retrying"]
    <3>1. entry' \in [Msgs -> Entries]
      <4>1. entry' = [entry EXCEPT ![m] = [entry[m] EXCEPT !.attempt = entry[m].attempt + 1, !.gotSent = FALSE]]
        BY <2>3
      <4>2. entry[m].attempt + 1 \in 0 .. MaxAttempts
        BY <2>2
      <4>3. [entry[m] EXCEPT !.attempt = entry[m].attempt + 1, !.gotSent = FALSE] \in Entries
        BY <4>2, EntryTypes
      <4> QED
        BY <4>1, <4>3
    <3>2. radio' \in Seq(Frames) /\ tries' \in [Msgs -> 0 .. MaxAttempts]
      BY <2>2, <2>3, FrameFacts DEF Transmits, WireAttempt
    <3>3. status' \in [Msgs -> Statuses]
      BY <2>3 DEF Statuses
    <3> QED
      BY <1>17, <2>1, <2>3, <3>1, <3>2, <3>3 DEF CheckRetries, Checks, linkVars
  <2>4. CASE NotTransmitted /\ Fails(m) /\ StopIfEmpty
    <3>1. place' \in [Msgs -> Places] /\ status' \in [Msgs -> Statuses] /\ entry' \in [Msgs -> Entries]
      BY <2>4, NewEntryType DEF Fails, Leaves, Places, Statuses
    <3> QED
      BY <1>17, <2>1, <2>4, <3>1 DEF CheckRetries, Checks, NotTransmitted, StopIfEmpty, linkVars
  <2> QED
    BY <1>17, <2>3, <2>4 DEF CheckRetries
<1>18. ASSUME NEW m \in Msgs, CheckForgets(m) PROVE TypeOK'
  BY <1>18, AppendFacts, NewEntryType DEF CheckForgets, Checks, CheckGoesTo, Scan, Leaves, Places, queueVars, linkVars, radioVars
<1>19. ASSUME EndCheck PROVE TypeOK'
  BY <1>19, AppendFacts, NewEntryType DEF EndCheck, Idle, Scan, StopIfEmpty, queueVars, linkVars, radioVars
<1>20. ASSUME HandleDrain PROVE TypeOK'
  <2>1. looper' \in Seq(Events)
    BY <1>20, LooperType DEF HandleDrain, Takes, Done
  <2> QED
    BY <1>20, <2>1, NewEntryType DEF HandleDrain, Takes, Done, DrainGoesTo, Scan, queueVars, linkVars, radioVars
<1>21. ASSUME NEW m \in Msgs, DrainSkips(m) PROVE TypeOK'
  BY <1>21, AppendFacts, NewEntryType DEF DrainSkips, Drains, DrainGoesTo, Scan, queueVars, linkVars, radioVars
<1>22. ASSUME NEW m \in Msgs, DrainSends(m) PROVE TypeOK'
  <2>1. busy' \in [op : {"idle", "send", "check", "drain"}, at : 0 .. NMsgs + 1, sent : BOOLEAN]
    BY <1>22 DEF DrainSends, Drains, DrainGoesTo, Scan
  <2>2. tries[m] = 0
    BY <1>22 DEF DrainSends, Drains, Unsent, BusyInv, CountInv, pending, Msgs
  <2>3. entry' \in [Msgs -> Entries]
    <3>1. entry' = [entry EXCEPT ![m] = [entry[m] EXCEPT !.attempt = 1, !.gotSent = FALSE]]
      BY <1>22 DEF DrainSends
    <3>2. 1 \in 0 .. MaxAttempts
      OBVIOUS
    <3>3. [entry[m] EXCEPT !.attempt = 1, !.gotSent = FALSE] \in Entries
      BY <3>2, EntryTypes
    <3> QED
      BY <3>1, <3>3
  <2>4. radio' \in Seq(Frames) /\ tries' \in [Msgs -> 0 .. MaxAttempts]
    BY <1>22, <2>2, FrameFacts DEF DrainSends, Transmits
  <2> QED
    BY <1>22, <2>1, <2>3, <2>4 DEF DrainSends, Drains, linkVars
<1>23. ASSUME EndDrain PROVE TypeOK'
  BY <1>23, AppendFacts, NewEntryType DEF EndDrain, Idle, Scan, queueVars, linkVars, radioVars
<1>24. ASSUME NEW m \in Msgs, UserSend(m) PROVE TypeOK'
  <2>1. looper' \in Seq(Events)
    BY <1>24, LooperType, EventFacts, FrameFacts DEF UserSend, Receives, MsgEvents
  <2>2. place' \in [Msgs -> Places]
    BY <1>24 DEF UserSend, Places
  <2> QED
    BY <1>24, <2>1, <2>2 DEF UserSend, linkVars, radioVars
<1>25. ASSUME TimerTick PROVE TypeOK'
  <2>1. looper' \in Seq(Events)
    BY <1>25, LooperType, EventFacts DEF TimerTick, Receives, BareEvents
  <2> QED
    BY <1>25, <2>1, NewEntryType DEF TimerTick, Receives, queueVars, linkVars, radioVars
<1>26. ASSUME RadioAccepts PROVE TypeOK'
  <2>1. Head(radio) \in Frames /\ Tail(radio) \in Seq(Frames)
    BY <1>26 DEF RadioAccepts
  <2>2. looper' \in Seq(Events)
    BY <1>26, <2>1, LooperType, EventFacts DEF RadioAccepts, Receives, AckEvents
  <2> QED
    BY <1>26, <2>1, <2>2 DEF RadioAccepts, queueVars, linkVars
<1>27. ASSUME RadioRejects PROVE TypeOK'
  BY <1>27, AppendFacts, NewEntryType DEF RadioRejects, queueVars, linkVars, radioVars
<1>28. ASSUME NEW f \in Frames, PeerAcks(f) PROVE TypeOK'
  <2>1. looper' \in Seq(Events)
    BY <1>28, LooperType, EventFacts DEF PeerAcks, Receives, AckEvents
  <2> QED
    BY <1>28, <2>1, NewEntryType DEF PeerAcks, Receives, queueVars, linkVars, radioVars
<1>29. ASSUME Disconnect PROVE TypeOK'
  <2>1. looper' \in Seq(Events)
    BY <1>29, LooperType, EventFacts DEF Disconnect, Receives, BareEvents
  <2>2. radio' \in Seq(Frames)
    BY <1>29 DEF Disconnect
  <2> QED
    BY <1>29, <2>1, <2>2 DEF Disconnect, queueVars
<1>30. ASSUME Reconnect PROVE TypeOK'
  BY <1>30, AppendFacts, NewEntryType DEF Reconnect, queueVars, linkVars, radioVars
<1>31. ASSUME SyncStarts PROVE TypeOK'
  <2>1. looper' \in Seq(Events)
    BY <1>31, LooperType, EventFacts DEF SyncStarts, Receives, BareEvents
  <2> QED
    BY <1>31, <2>1, NewEntryType DEF SyncStarts, Receives, queueVars, linkVars, radioVars
<1>32. ASSUME SyncEnds PROVE TypeOK'
  <2>1. looper' \in Seq(Events)
    BY <1>32, LooperType, EventFacts DEF SyncEnds, Receives, BareEvents
  <2> QED
    BY <1>32, <2>1, NewEntryType DEF SyncEnds, Receives, queueVars, linkVars, radioVars
<1>33. CASE UNCHANGED vars
  BY <1>33 DEF vars, queueVars, linkVars, radioVars
<1>34. ASSUME OtherAnswer PROVE TypeOK'
  <2>1. looper' \in Seq(Events)
    BY <1>34, LooperType, EventFacts DEF OtherAnswer, Receives, AckEvents
  <2> QED
    BY <1>34, <2>1, NewEntryType DEF OtherAnswer, Receives, queueVars, linkVars, radioVars
<1> QED
  BY <1>1, <1>2, <1>3, <1>4, <1>5, <1>6, <1>7, <1>8, <1>9, <1>10, <1>11, <1>12, <1>13, <1>14, <1>15, <1>16, <1>17, <1>18, <1>19, <1>20, <1>21, <1>22, <1>23, <1>24, <1>25, <1>26, <1>27, <1>28, <1>29, <1>30, <1>31, <1>32, <1>33, <1>34 DEF Next, Looper, Environment, CheckDue
-----------------------------------------------------------------------------
(* What the handlers of a message may rely on.                             *)

(* Most steps only move frames, notices and flags.                         *)
Aside ==
  \/ HandleFrameSent \/ HandleFrameConfirmed \/ HandleDisconnected
  \/ HandleContactsStart \/ HandleContactsEnd \/ HandleStop
  \/ TimerTick \/ RadioAccepts \/ OtherAnswer \/ RadioRejects \/ \E f \in Frames : PeerAcks(f)
  \/ Disconnect \/ Reconnect \/ SyncStarts \/ SyncEnds

LEMMA AsideFacts == Aside => UNCHANGED <<busy, place, entry, status, tries>>
  BY DEF Aside, HandleFrameSent, HandleFrameConfirmed, HandleDisconnected, HandleContactsStart,
         HandleContactsEnd, HandleStop, TimerTick, RadioAccepts, OtherAnswer, RadioRejects, PeerAcks, Disconnect,
         Reconnect, SyncStarts, SyncEnds, Hands, queueVars, linkVars, radioVars

LEMMA EnqueueFacts ==
  ASSUME TypeOK, QueueInv, Takes("enqueue")
  PROVE  Head(looper).frame[1] \in Msgs /\ place[Head(looper).frame[1]] = "posted"
<1>1. 1 \in DOMAIN looper /\ Head(looper) = looper[1] /\ looper[1].what \in MsgEvents
  BY DEF TypeOK, Takes, MsgEvents
<1> QED
  BY <1>1 DEF QueueInv, Takes, WaitsAt

(* A scan looks at queued messages and moves on to another queued one.     *)
LEMMA CheckFacts ==
  ASSUME TypeOK, BusyInv, NEW m \in Msgs, Checks(m)
  PROVE  /\ place[m] = "pending" /\ m \in pending
         /\ busy.op = "check" /\ busy'.op = "check"
         /\ busy'.at \in (pending \ {m}) \cup {None}
<1>1. m \in pending /\ place[m] = "pending" /\ busy.op = "check"
  BY DEF Checks, BusyInv, pending, Msgs
<1>2. PICK n \in 0 .. NMsgs : /\ n \in {k \in pending : k < m} \cup {None}
                              /\ busy' = Scan("check", n, FALSE)
  BY DEF Checks, CheckGoesTo, Last
<1>3. n \in (pending \ {m}) \cup {None}
  BY <1>2 DEF Msgs, pending
<1> QED
  BY <1>1, <1>2, <1>3 DEF Scan

LEMMA DrainFacts ==
  ASSUME TypeOK, BusyInv, NEW m \in Msgs, NEW sent, Drains(m, sent)
  PROVE  /\ place[m] = "pending" /\ m \in pending
         /\ busy.op = "drain" /\ busy'.op = "drain"
         /\ busy'.at \in pending \cup {End}
<1>1. m \in pending /\ place[m] = "pending" /\ busy.op = "drain"
  BY DEF Drains, BusyInv, pending, Msgs
<1>2. PICK n \in 1 .. End : /\ n \in {k \in pending : k > m} \cup {End}
                            /\ busy' = Scan("drain", n, busy.sent \/ sent)
  BY DEF Drains, DrainGoesTo, First
<1> QED
  BY <1>1, <1>2 DEF Scan

(* Leaving the queue takes one message out of it.                          *)
LEMMA LeavesFacts ==
  ASSUME TypeOK, NEW m \in Msgs, Leaves(m)
  PROVE  /\ place'[m] = "gone" /\ pending' = pending \ {m}
         /\ \A n \in Msgs \ {m} : place'[n] = place[n] /\ entry'[n] = entry[n]
  BY DEF TypeOK, Leaves, pending

(* Every step of a check but the ones that lose the entry keeps the list.  *)
LEMMA CheckOutcome ==
  ASSUME TypeOK, NEW m \in Msgs, CheckNotDue(m) \/ CheckDue(m)
  PROVE  Checks(m) /\ (UNCHANGED place \/ Leaves(m))
  BY DEF CheckNotDue, CheckDue, CheckGraceOver, CheckEntersGrace, CheckRetries, CheckForgets, Fails,
         queueVars

-----------------------------------------------------------------------------
(* The parts of the invariant, one by one.                                 *)

LEMMA BusyStep == TypeOK /\ BusyInv /\ QueueInv /\ CountInv /\ [Next]_vars => BusyInv'
<1> SUFFICES ASSUME TypeOK, BusyInv, QueueInv, CountInv, [Next]_vars
             PROVE  BusyInv'
  OBVIOUS
<1> USE DEF BusyInv
<1>1. ASSUME UNCHANGED <<busy, place>> PROVE BusyInv'
  BY <1>1 DEF pending
<1>2. ASSUME Aside PROVE BusyInv'
  BY <1>1, <1>2, AsideFacts
<1>3. ASSUME SendRefused PROVE BusyInv'
  BY <1>3, TypedFacts DEF SendRefused, Takes, Idle, Scan, TypeOK
<1>4. ASSUME SendAccepted PROVE BusyInv'
  <2>1. Typed \in Msgs /\ busy = Idle
    BY <1>4, TypedFacts DEF SendAccepted, Takes
  <2>2. busy' = Scan("send", Typed, FALSE) /\ place' = [place EXCEPT ![Typed] = "sending"]
    BY <1>4 DEF SendAccepted
  <2>3. busy'.op = "send" /\ busy'.at = Typed
    BY <2>2 DEF Scan
  <2> QED
    BY <2>1, <2>2, <2>3 DEF TypeOK, Idle, Scan
<1>5. ASSUME PostEnqueue PROVE BusyInv'
  BY <1>5 DEF PostEnqueue, TypeOK, Idle, Scan
<1>6. ASSUME HandleEnqueue PROVE BusyInv'
  <2>1. busy = Idle /\ busy' = Idle
    BY <1>6 DEF HandleEnqueue, Takes
  <2>2. \A m \in Msgs : place'[m] = "sending" => place[m] = "sending"
    BY <1>6, EnqueueFacts DEF HandleEnqueue, TypeOK
  <2> QED
    BY <2>1, <2>2 DEF Idle, Scan
<1>7. ASSUME HandleRspSent PROVE BusyInv'
  BY <1>1, <1>7 DEF HandleRspSent
<1>8. ASSUME HandleConfirmed PROVE BusyInv'
  <2>1. busy = Idle /\ busy' = Idle
    BY <1>8 DEF HandleConfirmed, Takes
  <2>2. \A m \in Msgs : place'[m] = "sending" => place[m] = "sending"
    BY <1>8 DEF HandleConfirmed, Leaves, TypeOK, queueVars
  <2> QED
    BY <2>1, <2>2 DEF Idle, Scan
<1>9. ASSUME HandleCheck PROVE BusyInv'
  <2>1. PICK n \in pending \cup {None} : busy' = Scan("check", n, FALSE)
    BY <1>9 DEF HandleCheck, CheckGoesTo, Last
  <2>2. place' = place /\ busy = Idle
    BY <1>9 DEF HandleCheck, Takes, queueVars
  <2> QED
    BY <2>1, <2>2 DEF Scan, Idle, pending
<1>10. ASSUME NEW m \in Msgs, CheckNotDue(m) \/ CheckDue(m) PROVE BusyInv'
  <2>1. Checks(m) /\ (UNCHANGED place \/ Leaves(m))
    BY <1>10, CheckOutcome
  <2>2. pending \ {m} \subseteq pending'
    BY <2>1, LeavesFacts DEF pending
  <2>3. \A n \in Msgs : place'[n] = "sending" => place[n] = "sending"
    BY <2>1, LeavesFacts
  <2> QED
    BY <2>1, <2>2, <2>3, CheckFacts
<1>11. ASSUME EndCheck PROVE BusyInv'
  BY <1>11 DEF EndCheck, Idle, Scan, queueVars
<1>12. ASSUME HandleDrain PROVE BusyInv'
  <2>1. PICK n \in pending \cup {End} : busy' = Scan("drain", n, FALSE)
    BY <1>12 DEF HandleDrain, DrainGoesTo, First
  <2>2. place' = place /\ busy = Idle
    BY <1>12 DEF HandleDrain, Takes, queueVars
  <2> QED
    BY <2>1, <2>2 DEF Scan, Idle, pending
<1>13. ASSUME NEW m \in Msgs, DrainSkips(m) \/ DrainSends(m) PROVE BusyInv'
  <2>1. PICK sent : Drains(m, sent)
    BY <1>13 DEF DrainSkips, DrainSends
  <2>2. place' = place
    BY <1>13 DEF DrainSkips, DrainSends, Drains
  <2> QED
    BY <2>1, <2>2, DrainFacts DEF pending
<1>14. ASSUME EndDrain PROVE BusyInv'
  BY <1>14 DEF EndDrain, Idle, Scan, queueVars
<1>15. ASSUME NEW m \in Msgs, UserSend(m) PROVE BusyInv'
  BY <1>15 DEF UserSend, TypeOK, pending
<1> QED
  BY <1>1, <1>2, <1>3, <1>4, <1>5, <1>6, <1>7, <1>8, <1>9, <1>10, <1>11, <1>12, <1>13, <1>14, <1>15
  DEF Next, Looper, Environment, Aside, vars, queueVars

LEMMA StatusStep == TypeOK /\ BusyInv /\ QueueInv /\ CountInv /\ StatusInv /\ [Next]_vars => StatusInv'
<1> SUFFICES ASSUME TypeOK, BusyInv, QueueInv, CountInv, StatusInv, [Next]_vars
             PROVE  StatusInv'
  OBVIOUS
<1> USE DEF StatusInv
<1>1. ASSUME UNCHANGED <<place, status>> PROVE StatusInv'
  BY <1>1
<1>2. ASSUME Aside PROVE StatusInv'
  BY <1>1, <1>2, AsideFacts
<1>3. ASSUME SendRefused \/ SendAccepted PROVE StatusInv'
  BY <1>3, TypedFacts DEF SendRefused, SendAccepted, TypeOK
<1>4. ASSUME PostEnqueue PROVE StatusInv'
  BY <1>4 DEF PostEnqueue, BusyInv, TypeOK
<1>5. ASSUME HandleEnqueue PROVE StatusInv'
  BY <1>5, EnqueueFacts DEF HandleEnqueue, TypeOK
<1>6. ASSUME HandleConfirmed PROVE StatusInv'
  BY <1>6 DEF HandleConfirmed, Leaves, TypeOK, queueVars
<1>7. ASSUME NEW m \in Msgs, CheckNotDue(m) \/ CheckDue(m) PROVE StatusInv'
  <2>1. place[m] = "pending"
    BY <1>7, CheckOutcome, CheckFacts
  <2>2. \/ UNCHANGED <<place, status>>
        \/ UNCHANGED place /\ status' = [status EXCEPT ![m] = "retrying"]
        \/ Leaves(m) /\ (UNCHANGED status \/ status' = [status EXCEPT ![m] = "failed"])
    BY <1>7 DEF CheckNotDue, CheckDue, CheckGraceOver, CheckEntersGrace, CheckRetries, CheckForgets,
                Fails, queueVars
  <2> QED
    BY <2>1, <2>2, LeavesFacts DEF TypeOK
<1>8. ASSUME HandleRspSent \/ HandleCheck \/ EndCheck \/ HandleDrain \/ EndDrain
      PROVE  StatusInv'
  BY <1>1, <1>8 DEF HandleRspSent, HandleCheck, EndCheck, HandleDrain, EndDrain, queueVars
<1>9. ASSUME NEW m \in Msgs, DrainSkips(m) \/ DrainSends(m) PROVE StatusInv'
  BY <1>1, <1>9 DEF DrainSkips, DrainSends, Drains
<1>10. ASSUME NEW m \in Msgs, UserSend(m) PROVE StatusInv'
  BY <1>10 DEF UserSend, TypeOK
<1> QED
  BY <1>1, <1>2, <1>3, <1>4, <1>5, <1>6, <1>7, <1>8, <1>9, <1>10
  DEF Next, Looper, Environment, Aside, vars, queueVars

LEMMA CountStep == TypeOK /\ BusyInv /\ QueueInv /\ CountInv /\ [Next]_vars => CountInv'
<1> SUFFICES ASSUME TypeOK, BusyInv, QueueInv, CountInv, [Next]_vars
             PROVE  CountInv'
  OBVIOUS
<1> USE DEF CountInv
<1>1. ASSUME UNCHANGED <<place, entry, tries>> PROVE CountInv'
  BY <1>1
<1>2. ASSUME Aside PROVE CountInv'
  BY <1>1, <1>2, AsideFacts
<1>3. ASSUME SendRefused PROVE CountInv'
  BY <1>3, TypedFacts DEF SendRefused, TypeOK, radioVars
<1>4. ASSUME SendAccepted PROVE CountInv'
  <2>1. Typed \in Msgs /\ entry[Typed] = NewEntry /\ tries[Typed] = 0
    BY <1>4, TypedFacts DEF SendAccepted
  <2>2. place' = [place EXCEPT ![Typed] = "sending"]
    BY <1>4 DEF SendAccepted
  <2>3. CASE Transmits(Typed, 0) /\ entry' = [entry EXCEPT ![Typed].attempt = 1]
    <3>1. entry'[Typed].attempt = 1 /\ tries'[Typed] = 1
      BY <2>1, <2>3 DEF Transmits, TypeOK, Entries
    <3>2. \A n \in Msgs \ {Typed} : place'[n] = place[n] /\ entry'[n] = entry[n] /\ tries'[n] = tries[n]
      BY <2>2, <2>3 DEF Transmits, TypeOK
    <3>3. place'[Typed] = "sending"
      BY <2>1, <2>2 DEF TypeOK
    <3> QED
      BY <3>1, <3>2, <3>3
  <2>4. CASE NotTransmitted /\ UNCHANGED entry
    BY <2>1, <2>2, <2>4 DEF NotTransmitted, TypeOK, NewEntry
  <2> QED
    BY <1>4, <2>3, <2>4 DEF SendAccepted
<1>5. ASSUME PostEnqueue PROVE CountInv'
  BY <1>5 DEF PostEnqueue, BusyInv, TypeOK, radioVars
<1>6. ASSUME HandleEnqueue PROVE CountInv'
  BY <1>6, EnqueueFacts DEF HandleEnqueue, TypeOK, radioVars
<1>7. ASSUME HandleRspSent PROVE CountInv'
  <2>1. ASSUME NEW m \in Msgs, m \in pending,
               entry' = [entry EXCEPT ![m].gotSent = TRUE, ![m].ack = Head(looper).frame]
        PROVE  /\ entry'[m].attempt = entry[m].attempt
               /\ \A n \in Msgs \ {m} : entry'[n] = entry[n]
    BY <2>1 DEF TypeOK, Entries
  <2> QED
    BY <1>7, <2>1 DEF HandleRspSent, Unanswered, Last, pending, radioVars
<1>8. ASSUME HandleConfirmed PROVE CountInv'
  BY <1>1, <1>8, LeavesFacts DEF HandleConfirmed, queueVars, radioVars
<1>9. ASSUME NEW m \in Msgs, CheckNotDue(m) \/ CheckDue(m) PROVE CountInv'
  <2>1. place[m] = "pending" /\ Checks(m)
    BY <1>9, CheckOutcome, CheckFacts
  <2>2. CASE Leaves(m) /\ UNCHANGED tries
    BY <2>2, LeavesFacts
  <2>3. CASE CheckEntersGrace(m)
    <3>1. entry'[m].attempt = entry[m].attempt /\ \A n \in Msgs \ {m} : entry'[n] = entry[n]
      BY <2>3 DEF CheckEntersGrace, TypeOK, Entries
    <3> QED
      BY <2>1, <2>3, <3>1 DEF CheckEntersGrace
  <2>4. CASE /\ Transmits(m, WireAttempt(m))
             /\ entry' = [entry EXCEPT ![m].attempt = @ + 1, ![m].gotSent = FALSE]
             /\ UNCHANGED place
    <3>1. entry'[m].attempt = entry[m].attempt + 1 /\ \A n \in Msgs \ {m} : entry'[n] = entry[n]
      BY <2>4 DEF TypeOK, Entries
    <3>2. tries'[m] = tries[m] + 1 /\ \A n \in Msgs \ {m} : tries'[n] = tries[n]
      BY <2>4 DEF Transmits, TypeOK
    <3> QED
      BY <2>1, <2>4, <3>1, <3>2
  <2> QED
    BY <1>1, <1>9, <2>2, <2>3, <2>4
    DEF CheckNotDue, CheckDue, CheckGraceOver, CheckRetries, CheckForgets, Fails, NotTransmitted, queueVars
<1>10. ASSUME HandleCheck \/ EndCheck \/ HandleDrain \/ EndDrain PROVE CountInv'
  BY <1>1, <1>10 DEF HandleCheck, EndCheck, HandleDrain, EndDrain, queueVars, radioVars
<1>11. ASSUME NEW m \in Msgs, DrainSkips(m) PROVE CountInv'
  BY <1>1, <1>11 DEF DrainSkips, Drains
<1>12. ASSUME NEW m \in Msgs, DrainSends(m) PROVE CountInv'
  <2>1. place[m] = "pending" /\ place' = place
    BY <1>12, DrainFacts DEF DrainSends, Drains
  <2>2. entry'[m].attempt = 1 /\ \A n \in Msgs \ {m} : entry'[n] = entry[n]
    BY <1>12 DEF DrainSends, TypeOK, Entries
  <2>3. tries[m] = 0
    BY <1>12, <2>1 DEF DrainSends, Unsent
  <2>4. tries'[m] = 1 /\ \A n \in Msgs \ {m} : tries'[n] = tries[n]
    BY <1>12, <2>3 DEF DrainSends, Transmits, TypeOK
  <2> QED
    BY <2>1, <2>2, <2>4
<1>13. ASSUME NEW m \in Msgs, UserSend(m) PROVE CountInv'
  BY <1>13 DEF UserSend, TypeOK, radioVars
<1> QED
  BY <1>1, <1>2, <1>3, <1>4, <1>5, <1>6, <1>7, <1>8, <1>9, <1>10, <1>11, <1>12, <1>13
  DEF Next, Looper, Environment, Aside, vars, queueVars, radioVars

-----------------------------------------------------------------------------
(* How a step moves the looper's queue: d events are taken from the front, *)
(* and what is new stands at the end.                                      *)

Moves(d, new) ==
  /\ DOMAIN looper' \subseteq Nat \ {0}
  /\ \A i \in DOMAIN looper' :
       \/ i + d \in DOMAIN looper /\ looper'[i] = looper[i + d]
       \/ i + d = Len(looper) + 1 /\ looper'[i] \in new
  /\ \A j \in DOMAIN looper : j > d => j - d \in DOMAIN looper' /\ looper'[j - d] = looper[j]

LEMMA StaysMoves == ASSUME TypeOK, UNCHANGED looper PROVE Moves(0, {})
  BY DEF TypeOK, Moves

LEMMA DoneMoves == ASSUME TypeOK, looper # <<>>, Done PROVE Moves(1, {})
  BY DEF TypeOK, Moves, Done

LEMMA ReceivesMoves == ASSUME TypeOK, NEW e \in Events, Receives(e) PROVE Moves(0, {e})
  BY DEF TypeOK, Moves, Receives

LEMMA PostsMoves ==
  ASSUME TypeOK, looper # <<>>, NEW e \in Events, Posts(e)
  PROVE  Moves(1, {e}) /\ looper'[Len(looper)] = e /\ Len(looper) \in DOMAIN looper'
<1> DEFINE t == Tail(looper)
<1>1. /\ t \in Seq(Events) /\ Len(t) = Len(looper) - 1
      /\ \A i \in 1 .. Len(looper) - 1 : t[i] = looper[i + 1]
  BY DEF TypeOK
<1>2. looper' = Append(t, e)
  BY DEF Posts
<1> HIDE DEF t
<1>3. /\ DOMAIN looper' = 1 .. Len(t) + 1 /\ looper'[Len(t) + 1] = e
      /\ \A i \in 1 .. Len(t) : looper'[i] = t[i]
  BY <1>1, <1>2
<1> QED
  BY <1>1, <1>3 DEF TypeOK, Moves

(* The steps that neither take in nor place a message.                     *)
Plain ==
  \/ Aside
  \/ HandleRspSent \/ HandleConfirmed \/ HandleCheck \/ EndCheck \/ HandleDrain \/ EndDrain
  \/ \E m \in Msgs : CheckNotDue(m) \/ CheckDue(m) \/ DrainSkips(m) \/ DrainSends(m)
  \/ UNCHANGED vars

LEMMA NextCases ==
  [Next]_vars => \/ SendRefused \/ SendAccepted \/ PostEnqueue \/ HandleEnqueue
                 \/ \E m \in Msgs : UserSend(m)
                 \/ Plain
  BY DEF Next, Looper, Environment, Plain, Aside

(* What enters the queue in them is no message, and an answer to a frame   *)
(* only when the frame is answered or its answer handed on.                *)
PlainNew(d, new) ==
  /\ Moves(d, new)
  /\ d = 1 => looper[1].what # "enqueue"
  /\ \A e \in new : e.what \notin MsgEvents
  /\ \A e \in new : e.what \in Answers /\ e.frame # NoAck => RadioAccepts \/ HandleFrameSent
  /\ \A e \in new : e.what = "rsp_sent" => HandleFrameSent

LEMMA EventParts ==
  ASSUME NEW w, NEW f PROVE Event(w, f).what = w /\ Event(w, f).frame = f
  BY DEF Event

LEMMA TakesFacts ==
  ASSUME TypeOK, NEW w, Takes(w)
  PROVE  /\ looper # <<>> /\ 1 \in DOMAIN looper /\ Head(looper) = looper[1] /\ looper[1].what = w
         /\ looper[1].frame \in Frames \cup {NoAck}
         /\ \A j \in DOMAIN looper : j > 0 /\ (j = 1 \/ j > 1)
<1>1. /\ looper # <<>> /\ 1 \in DOMAIN looper /\ Head(looper) = looper[1] /\ Head(looper).what = w
      /\ \A j \in DOMAIN looper : j > 0 /\ (j = 1 \/ j > 1)
  BY DEF Takes, TypeOK
<1>2. Head(looper).frame \in Frames \cup {NoAck}
  BY <1>1, LooperType DEF Events
<1> QED
  BY <1>1, <1>2

LEMMA HandsMoves ==
  ASSUME TypeOK, NEW from, from # "enqueue", Takes(from), NEW w \in AckEvents \cup BareEvents,
         NEW f \in Frames \cup {NoAck}, Posts(Event(w, f)),
         w \in Answers /\ f # NoAck => RadioAccepts \/ HandleFrameSent,
         w = "rsp_sent" => HandleFrameSent
  PROVE  PlainNew(1, {Event(w, f)})
<1>1. Event(w, f) \in Events /\ w \notin MsgEvents
  BY EventFacts DEF MsgEvents, AckEvents, BareEvents
<1>2. Moves(1, {Event(w, f)})
  BY <1>1, TakesFacts, PostsMoves
<1> QED
  BY <1>1, <1>2, TakesFacts, EventParts DEF PlainNew

LEMMA GetsMoves ==
  ASSUME TypeOK, NEW w \in AckEvents \cup BareEvents,
         NEW f \in Frames \cup {NoAck}, Receives(Event(w, f)),
         w \in Answers /\ f # NoAck => RadioAccepts \/ HandleFrameSent,
         w = "rsp_sent" => HandleFrameSent
  PROVE  PlainNew(0, {Event(w, f)})
<1>1. Event(w, f) \in Events /\ w \notin MsgEvents
  BY EventFacts DEF MsgEvents, AckEvents, BareEvents
<1>2. Moves(0, {Event(w, f)})
  BY <1>1, ReceivesMoves
<1> QED
  BY <1>1, <1>2, EventParts DEF PlainNew

LEMMA PlainMoves ==
  ASSUME TypeOK, Plain
  PROVE  \E d \in {0, 1} : \E new : PlainNew(d, new)
<1>1. CASE UNCHANGED looper
  BY <1>1, StaysMoves DEF PlainNew
<1>2. ASSUME NEW w, w # "enqueue", Takes(w), Done PROVE PlainNew(1, {})
  BY <1>2, DoneMoves, TakesFacts DEF PlainNew
<1>3. CASE HandleFrameSent
  BY <1>3, HandsMoves, TakesFacts DEF HandleFrameSent, Hands, AckEvents
<1>4. CASE HandleFrameConfirmed
  <2>1. /\ Takes("frame_confirmed") /\ Head(looper).frame \in Frames \cup {NoAck}
        /\ Posts(Event("confirmed", Head(looper).frame))
    BY <1>4, TakesFacts DEF HandleFrameConfirmed, Hands
  <2>2. "confirmed" \in AckEvents /\ "confirmed" \notin Answers /\ "confirmed" # "rsp_sent"
    BY DEF AckEvents, Answers
  <2>3. PlainNew(1, {Event("confirmed", Head(looper).frame)})
    BY <2>1, <2>2, HandsMoves
  <2> QED
    BY <2>3
<1>5. CASE HandleDisconnected \/ HandleContactsEnd
  BY <1>5, HandsMoves DEF HandleDisconnected, HandleContactsEnd, BareEvents, Answers
<1>6. CASE TimerTick \/ Disconnect \/ SyncStarts \/ SyncEnds
  BY <1>6, GetsMoves DEF TimerTick, Disconnect, SyncStarts, SyncEnds, BareEvents, Answers
<1>7. CASE RadioAccepts
  <2>1. Head(radio) \in Frames
    BY <1>7 DEF RadioAccepts, TypeOK
  <2> QED
    BY <1>7, <2>1, GetsMoves DEF RadioAccepts, AckEvents
<1>8. CASE \E f \in Frames : PeerAcks(f)
  BY <1>8, GetsMoves DEF PeerAcks, AckEvents, Answers
<1>9. CASE HandleContactsStart \/ HandleStop \/ HandleRspSent \/ HandleConfirmed \/ HandleCheck \/ HandleDrain
  BY <1>2, <1>9 DEF HandleContactsStart, HandleStop, HandleRspSent, HandleConfirmed, HandleCheck, HandleDrain
<1>10. CASE RadioRejects \/ Reconnect \/ EndCheck \/ EndDrain \/ UNCHANGED vars
  BY <1>1, <1>10 DEF RadioRejects, Reconnect, EndCheck, EndDrain, vars
<1>11. CASE \E m \in Msgs : CheckNotDue(m) \/ CheckDue(m) \/ DrainSkips(m) \/ DrainSends(m)
  BY <1>1, <1>11, CheckOutcome DEF Checks, DrainSkips, DrainSends, Drains
<1>12. CASE OtherAnswer
  BY <1>12, GetsMoves DEF OtherAnswer, AckEvents
<1> QED
  BY <1>3, <1>4, <1>5, <1>6, <1>7, <1>8, <1>9, <1>10, <1>11, <1>12 DEF Plain, Aside

(* They only take messages out of the list.                                *)
LEMMA PlainPlaces ==
  ASSUME TypeOK, BusyInv, Plain, NEW m \in Msgs
  PROVE  place'[m] = place[m] \/ (place[m] = "pending" /\ place'[m] = "gone")
<1>1. CASE UNCHANGED place
  BY <1>1
<1>2. ASSUME NEW n \in pending, Leaves(n)
      PROVE  place'[m] = place[m] \/ (place[m] = "pending" /\ place'[m] = "gone")
  BY <1>2, LeavesFacts DEF pending
<1>3. CASE HandleConfirmed
  BY <1>1, <1>2, <1>3 DEF HandleConfirmed, Awaiting, Last, queueVars
<1>4. ASSUME NEW n \in Msgs, CheckNotDue(n) \/ CheckDue(n)
      PROVE  place'[m] = place[m] \/ (place[m] = "pending" /\ place'[m] = "gone")
  BY <1>1, <1>2, <1>4, CheckOutcome, CheckFacts
<1> QED
  BY <1>1, <1>3, <1>4, AsideFacts
  DEF Plain, HandleRspSent, HandleCheck, EndCheck, HandleDrain, EndDrain, DrainSkips, DrainSends, Drains,
      vars, queueVars

(* QueueInv survives when what stays in the queue still waits and what is  *)
(* new was not waiting.                                                    *)
LEMMA QueueShift ==
  ASSUME TypeOK, QueueInv, NEW d \in {0, 1}, NEW new, Moves(d, new),
         \A j \in DOMAIN looper : j > d /\ looper[j].what \in MsgEvents
            => place'[looper[j].frame[1]] = place[looper[j].frame[1]],
         \A e \in new : e.what \in MsgEvents
            => /\ e.frame[1] \in Msgs
               /\ place'[e.frame[1]] = WaitsAt(e)
               /\ place[e.frame[1]] # WaitsAt(e)
  PROVE  QueueInv'
<1> DEFINE Old(i) == i + d \in DOMAIN looper /\ looper'[i] = looper[i + d]
           New(i) == i + d = Len(looper) + 1 /\ looper'[i] \in new
<1>1. \A i \in DOMAIN looper' : Old(i) \/ New(i)
  BY DEF Moves
<1>2. DOMAIN looper = 1 .. Len(looper) /\ Len(looper) \in Nat
  BY DEF TypeOK
<1>3. \A i \in DOMAIN looper' : i \in Int /\ i > 0
  BY DEF Moves
<1>4. ASSUME NEW i \in DOMAIN looper', looper'[i].what \in MsgEvents
      PROVE  /\ looper'[i].frame[1] \in Msgs
             /\ place'[looper'[i].frame[1]] = WaitsAt(looper'[i])
  BY <1>1, <1>3, <1>4 DEF QueueInv
<1>5. ASSUME NEW i \in DOMAIN looper', NEW j \in DOMAIN looper',
             looper'[i].what \in MsgEvents, looper'[i].what = looper'[j].what,
             looper'[i].frame[1] = looper'[j].frame[1]
      PROVE  i = j
  <2>1. CASE Old(i) /\ Old(j)
    BY <1>3, <1>5, <2>1 DEF QueueInv
  <2>2. CASE New(i) /\ New(j)
    BY <1>2, <1>3, <2>2
  <2>3. ASSUME NEW k \in DOMAIN looper, NEW e \in new, e.what \in MsgEvents
        PROVE  ~(looper[k].what = e.what /\ looper[k].frame[1] = e.frame[1])
    BY <2>3 DEF QueueInv, WaitsAt
  <2> QED
    BY <1>1, <1>5, <2>1, <2>2, <2>3
<1> QED
  BY <1>4, <1>5 DEF QueueInv, WaitsAt

LEMMA QueueStep == TypeOK /\ BusyInv /\ QueueInv /\ CountInv /\ [Next]_vars => QueueInv'
<1> SUFFICES ASSUME TypeOK, BusyInv, QueueInv, CountInv, [Next]_vars
             PROVE  QueueInv'
  OBVIOUS
<1>1. CASE Plain
  <2>1. PICK d \in {0, 1} : \E new : Moves(d, new) /\ \A e \in new : e.what \notin MsgEvents
    BY <1>1, PlainMoves DEF PlainNew
  <2>2. \A j \in DOMAIN looper : looper[j].what \in MsgEvents
          => place'[looper[j].frame[1]] = place[looper[j].frame[1]]
    BY <1>1, PlainPlaces DEF QueueInv, WaitsAt
  <2> QED
    BY <2>1, <2>2, QueueShift
<1>2. CASE SendRefused \/ SendAccepted
  <2>1. Takes("send") /\ Moves(1, {}) /\ Typed \in Msgs
    BY <1>2, DoneMoves, TakesFacts, TypedFacts DEF SendRefused, SendAccepted
  <2>2. \A m \in Msgs \ {Typed} : place'[m] = place[m]
    BY <1>2, <2>1 DEF SendRefused, SendAccepted, TypeOK
  <2>3. \A j \in DOMAIN looper : j > 1 /\ looper[j].what \in MsgEvents => looper[j].frame[1] # Typed
    BY <2>1, TakesFacts, TypedFacts DEF QueueInv, Typed, WaitsAt, MsgEvents
  <2> QED
    BY <2>1, <2>2, <2>3, QueueShift DEF QueueInv
<1>3. CASE PostEnqueue
  <2> DEFINE e == Event("enqueue", <<busy.at, 0>>)
  <2>1. busy.at \in Msgs /\ place[busy.at] = "sending"
    BY <1>3 DEF PostEnqueue, BusyInv
  <2>2. e \in Events
    BY <2>1, EventFacts, FrameFacts DEF MsgEvents
  <2>3. Moves(0, {e})
    BY <1>3, <2>2, ReceivesMoves DEF PostEnqueue
  <2>4. place'[busy.at] = "posted" /\ \A m \in Msgs \ {busy.at} : place'[m] = place[m]
    BY <1>3, <2>1 DEF PostEnqueue, TypeOK
  <2>5. e.what = "enqueue" /\ e.frame[1] = busy.at /\ WaitsAt(e) = "posted"
    BY DEF Event, WaitsAt
  <2>6. \A j \in DOMAIN looper : looper[j].what \in MsgEvents => looper[j].frame[1] # busy.at
    BY <2>1 DEF QueueInv, WaitsAt
  <2> HIDE DEF e
  <2> QED
    BY <2>1, <2>3, <2>4, <2>5, <2>6, QueueShift DEF QueueInv
<1>4. CASE HandleEnqueue
  <2> DEFINE h == Head(looper).frame[1]
  <2>1. Takes("enqueue") /\ Moves(1, {}) /\ h \in Msgs /\ place[h] = "posted"
    BY <1>4, DoneMoves, TakesFacts, EnqueueFacts DEF HandleEnqueue
  <2>2. \A m \in Msgs \ {h} : place'[m] = place[m]
    BY <1>4, <2>1 DEF HandleEnqueue, TypeOK
  <2>3. \A j \in DOMAIN looper : j > 1 /\ looper[j].what \in MsgEvents => looper[j].frame[1] # h
    BY <2>1, TakesFacts DEF QueueInv, WaitsAt, MsgEvents
  <2> HIDE DEF h
  <2> QED
    BY <2>1, <2>2, <2>3, QueueShift DEF QueueInv
<1>5. ASSUME NEW m \in Msgs, UserSend(m) PROVE QueueInv'
  <2> DEFINE e == Event("send", <<m, 0>>)
  <2>1. e \in Events
    BY EventFacts, FrameFacts DEF MsgEvents
  <2>2. Moves(0, {e})
    BY <1>5, <2>1, ReceivesMoves DEF UserSend
  <2>3. /\ place[m] = "new" /\ place'[m] = "typed"
        /\ \A n \in Msgs \ {m} : place'[n] = place[n]
    BY <1>5 DEF UserSend, TypeOK
  <2>4. e.what = "send" /\ e.frame[1] = m /\ WaitsAt(e) = "typed"
    BY DEF Event, WaitsAt
  <2>5. \A j \in DOMAIN looper : looper[j].what \in MsgEvents => looper[j].frame[1] # m
    BY <2>3 DEF QueueInv, WaitsAt
  <2> HIDE DEF e
  <2> QED
    BY <2>2, <2>3, <2>4, <2>5, QueueShift DEF QueueInv
<1> QED
  BY <1>1, <1>2, <1>3, <1>4, <1>5, NextCases

-----------------------------------------------------------------------------
(* Frames: what a step may do to them.                                     *)

(* The frame of an unwritten attempt is new, and written frames stay so.   *)
WrittenStays == \A m \in Msgs : tries'[m] >= tries[m]

(* Only a frame not written before comes to the radio, only a frame taken  *)
(* from the radio comes to the queue.                                      *)
FrameMoves ==
  /\ \A f \in Frames : AtRadio(f)' => AtRadio(f) \/ ~Written(f)
  /\ \A f \in Frames : InQueue(f)' => InQueue(f) \/ (AtRadio(f) /\ ~AtRadio(f)')
  /\ \A f : Written(f) => Written(f)'

(* What a step does to the radio.                                          *)
LEMMA RadioCases ==
  ASSUME TypeOK, BusyInv, QueueInv, CountInv, [Next]_vars
  PROVE  \/ UNCHANGED <<radio, tries>>
         \/ \E m \in Msgs : Transmits(m, tries[m])
         \/ radio # <<>> /\ radio' = Tail(radio) /\ UNCHANGED tries
         \/ radio' = <<>> /\ UNCHANGED tries
<1>1. CASE SendAccepted
  BY <1>1, TypedFacts DEF SendAccepted, NotTransmitted
<1>2. ASSUME NEW m \in Msgs, CheckNotDue(m) \/ CheckDue(m)
      PROVE  UNCHANGED <<radio, tries>> \/ Transmits(m, tries[m])
  <2>1. entry[m].attempt = tries[m]
    BY <1>2, CheckOutcome, CheckFacts DEF CountInv
  <2> QED
    BY <1>2, <2>1 DEF CheckNotDue, CheckDue, CheckGraceOver, CheckEntersGrace, CheckRetries, CheckForgets,
                      NotTransmitted, WireAttempt
<1>3. ASSUME NEW m \in Msgs, DrainSkips(m) \/ DrainSends(m)
      PROVE  UNCHANGED <<radio, tries>> \/ Transmits(m, tries[m])
  BY <1>3, DrainFacts DEF DrainSkips, DrainSends, Unsent, CountInv
<1>4. CASE RadioAccepts \/ RadioRejects \/ Disconnect
  BY <1>4 DEF RadioAccepts, RadioRejects, Disconnect
<1>5. CASE \/ SendRefused \/ PostEnqueue \/ HandleFrameSent \/ HandleFrameConfirmed
           \/ HandleDisconnected \/ HandleContactsStart \/ HandleContactsEnd \/ HandleEnqueue
           \/ HandleRspSent \/ HandleConfirmed \/ HandleStop
  BY <1>5 DEF SendRefused, PostEnqueue, HandleFrameSent, HandleFrameConfirmed, Hands, HandleDisconnected,
              HandleContactsStart, HandleContactsEnd, HandleEnqueue, HandleRspSent, HandleConfirmed,
              HandleStop, radioVars
<1>6. CASE \/ HandleCheck \/ EndCheck \/ HandleDrain \/ EndDrain \/ (\E m \in Msgs : UserSend(m))
           \/ TimerTick \/ (\E f \in Frames : PeerAcks(f)) \/ Reconnect \/ SyncStarts \/ SyncEnds
           \/ OtherAnswer \/ UNCHANGED vars
  BY <1>6 DEF HandleCheck, EndCheck, HandleDrain, EndDrain, UserSend, TimerTick, PeerAcks, Reconnect,
              SyncStarts, SyncEnds, OtherAnswer, vars, radioVars
<1> QED
  BY <1>1, <1>2, <1>3, <1>4, <1>5, <1>6 DEF Next, Looper, Environment

LEMMA TransmitFacts ==
  ASSUME TypeOK, NEW m \in Msgs, Transmits(m, tries[m])
  PROVE  /\ \A i \in DOMAIN radio' : \/ i \in DOMAIN radio /\ radio'[i] = radio[i]
                                     \/ i = Len(radio) + 1 /\ radio'[i] = <<m, tries[m]>>
         /\ tries'[m] = tries[m] + 1 /\ tries'[m] >= tries[m]
         /\ \A n \in Msgs \ {m} : tries'[n] = tries[n] /\ tries'[n] >= tries[n]
         /\ ~Written(<<m, tries[m]>>)
  BY DEF TypeOK, Transmits, Written

LEMMA RadioTailFacts ==
  ASSUME TypeOK, radio # <<>>, radio' = Tail(radio)
  PROVE  /\ \A i \in DOMAIN radio' : i + 1 # 1 /\ i + 1 \in DOMAIN radio /\ radio'[i] = radio[i + 1]
         /\ Head(radio) = radio[1] /\ 1 \in DOMAIN radio
  BY DEF TypeOK

LEMMA TriesGrow ==
  ASSUME TypeOK, BusyInv, QueueInv, CountInv, [Next]_vars
  PROVE  WrittenStays /\ \A f : Written(f) => Written(f)'
<1>1. WrittenStays
  <2>1. CASE UNCHANGED tries
    BY <2>1 DEF WrittenStays, TypeOK
  <2>2. ASSUME NEW m \in Msgs, Transmits(m, tries[m]) PROVE WrittenStays
    BY <2>2, TransmitFacts DEF WrittenStays
  <2> QED
    BY <2>1, <2>2, RadioCases
<1>2. ASSUME TypeOK' PROVE \A f : Written(f) => Written(f)'
  BY <1>1, <1>2 DEF Written, WrittenStays, TypeOK, Frames
<1> QED
  BY <1>1, <1>2, TypeStep

(* Every step moves the queue in some way; answers come in by two of them. *)
LEMMA NextMoves ==
  ASSUME TypeOK, BusyInv, QueueInv, CountInv, [Next]_vars
  PROVE  \E d \in {0, 1} : \E new :
           /\ Moves(d, new)
           /\ \A e \in new : e.what \in Answers /\ e.frame # NoAck => RadioAccepts \/ HandleFrameSent
<1>1. CASE Plain
  BY <1>1, PlainMoves DEF PlainNew
<1>2. CASE SendRefused \/ SendAccepted \/ HandleEnqueue
  <2>1. Moves(1, {})
    BY <1>2, DoneMoves DEF Takes, SendRefused, SendAccepted, HandleEnqueue
  <2> QED
    BY <2>1
<1>3. ASSUME NEW m \in Msgs, Receives(Event("enqueue", <<m, 0>>)) \/ Receives(Event("send", <<m, 0>>))
      PROVE  \E new : Moves(0, new) /\ \A e \in new : e.what \notin Answers
  <2>1. PICK w \in MsgEvents : Receives(Event(w, <<m, 0>>))
    BY <1>3 DEF MsgEvents
  <2>2. Event(w, <<m, 0>>) \in Events
    BY EventFacts, FrameFacts
  <2>3. Moves(0, {Event(w, <<m, 0>>)})
    BY <2>1, <2>2, ReceivesMoves
  <2> QED
    BY <2>3, EventParts DEF MsgEvents, Answers
<1>4. CASE PostEnqueue
  BY <1>3, <1>4 DEF PostEnqueue, BusyInv
<1>5. CASE \E m \in Msgs : UserSend(m)
  BY <1>3, <1>5 DEF UserSend
<1> QED
  BY <1>1, <1>2, <1>4, <1>5, NextCases

LEMMA FrameStep ==
  ASSUME TypeOK, BusyInv, QueueInv, CountInv, RadioInv, AnswerInv, [Next]_vars
  PROVE  FrameMoves
<1>1. ASSUME NEW f \in Frames, AtRadio(f)' PROVE AtRadio(f) \/ ~Written(f)
  <2>1. CASE UNCHANGED radio
    BY <1>1, <2>1 DEF AtRadio
  <2>2. ASSUME NEW m \in Msgs, Transmits(m, tries[m]) PROVE AtRadio(f) \/ ~Written(f)
    BY <1>1, <2>2, TransmitFacts DEF AtRadio
  <2>3. CASE radio # <<>> /\ radio' = Tail(radio)
    BY <1>1, <2>3, RadioTailFacts DEF AtRadio
  <2>4. CASE radio' = <<>>
    BY <1>1, <2>4 DEF AtRadio
  <2> QED
    BY <2>1, <2>2, <2>3, <2>4, RadioCases
<1>2. ASSUME NEW f \in Frames, InQueue(f)' PROVE InQueue(f) \/ (AtRadio(f) /\ ~AtRadio(f)')
  <2>1. PICK i \in DOMAIN looper' : looper'[i].what \in Answers /\ looper'[i].frame = f
    BY <1>2 DEF InQueue
  <2>2. CASE HandleFrameSent
    <3>1. /\ looper # <<>> /\ looper[1].what = "frame_sent" /\ 1 \in DOMAIN looper
          /\ Head(looper) = looper[1] /\ looper[1].frame \in Frames \cup {NoAck}
      BY <2>2, TakesFacts DEF HandleFrameSent, Hands
    <3>2. Event("rsp_sent", looper[1].frame) \in Events
      BY <3>1, EventFacts DEF AckEvents
    <3>3. Moves(1, {Event("rsp_sent", looper[1].frame)})
      BY <2>2, <3>1, <3>2, PostsMoves DEF HandleFrameSent, Hands
    <3>4. InQueue(looper[1].frame)
      BY <3>1 DEF InQueue, Answers
    <3> QED
      BY <2>1, <3>3, <3>4, EventParts DEF Moves, InQueue
  <2>3. CASE RadioAccepts
    <3>1. PICK h \in Frames : radio # <<>> /\ radio' = Tail(radio) /\ h = Head(radio) /\ h = radio[1]
      BY <2>3 DEF RadioAccepts, TypeOK
    <3>2. Event("frame_sent", h) \in Events
      BY EventFacts DEF AckEvents
    <3>3. Moves(0, {Event("frame_sent", h)})
      BY <2>3, <3>1, <3>2, ReceivesMoves DEF RadioAccepts
    <3>4. AtRadio(h) /\ ~AtRadio(h)'
      <4>1. AtRadio(h)
        BY <3>1, RadioTailFacts DEF AtRadio
      <4>2. ASSUME NEW j \in DOMAIN radio', radio'[j] = h PROVE FALSE
        <5>1. j + 1 # 1 /\ j + 1 \in DOMAIN radio /\ 1 \in DOMAIN radio /\ radio[j + 1] = radio[1]
          BY <3>1, <4>2, RadioTailFacts
        <5> QED
          BY <5>1 DEF RadioInv
      <4> QED
        BY <4>1, <4>2 DEF AtRadio
    <3>5. i + 0 = i
      BY <3>3 DEF Moves
    <3>6. (i + 0 \in DOMAIN looper /\ looper'[i] = looper[i + 0]) \/ looper'[i].frame = h
      BY <3>3, EventParts DEF Moves
    <3> QED
      BY <2>1, <3>4, <3>5, <3>6 DEF InQueue
  <2>4. CASE ~HandleFrameSent /\ ~RadioAccepts
    BY <2>1, <2>4, NextMoves, CodeFacts DEF Moves, InQueue
  <2> QED
    BY <2>2, <2>3, <2>4
<1> QED
  BY <1>1, <1>2, TriesGrow DEF FrameMoves

-----------------------------------------------------------------------------
(* Frames: the parts of the invariant.                                     *)

LEMMA RadioStep ==
  ASSUME TypeOK, BusyInv, QueueInv, CountInv, RadioInv, AnswerInv, [Next]_vars
  PROVE  RadioInv'
<1>1. FrameMoves
  BY FrameStep
<1>2. \A f \in Frames : AtRadio(f) => Written(f) /\ ~InQueue(f)
  BY DEF RadioInv, AtRadio
<1>3. \A f \in Frames : InQueue(f) => Written(f)
  BY CodeFacts DEF AnswerInv, InQueue
<1>4. \A i \in DOMAIN radio' : radio'[i] \in Frames
  BY TypeStep DEF TypeOK
<1>5. ASSUME NEW f \in Frames, AtRadio(f)' PROVE Written(f)' /\ ~InQueue(f)'
  <2>1. ~InQueue(f)'
    BY <1>1, <1>2, <1>3, <1>5 DEF FrameMoves
  <2>2. CASE AtRadio(f)
    BY <1>1, <1>2, <2>1, <2>2 DEF FrameMoves
  <2>3. CASE ~AtRadio(f)
    <3>1. PICK m \in Msgs : Transmits(m, tries[m])
      BY <1>5, <2>3, RadioCases, RadioTailFacts DEF AtRadio
    <3>2. f = <<m, tries[m]>>
      BY <1>5, <2>3, <3>1, TransmitFacts DEF AtRadio
    <3>3. f[1] = m /\ f[2] = tries[m] /\ tries'[m] = tries[m] + 1 /\ tries[m] \in Int
      BY <3>1, <3>2, TransmitFacts DEF TypeOK
    <3> QED
      BY <2>1, <3>3 DEF Written
  <2> QED
    BY <2>1, <2>2, <2>3
<1>6. ASSUME NEW i \in DOMAIN radio', NEW j \in DOMAIN radio', radio'[i] = radio'[j] PROVE i = j
  <2>1. CASE UNCHANGED radio
    BY <1>6, <2>1 DEF RadioInv
  <2>2. ASSUME NEW m \in Msgs, Transmits(m, tries[m]) PROVE i = j
    <3>1. \A k \in DOMAIN radio : radio[k] # <<m, tries[m]>>
      BY <2>2, TransmitFacts DEF RadioInv
    <3> QED
      BY <1>6, <2>2, <3>1, TransmitFacts DEF RadioInv
  <2>3. CASE radio # <<>> /\ radio' = Tail(radio)
    <3>1. i + 1 = j + 1
      BY <1>6, <2>3, RadioTailFacts DEF RadioInv
    <3>2. i \in Int /\ j \in Int
      BY TypeStep DEF TypeOK
    <3> QED
      BY <3>1, <3>2
  <2>4. CASE radio' = <<>>
    BY <2>4
  <2> QED
    BY <2>1, <2>2, <2>3, <2>4, RadioCases
<1> QED
  BY <1>4, <1>5, <1>6 DEF RadioInv, AtRadio

(* AnswerInv survives when what is new is written and was not in the queue.*)
LEMMA AnswerShift ==
  ASSUME TypeOK, AnswerInv, NEW d \in {0, 1}, NEW new, Moves(d, new),
         \A f : Written(f) => Written(f)',
         \A e \in new : e.what \in Answers /\ e.frame # NoAck
            => /\ Written(e.frame)
               /\ \A j \in DOMAIN looper : j > d /\ looper[j].what \in Answers
                    => looper[j].frame # e.frame
  PROVE  AnswerInv'
<1> DEFINE Old(i) == i + d > d /\ i + d \in DOMAIN looper /\ looper'[i] = looper[i + d]
           New(i) == i + d = Len(looper) + 1 /\ looper'[i] \in new
<1>1. \A i \in DOMAIN looper' : i \in Int /\ (Old(i) \/ New(i))
  BY DEF Moves
<1>2. ASSUME NEW i \in DOMAIN looper', looper'[i].what \in Answers, looper'[i].frame # NoAck
      PROVE  looper'[i].frame \in Frames /\ looper'[i].frame[2] < tries'[looper'[i].frame[1]]
  <2>1. PICK f : f = looper'[i].frame
    OBVIOUS
  <2>2. Written(f)
    BY <1>1, <1>2, <2>1 DEF AnswerInv
  <2>3. f \in Frames /\ f[2] < tries'[f[1]]
    BY <2>2 DEF Written
  <2> QED
    BY <2>1, <2>3
<1>3. ASSUME NEW i \in DOMAIN looper', NEW j \in DOMAIN looper',
             looper'[i].what \in Answers, looper'[j].what \in Answers,
             looper'[i].frame # NoAck, looper'[i].frame = looper'[j].frame
      PROVE  i = j
  <2>1. CASE Old(i) /\ Old(j)
    BY <1>1, <1>3, <2>1 DEF AnswerInv
  <2>2. CASE New(i) /\ New(j)
    <3>1. Len(looper) \in Int
      BY DEF TypeOK
    <3> QED
      BY <1>1, <2>2, <3>1
  <2> QED
    BY <1>1, <1>3, <2>1, <2>2
<1> QED
  BY <1>2, <1>3 DEF AnswerInv, Written

LEMMA AnswerStep ==
  ASSUME TypeOK, BusyInv, QueueInv, CountInv, RadioInv, AnswerInv, [Next]_vars
  PROVE  AnswerInv'
<1>1. \A f : Written(f) => Written(f)'
  BY TriesGrow
<1>2. CASE HandleFrameSent
  <2>1. /\ looper # <<>> /\ looper[1].what = "frame_sent" /\ 1 \in DOMAIN looper
        /\ Head(looper) = looper[1] /\ looper[1].frame \in Frames \cup {NoAck}
    BY <1>2, TakesFacts DEF HandleFrameSent, Hands
  <2>2. PICK f \in Frames \cup {NoAck} : f = looper[1].frame /\ (f # NoAck => Written(f))
    BY <2>1 DEF AnswerInv, Answers
  <2>3. Moves(1, {Event("rsp_sent", f)})
    BY <1>2, <2>1, <2>2, PostsMoves, EventFacts DEF HandleFrameSent, Hands, AckEvents
  <2>4. f # NoAck => \A j \in DOMAIN looper : j > 1 /\ looper[j].what \in Answers => looper[j].frame # f
    BY <2>1, <2>2 DEF AnswerInv, Answers
  <2> QED
    BY <1>1, <2>2, <2>3, <2>4, AnswerShift, EventParts
<1>3. CASE RadioAccepts
  <2>1. PICK f \in Frames : radio # <<>> /\ f = Head(radio) /\ f = radio[1] /\ 1 \in DOMAIN radio
    BY <1>3 DEF RadioAccepts, TypeOK
  <2>2. Moves(0, {Event("frame_sent", f)})
    BY <1>3, <2>1, ReceivesMoves, EventFacts DEF RadioAccepts, AckEvents
  <2>3. Written(f) /\ ~InQueue(f)
    BY <2>1 DEF RadioInv
  <2> QED
    BY <1>1, <2>2, <2>3, AnswerShift, EventParts DEF InQueue
<1>4. CASE ~HandleFrameSent /\ ~RadioAccepts
  BY <1>1, <1>4, NextMoves, AnswerShift
<1> QED
  BY <1>2, <1>3, <1>4

(* But for RSP_SENT no step lets an entry hold an ack code it did not hold.*)
HoldsNoMore ==
  \A m \in Msgs : entry'[m].gotSent =>
    /\ entry[m].gotSent /\ entry'[m].ack = entry[m].ack
    /\ m \in pending => m \in pending'

LEMMA HoldsNoMoreStep ==
  ASSUME TypeOK, BusyInv, QueueInv, CountInv, HeldInv, [Next]_vars, ~HandleRspSent
  PROVE  HoldsNoMore
<1> USE DEF HoldsNoMore
<1>1. CASE UNCHANGED <<place, entry>>
  BY <1>1 DEF pending
<1>2. ASSUME NEW m \in Msgs, Leaves(m) PROVE HoldsNoMore
  <2>1. ~entry'[m].gotSent
    BY <1>2 DEF Leaves, NewEntry, TypeOK
  <2> QED
    BY <1>2, <2>1, LeavesFacts
<1>3. CASE SendRefused \/ SendAccepted
  <2>1. Typed \in Msgs /\ place[Typed] = "typed" /\ entry[Typed] = NewEntry
    BY <1>3, TypedFacts DEF SendRefused, SendAccepted
  <2>2. \A m \in Msgs \ {Typed} : place'[m] = place[m] /\ entry'[m] = entry[m]
    BY <1>3, <2>1 DEF SendRefused, SendAccepted, TypeOK
  <2>3. ~entry'[Typed].gotSent
    <3>1. CASE UNCHANGED entry
      BY <2>1, <3>1 DEF NewEntry
    <3>2. CASE entry' = [entry EXCEPT ![Typed].attempt = 1]
      <4>1. entry' = [entry EXCEPT ![Typed] = [entry[Typed] EXCEPT !.attempt = 1]]
        BY <3>2
      <4>2. entry'[Typed] = [entry[Typed] EXCEPT !.attempt = 1]
        BY <2>1, <4>1 DEF TypeOK
      <4> QED
        BY <2>1, <4>2 DEF NewEntry
    <3> QED
      BY <1>3, <3>1, <3>2 DEF SendRefused, SendAccepted
  <2> QED
    BY <2>1, <2>2, <2>3 DEF pending
<1>4. CASE PostEnqueue \/ HandleEnqueue \/ \E m \in Msgs : UserSend(m)
  <2>1. entry' = entry /\ \A m \in Msgs : place[m] = "pending" => place'[m] = "pending"
    BY <1>4, EnqueueFacts DEF PostEnqueue, HandleEnqueue, UserSend, BusyInv, TypeOK
  <2> QED
    BY <2>1 DEF pending
<1>5. CASE HandleConfirmed
  BY <1>1, <1>2, <1>5 DEF HandleConfirmed, queueVars
<1>6. ASSUME NEW m \in Msgs, CheckNotDue(m) \/ CheckDue(m) PROVE HoldsNoMore
  <2>1. CASE CheckEntersGrace(m)
    <3>1. entry'[m].gotSent = entry[m].gotSent /\ entry'[m].ack = entry[m].ack
      BY <2>1 DEF CheckEntersGrace, TypeOK, Entries
    <3>2. place' = place /\ \A n \in Msgs \ {m} : entry'[n] = entry[n]
      BY <2>1 DEF CheckEntersGrace, TypeOK
    <3> QED
      BY <3>1, <3>2 DEF pending
  <2>2. CASE entry' = [entry EXCEPT ![m].attempt = @ + 1, ![m].gotSent = FALSE] /\ UNCHANGED place
    <3>1. ~entry'[m].gotSent /\ \A n \in Msgs \ {m} : entry'[n] = entry[n]
      BY <2>2 DEF TypeOK, Entries
    <3> QED
      BY <2>2, <3>1 DEF pending
  <2> QED
    BY <1>1, <1>2, <1>6, <2>1, <2>2
    DEF CheckNotDue, CheckDue, CheckGraceOver, CheckRetries, CheckForgets, Fails, queueVars
<1>7. ASSUME NEW m \in Msgs, DrainSends(m) PROVE HoldsNoMore
  <2>1. ~entry'[m].gotSent /\ \A n \in Msgs \ {m} : entry'[n] = entry[n]
    BY <1>7 DEF DrainSends, TypeOK, Entries
  <2> QED
    BY <1>7, <2>1 DEF DrainSends, Drains, pending
<1>8. CASE HandleCheck \/ EndCheck \/ HandleDrain \/ EndDrain \/ (\E m \in Msgs : DrainSkips(m)) \/ UNCHANGED vars
  BY <1>1, <1>8 DEF HandleCheck, EndCheck, HandleDrain, EndDrain, DrainSkips, Drains, vars, queueVars
<1>9. CASE Aside
  BY <1>1, <1>9, AsideFacts
<1> QED
  BY <1>3, <1>4, <1>5, <1>6, <1>7, <1>8, <1>9 DEF Next, Looper, Environment, Aside

(* What RSP_SENT does: the latest entry without an answer takes the code.  *)
LEMMA RspSentFacts ==
  ASSUME TypeOK, AnswerInv, HandleRspSent
  PROVE  \/ UNCHANGED <<place, entry>>
         \/ \E m \in Msgs, f \in Frames \cup {NoAck} :
              /\ place' = place /\ m \in pending
              /\ f # NoAck => Written(f) /\ InQueue(f)
              /\ looper[1].frame = f
              /\ entry'[m].gotSent /\ entry'[m].ack = f
              /\ \A n \in Msgs \ {m} : entry'[n] = entry[n]
<1>1. /\ looper # <<>> /\ looper[1].what = "rsp_sent" /\ 1 \in DOMAIN looper
      /\ Head(looper) = looper[1] /\ looper[1].frame \in Frames \cup {NoAck}
  BY TakesFacts DEF HandleRspSent
<1>2. PICK f \in Frames \cup {NoAck} : f = looper[1].frame /\ (f # NoAck => Written(f) /\ InQueue(f))
  BY <1>1 DEF AnswerInv, Answers, InQueue
<1>3. place' = place
  BY DEF HandleRspSent
<1>4. ASSUME NEW m \in Msgs, m \in pending,
             entry' = [entry EXCEPT ![m].gotSent = TRUE, ![m].ack = Head(looper).frame]
      PROVE  /\ entry'[m].gotSent /\ entry'[m].ack = f
             /\ \A n \in Msgs \ {m} : entry'[n] = entry[n]
  BY <1>1, <1>2, <1>4 DEF TypeOK, Entries
<1> QED
  BY <1>1, <1>2, <1>3, <1>4 DEF HandleRspSent, Unanswered, Last

LEMMA HeldStep ==
  ASSUME TypeOK, BusyInv, QueueInv, CountInv, RadioInv, AnswerInv, HeldInv, [Next]_vars
  PROVE  HeldInv'
<1> DEFINE Kept(f) == f # NoAck => Written(f) /\ ~AtRadio(f) /\ ~InQueue(f)
           KeptNext(f) == f # NoAck => Written(f)' /\ ~AtRadio(f)' /\ ~InQueue(f)'
<1>1. FrameMoves
  BY FrameStep
<1>2. ASSUME NEW f, Kept(f) PROVE KeptNext(f)
  BY <1>1, <1>2 DEF FrameMoves, Written
<1>3. ASSUME \A m \in Msgs : entry'[m].gotSent => m \in pending' /\ \E f : f = entry'[m].ack /\ KeptNext(f)
      PROVE  HeldInv'
  <2>1. ASSUME NEW m \in Msgs, entry'[m].gotSent, entry'[m].ack # NoAck
        PROVE  (Written(entry[m].ack) /\ ~AtRadio(entry[m].ack) /\ ~InQueue(entry[m].ack))'
    <3>1. PICK f : f = entry'[m].ack /\ KeptNext(f)
      BY <1>3, <2>1
    <3> QED
      BY <2>1, <3>1 DEF Written, AtRadio, InQueue
  <2> QED
    BY <1>3, <2>1 DEF HeldInv
<1> HIDE DEF KeptNext
<1>4. CASE ~HandleRspSent
  <2>1. HoldsNoMore
    BY <1>4, HoldsNoMoreStep
  <2>2. ASSUME NEW m \in Msgs, entry'[m].gotSent
        PROVE  m \in pending' /\ \E f : f = entry'[m].ack /\ KeptNext(f)
    <3>1. entry[m].gotSent /\ entry'[m].ack = entry[m].ack /\ (m \in pending => m \in pending')
      BY <2>1, <2>2 DEF HoldsNoMore
    <3>2. m \in pending /\ Kept(entry[m].ack)
      BY <3>1 DEF HeldInv
    <3> QED
      BY <1>2, <3>1, <3>2
  <2> QED
    BY <1>3, <2>2
<1>5. CASE HandleRspSent
  <2>1. \A m \in pending : m \in pending'
    BY <1>5 DEF HandleRspSent, pending
  <2>2. ASSUME NEW n \in Msgs, entry'[n].gotSent, entry'[n] = entry[n]
        PROVE  n \in pending' /\ \E f : f = entry'[n].ack /\ KeptNext(f)
    <3>1. n \in pending /\ Kept(entry[n].ack)
      BY <2>2 DEF HeldInv
    <3> QED
      BY <1>2, <2>1, <2>2, <3>1
  <2>3. CASE UNCHANGED <<place, entry>>
    BY <1>3, <2>2, <2>3
  <2>4. ASSUME NEW m \in Msgs, NEW f \in Frames \cup {NoAck},
               m \in pending, f # NoAck => Written(f) /\ InQueue(f), looper[1].frame = f,
               entry'[m].gotSent, entry'[m].ack = f,
               \A n \in Msgs \ {m} : entry'[n] = entry[n]
        PROVE  HeldInv'
    <3>1. /\ looper # <<>> /\ looper[1].what = "rsp_sent" /\ 1 \in DOMAIN looper
          /\ \A j \in DOMAIN looper : j = 1 \/ j > 1
      BY <1>5, TakesFacts DEF HandleRspSent
    <3>2. Moves(1, {})
      BY <1>5, <3>1, DoneMoves DEF HandleRspSent
    <3>3. f # NoAck => \A j \in DOMAIN looper : j > 1 /\ looper[j].what \in Answers => looper[j].frame # f
      BY <2>4, <3>1 DEF AnswerInv, Answers
    <3>4. f # NoAck => ~InQueue(f)'
      BY <3>2, <3>3 DEF InQueue, Moves
    <3>5. f # NoAck => ~AtRadio(f)' /\ Written(f)'
      <4>1. f # NoAck => ~AtRadio(f)
        BY <2>4 DEF AtRadio, RadioInv
      <4> QED
        BY <1>1, <2>4, <4>1 DEF FrameMoves
    <3>6. m \in pending' /\ f = entry'[m].ack /\ KeptNext(f)
      BY <2>1, <2>4, <3>4, <3>5 DEF KeptNext
    <3> QED
      BY <1>3, <2>2, <2>4, <3>6
  <2> QED
    BY <1>5, <2>3, <2>4, RspSentFacts
<1> QED
  BY <1>4, <1>5

LEMMA OneAckStep ==
  ASSUME TypeOK, BusyInv, QueueInv, CountInv, RadioInv, AnswerInv, HeldInv, OneAckOneEntry,
         [Next]_vars
  PROVE  OneAckOneEntry'
<1>1. CASE ~HandleRspSent
  <2>1. HoldsNoMore
    BY <1>1, HoldsNoMoreStep
  <2>2. \A m \in pending' : m \in Msgs
    BY DEF pending
  <2>3. \A m \in Msgs : entry'[m].gotSent => m \in pending
    BY <2>1 DEF HoldsNoMore, HeldInv
  <2> QED
    BY <2>1, <2>2, <2>3 DEF HoldsNoMore, OneAckOneEntry
<1>2. CASE HandleRspSent
  <2>1. pending' = pending /\ pending \subseteq Msgs
    BY <1>2 DEF HandleRspSent, pending
  <2>2. CASE UNCHANGED <<place, entry>>
    BY <2>1, <2>2 DEF OneAckOneEntry
  <2>3. ASSUME NEW m \in Msgs, NEW f \in Frames \cup {NoAck},
               f # NoAck => InQueue(f), entry'[m].gotSent, entry'[m].ack = f,
               \A n \in Msgs \ {m} : entry'[n] = entry[n]
        PROVE  OneAckOneEntry'
    <3>1. f # NoAck => \A n \in Msgs : entry[n].gotSent => entry[n].ack # f
      BY <2>3 DEF HeldInv
    <3> QED
      BY <2>1, <2>3, <3>1 DEF OneAckOneEntry
  <2> QED
    BY <1>2, <2>2, <2>3, RspSentFacts
<1> QED
  BY <1>1, <1>2

-----------------------------------------------------------------------------
(* The order of a message's ENQUEUE and its answer.                        *)

(* OrderInv survives when no message becomes sending or posted, the        *)
(* ENQUEUE of a message that stays posted is not taken, and a new RSP_SENT *)
(* is for a message the looper has finished sending.                       *)
LEMMA OrderShift ==
  ASSUME TypeOK, AnswerInv, OrderInv, NEW d \in {0, 1}, NEW new, Moves(d, new),
         \A m \in Msgs : place'[m] = "posted"
            => place[m] = "posted" /\ (\A k \in DOMAIN looper : EnqueueOf(m, k) => k > d),
         \A j \in DOMAIN looper :
            looper[j].what = "rsp_sent" /\ looper[j].frame # NoAck /\ place'[looper[j].frame[1]] = "sending"
            => place[looper[j].frame[1]] = "sending",
         \A e \in new : e.what = "rsp_sent" /\ e.frame # NoAck => e.frame[1] \in Msgs /\ place'[e.frame[1]] # "sending"
  PROVE  OrderInv'
<1> DEFINE Old(i) == i + d > d /\ i + d \in DOMAIN looper /\ looper'[i] = looper[i + d]
           New(i) == i + d = Len(looper) + 1 /\ looper'[i] \in new
<1>1. \A i \in DOMAIN looper' : i \in Int /\ (Old(i) \/ New(i))
  BY DEF Moves
<1>2. DOMAIN looper = 1 .. Len(looper) /\ Len(looper) \in Nat
  BY DEF TypeOK
<1>3. ASSUME NEW m \in Msgs, place'[m] = "posted", NEW k \in DOMAIN looper, EnqueueOf(m, k)
      PROVE  k - d \in DOMAIN looper' /\ looper'[k - d] = looper[k]
  BY <1>3 DEF Moves
<1>4. ASSUME NEW m \in Msgs, place'[m] = "posted"
      PROVE  \E k \in DOMAIN looper' : looper'[k].what = "enqueue" /\ looper'[k].frame[1] = m
  <2>1. PICK k \in DOMAIN looper : EnqueueOf(m, k)
    BY <1>4 DEF OrderInv
  <2> QED
    BY <1>3, <1>4, <2>1 DEF EnqueueOf
<1>5. ASSUME NEW j \in DOMAIN looper', NEW m, m = looper'[j].frame[1], looper'[j].what = "rsp_sent",
             looper'[j].frame # NoAck
      PROVE  /\ place'[m] # "sending"
             /\ place'[m] = "posted" =>
                  \E k \in DOMAIN looper' : k < j /\ looper'[k].what = "enqueue" /\ looper'[k].frame[1] = m
  <2>1. CASE Old(j)
    <3>1. m \in Msgs
      BY <1>5, <2>1 DEF AnswerInv, Answers, Written, Frames
    <3>2. place'[m] # "sending"
      BY <1>5, <2>1 DEF OrderInv
    <3>3. ASSUME place'[m] = "posted"
          PROVE  \E k \in DOMAIN looper' : k < j /\ looper'[k].what = "enqueue" /\ looper'[k].frame[1] = m
      <4>1. PICK k \in DOMAIN looper : k < j + d /\ EnqueueOf(m, k)
        BY <1>5, <2>1, <3>1, <3>3 DEF OrderInv
      <4>2. k - d \in DOMAIN looper' /\ looper'[k - d] = looper[k]
        BY <1>3, <3>1, <3>3, <4>1
      <4>3. k - d < j
        BY <1>1, <1>2, <4>1
      <4> QED
        BY <4>1, <4>2, <4>3 DEF EnqueueOf
    <3> QED
      BY <3>2, <3>3
  <2>2. CASE New(j)
    <3>1. m \in Msgs /\ place'[m] # "sending"
      BY <1>5, <2>2
    <3>2. ASSUME place'[m] = "posted"
          PROVE  \E k \in DOMAIN looper' : k < j /\ looper'[k].what = "enqueue" /\ looper'[k].frame[1] = m
      <4>1. PICK k \in DOMAIN looper : EnqueueOf(m, k)
        BY <3>1, <3>2 DEF OrderInv
      <4>2. k - d \in DOMAIN looper' /\ looper'[k - d] = looper[k]
        BY <1>3, <3>1, <3>2, <4>1
      <4>3. k - d < j
        BY <1>1, <1>2, <2>2, <4>1
      <4> QED
        BY <4>1, <4>2, <4>3 DEF EnqueueOf
    <3> QED
      BY <3>1, <3>2
  <2> QED
    BY <1>1, <2>1, <2>2
<1> QED
  BY <1>4, <1>5 DEF OrderInv, EnqueueOf

LEMMA OrderStep ==
  ASSUME TypeOK, BusyInv, QueueInv, CountInv, AnswerInv, OrderInv, [Next]_vars
  PROVE  OrderInv'
<1>1. \A j \in DOMAIN looper : looper[j].what \in Answers /\ looper[j].frame # NoAck
        => looper[j].frame[1] \in Msgs /\ tries[looper[j].frame[1]] > 0
  BY DEF AnswerInv, Written, Frames, TypeOK
<1>2. CASE Plain
  <2>1. \A m \in Msgs : place'[m] \in {"posted", "sending"} => place[m] = place'[m]
    BY <1>2, PlainPlaces
  <2>2. CASE HandleFrameSent
    <3>1. /\ looper # <<>> /\ looper[1].what = "frame_sent" /\ Head(looper) = looper[1]
          /\ 1 \in DOMAIN looper /\ \A k \in DOMAIN looper : k = 1 \/ k > 1
          /\ looper[1].frame \in Frames \cup {NoAck} /\ busy = Idle
      BY <2>2, TakesFacts DEF HandleFrameSent, Hands, Takes
    <3>2. PICK f : f = looper[1].frame
      OBVIOUS
    <3>3. Moves(1, {Event("rsp_sent", f)})
      BY <2>2, <3>1, <3>2, PostsMoves, EventFacts DEF HandleFrameSent, Hands, AckEvents
    <3>4. f # NoAck => f[1] \in Msgs
      BY <1>1, <3>1, <3>2 DEF Answers
    <3>5. f # NoAck => place'[f[1]] # "sending"
      BY <2>1, <3>1, <3>4 DEF BusyInv, Idle, Scan
    <3>6. \A m : \A k \in DOMAIN looper : EnqueueOf(m, k) => k > 1
      BY <3>1 DEF EnqueueOf
    <3>7. \A j \in DOMAIN looper : looper[j].what = "rsp_sent" /\ looper[j].frame # NoAck => looper[j].frame[1] \in Msgs
      BY <1>1 DEF Answers
    <3> QED
      BY <2>1, <3>3, <3>4, <3>5, <3>6, <3>7, OrderShift, EventParts
  <2>3. CASE ~HandleFrameSent
    <3>1. PICK d \in {0, 1} : \E new :
            /\ Moves(d, new)
            /\ d = 1 => looper[1].what # "enqueue"
            /\ \A e \in new : e.what # "rsp_sent"
      <4>1. CASE RadioAccepts
        <5>1. Head(radio) \in Frames
          BY <4>1 DEF RadioAccepts, TypeOK
        <5>2. Moves(0, {Event("frame_sent", Head(radio))})
          BY <4>1, <5>1, ReceivesMoves, EventFacts DEF RadioAccepts, AckEvents
        <5>3. Event("frame_sent", Head(radio)).what # "rsp_sent"
          BY EventParts
        <5> QED
          BY <5>2, <5>3
      <4>2. CASE ~RadioAccepts
        BY <1>2, <2>3, <4>2, PlainMoves DEF PlainNew
      <4> QED
        BY <4>1, <4>2
    <3>2. \A m : \A k \in DOMAIN looper : EnqueueOf(m, k) => k > d
      <4>1. \A k \in DOMAIN looper : k \in Int /\ (k = 1 \/ k > 1)
        BY DEF TypeOK
      <4> QED
        BY <3>1, <4>1 DEF EnqueueOf
    <3>3. \A j \in DOMAIN looper : looper[j].what = "rsp_sent" /\ looper[j].frame # NoAck => looper[j].frame[1] \in Msgs
      BY <1>1 DEF Answers
    <3> QED
      BY <2>1, <3>1, <3>2, <3>3, OrderShift
  <2> QED
    BY <2>2, <2>3
<1>3. CASE SendRefused \/ SendAccepted
  <2>1. /\ Takes("send") /\ Moves(1, {}) /\ Typed \in Msgs /\ place[Typed] = "typed"
        /\ tries[Typed] = 0
    BY <1>3, DoneMoves, TakesFacts, TypedFacts DEF SendRefused, SendAccepted
  <2>2. /\ \A m \in Msgs \ {Typed} : place'[m] = place[m]
        /\ place'[Typed] \in {"refused", "sending"}
    BY <1>3, <2>1 DEF SendRefused, SendAccepted, TypeOK
  <2>3. \A j \in DOMAIN looper : looper[j].what = "rsp_sent" /\ looper[j].frame # NoAck
          => looper[j].frame[1] \in Msgs /\ looper[j].frame[1] # Typed
    BY <1>1, <2>1 DEF Answers
  <2>4. \A m : \A k \in DOMAIN looper : EnqueueOf(m, k) => k > 1
    BY <2>1, TakesFacts DEF EnqueueOf
  <2> QED
    BY <2>1, <2>2, <2>3, <2>4, OrderShift
<1>4. CASE HandleEnqueue
  <2> DEFINE h == Head(looper).frame[1]
  <2>1. Takes("enqueue") /\ Moves(1, {}) /\ h \in Msgs /\ place[h] = "posted"
    BY <1>4, DoneMoves, TakesFacts, EnqueueFacts DEF HandleEnqueue
  <2>2. place'[h] = "pending" /\ \A m \in Msgs \ {h} : place'[m] = place[m]
    BY <1>4, <2>1 DEF HandleEnqueue, TypeOK
  <2>3. \A m \in Msgs \ {h} : \A k \in DOMAIN looper : EnqueueOf(m, k) => k > 1
    BY <2>1, TakesFacts DEF EnqueueOf
  <2>4. \A j \in DOMAIN looper : looper[j].what = "rsp_sent" /\ looper[j].frame # NoAck => looper[j].frame[1] \in Msgs
    BY <1>1 DEF Answers
  <2> HIDE DEF h
  <2> QED
    BY <2>1, <2>2, <2>3, <2>4, OrderShift
<1>5. CASE PostEnqueue
  <2>1. PICK b \in Msgs : b = busy.at /\ place[b] = "sending"
    BY <1>5 DEF PostEnqueue, BusyInv
  <2>2. place'[b] = "posted" /\ \A m \in Msgs \ {b} : place'[m] = place[m]
    BY <1>5, <2>1 DEF PostEnqueue, TypeOK
  <2>3. looper' = Append(looper, Event("enqueue", <<b, 0>>)) /\ Event("enqueue", <<b, 0>>) \in Events
    BY <1>5, <2>1, EventFacts, FrameFacts DEF PostEnqueue, Receives, MsgEvents
  <2>4. PICK e \in Events : e = Event("enqueue", <<b, 0>>)
    BY <2>3
  <2>5. e.what = "enqueue" /\ e.frame[1] = b
    BY <2>4, EventParts
  <2>6. /\ DOMAIN looper' = 1 .. Len(looper) + 1 /\ looper'[Len(looper) + 1] = e
        /\ \A i \in DOMAIN looper : i \in DOMAIN looper' /\ looper'[i] = looper[i]
        /\ DOMAIN looper = 1 .. Len(looper) /\ Len(looper) \in Nat
    BY <2>3, <2>4, AppendFacts DEF TypeOK
  <2>7. ASSUME NEW m \in Msgs, place'[m] = "posted"
        PROVE  \E k \in DOMAIN looper' : looper'[k].what = "enqueue" /\ looper'[k].frame[1] = m
    <3>1. CASE m = b
      BY <2>5, <2>6, <3>1
    <3>2. CASE m # b
      <4>1. PICK k \in DOMAIN looper : EnqueueOf(m, k)
        BY <2>2, <2>7, <3>2 DEF OrderInv
      <4> QED
        BY <2>6, <4>1 DEF EnqueueOf
    <3> QED
      BY <3>1, <3>2
  <2>8. ASSUME NEW j \in DOMAIN looper', looper'[j].what = "rsp_sent", looper'[j].frame # NoAck,
               NEW m, m = looper'[j].frame[1]
        PROVE  /\ place'[m] # "sending"
               /\ place'[m] = "posted" =>
                    \E k \in DOMAIN looper' : k < j /\ looper'[k].what = "enqueue" /\ looper'[k].frame[1] = m
    <3>1. j \in DOMAIN looper /\ looper'[j] = looper[j]
      BY <2>5, <2>6, <2>8
    <3>2. m \in Msgs /\ m # b /\ place'[m] = place[m]
      BY <1>1, <2>1, <2>2, <2>8, <3>1 DEF OrderInv, Answers
    <3>3. /\ place[m] # "sending"
          /\ place[m] = "posted" => \E k \in DOMAIN looper : k < j /\ EnqueueOf(m, k)
      BY <2>8, <3>1 DEF OrderInv
    <3> QED
      BY <2>6, <3>2, <3>3 DEF EnqueueOf
  <2> QED
    BY <2>7, <2>8 DEF OrderInv, EnqueueOf
<1>6. ASSUME NEW u \in Msgs, UserSend(u) PROVE OrderInv'
  <2>1. Event("send", <<u, 0>>) \in Events
    BY EventFacts, FrameFacts DEF MsgEvents
  <2>2. Moves(0, {Event("send", <<u, 0>>)})
    BY <1>6, <2>1, ReceivesMoves DEF UserSend
  <2>3. place'[u] = "typed" /\ \A m \in Msgs \ {u} : place'[m] = place[m]
    BY <1>6 DEF UserSend, TypeOK
  <2>4. \A j \in DOMAIN looper : looper[j].what = "rsp_sent" /\ looper[j].frame # NoAck => looper[j].frame[1] \in Msgs
    BY <1>1 DEF Answers
  <2>5. Event("send", <<u, 0>>).what # "rsp_sent"
    BY EventParts
  <2>6. \A m : \A k \in DOMAIN looper : EnqueueOf(m, k) => k > 0
    BY DEF TypeOK
  <2> QED
    BY <2>2, <2>3, <2>4, <2>5, <2>6, OrderShift
<1> QED
  BY <1>2, <1>3, <1>4, <1>5, <1>6, NextCases

-----------------------------------------------------------------------------
(* The theorems.                                                           *)

LEMMA NextIInv == IInv /\ [Next]_vars => IInv'
<1> SUFFICES ASSUME IInv, [Next]_vars PROVE IInv'
  OBVIOUS
<1>1. /\ TypeOK /\ BusyInv /\ QueueInv /\ CountInv /\ StatusInv
      /\ RadioInv /\ AnswerInv /\ HeldInv /\ OneAckOneEntry /\ OrderInv
  BY DEF IInv, CoreInv, FrameInv
<1>2. TypeOK' /\ BusyInv' /\ QueueInv' /\ CountInv' /\ StatusInv'
  BY <1>1, TypeStep, BusyStep, QueueStep, CountStep, StatusStep
<1>3. RadioInv' /\ AnswerInv' /\ HeldInv' /\ OneAckOneEntry'
  BY <1>1, RadioStep, AnswerStep, HeldStep, OneAckStep
<1>4. OrderInv'
  BY <1>1, OrderStep
<1> QED
  BY <1>2, <1>3, <1>4 DEF IInv, CoreInv, FrameInv

(* The inductive invariant of the queue: where every message is between    *)
(* MainWindow, DeliveryManager and the radio, and what its entry says.     *)
THEOREM Inductive == Spec => []IInv
  BY InitIInv, NextIInv, PTL DEF Spec

(* Every variable keeps its type, whatever happens around the looper: the  *)
(* counters stay in their ranges and no entry counts more attempts than    *)
(* kMaxRetryAttempts.                                                      *)
THEOREM TypeCorrect == Spec => []TypeOK
<1>1. IInv => TypeOK
  BY DEF IInv, CoreInv
<1> QED
  BY <1>1, Inductive, PTL

(* An ack code is held by one entry of fPendingMessages only, so a         *)
(* confirmation settles at most one of them.                               *)
THEOREM AckSettlesOne == Spec => []OneAckOneEntry
<1>1. IInv => OneAckOneEntry
  BY DEF IInv, FrameInv
<1> QED
  BY <1>1, Inductive, PTL

(* DeliveryManager sees the ENQUEUE of a message before its RSP_SENT,      *)
(* though the frame is written before the ENQUEUE is posted.               *)
THEOREM AnswersFollowEnqueues == Spec => []AnswerAfterEnqueue
<1>1. IInv => AnswerAfterEnqueue
  <2> SUFFICES ASSUME IInv, looper # <<>>, Head(looper).what = "rsp_sent", Head(looper).frame # NoAck
               PROVE  place[Head(looper).frame[1]] \in {"pending", "gone"}
    BY DEF AnswerAfterEnqueue
  <2> USE DEF IInv, CoreInv, FrameInv
  <2>1. /\ 1 \in DOMAIN looper /\ looper[1].what = "rsp_sent" /\ Head(looper) = looper[1]
        /\ \A k \in DOMAIN looper : ~(k < 1)
    BY DEF TypeOK
  <2>2. PICK f : f = looper[1].frame
    OBVIOUS
  <2>3. Written(f)
    BY <2>1, <2>2 DEF AnswerInv, Answers
  <2>4. f[1] \in Msgs /\ tries[f[1]] > 0
    BY <2>3 DEF Written, Frames, TypeOK
  <2>5. place[f[1]] # "sending" /\ place[f[1]] # "posted"
    BY <2>1, <2>2 DEF OrderInv
  <2>6. place[f[1]] \notin {"new", "typed", "refused"}
    BY <2>4 DEF CountInv
  <2>7. place[f[1]] \in Places
    BY <2>4 DEF TypeOK
  <2> QED
    BY <2>1, <2>2, <2>5, <2>6, <2>7 DEF Places
<1> QED
  BY <1>1, Inductive, PTL

(* What a step may write: one frame, of a message that has no verdict.     *)
LEMMA WriteFacts ==
  ASSUME IInv, [Next]_vars, NEW m \in Msgs, tries'[m] # tries[m]
  PROVE  Transmits(m, tries[m]) /\ tries'[m] = tries[m] + 1
<1>1. TypeOK /\ BusyInv /\ QueueInv /\ CountInv
  BY DEF IInv, CoreInv
<1>2. PICK n \in Msgs : Transmits(n, tries[n])
  BY <1>1, RadioCases
<1>3. n = m
  BY <1>1, <1>2, TransmitFacts
<1> QED
  BY <1>1, <1>2, <1>3, TransmitFacts

(* The attempt byte of every frame is the number of frames of its message  *)
(* written before, whatever path (first send, outbox, retry) writes it.    *)
THEOREM AttemptBytesCount == Spec => AttemptBytes
<1>1. IInv /\ IInv' /\ [Next]_vars =>
        [\A m \in Msgs : tries'[m] # tries[m] =>
           /\ tries'[m] = tries[m] + 1
           /\ tries'[m] <= MaxAttempts
           /\ radio' = Append(radio, <<m, tries[m]>>)]_vars
  <2> SUFFICES ASSUME IInv, IInv', [Next]_vars, NEW m \in Msgs, tries'[m] # tries[m]
               PROVE  /\ tries'[m] = tries[m] + 1
                      /\ tries'[m] <= MaxAttempts
                      /\ radio' = Append(radio, <<m, tries[m]>>)
    OBVIOUS
  <2>1. tries'[m] \in 0 .. MaxAttempts
    BY DEF IInv, CoreInv, TypeOK
  <2> QED
    BY <2>1, WriteFacts DEF Transmits
<1> QED
  BY <1>1, Inductive, PTL DEF Spec, AttemptBytes

(* A message that was reported confirmed or failed stays so and is not     *)
(* written again.                                                          *)
LEMMA VerdictStep ==
  ASSUME IInv, [Next]_vars, NEW m \in Msgs, place[m] = "gone"
  PROVE  status'[m] = status[m] /\ tries'[m] = tries[m] /\ place'[m] = "gone"
<1>1. TypeOK /\ BusyInv /\ QueueInv /\ CountInv
  BY DEF IInv, CoreInv
<1>2. CASE Plain
  <2>1. place'[m] = "gone"
    BY <1>1, <1>2, PlainPlaces
  <2>2. status'[m] = status[m] /\ tries'[m] = tries[m]
    <3>1. CASE Aside \/ UNCHANGED vars
      BY <3>1, AsideFacts DEF vars, queueVars, radioVars
    <3>2. CASE HandleRspSent \/ HandleCheck \/ EndCheck \/ HandleDrain \/ EndDrain
      BY <3>2 DEF HandleRspSent, HandleCheck, EndCheck, HandleDrain, EndDrain, queueVars, radioVars
    <3>3. CASE HandleConfirmed
      BY <1>1, <3>3 DEF HandleConfirmed, Awaiting, Last, pending, TypeOK, queueVars, radioVars
    <3>4. ASSUME NEW n \in Msgs, CheckNotDue(n) \/ CheckDue(n)
          PROVE  status'[m] = status[m] /\ tries'[m] = tries[m]
      <4>1. n # m
        BY <1>1, <3>4, CheckOutcome, CheckFacts
      <4>2. UNCHANGED status \/ \E s : status' = [status EXCEPT ![n] = s]
        BY <3>4 DEF CheckNotDue, CheckDue, CheckGraceOver, CheckEntersGrace, CheckRetries, CheckForgets,
                    Fails, queueVars
      <4>3. UNCHANGED tries \/ tries' = [tries EXCEPT ![n] = @ + 1]
        BY <3>4 DEF CheckNotDue, CheckDue, CheckGraceOver, CheckEntersGrace, CheckRetries, CheckForgets,
                    Transmits, NotTransmitted
      <4> QED
        BY <1>1, <4>1, <4>2, <4>3 DEF TypeOK
    <3>5. ASSUME NEW n \in Msgs, DrainSkips(n) \/ DrainSends(n)
          PROVE  status'[m] = status[m] /\ tries'[m] = tries[m]
      <4>1. n # m
        BY <1>1, <3>5, DrainFacts DEF DrainSkips, DrainSends
      <4>2. UNCHANGED status /\ (UNCHANGED tries \/ tries' = [tries EXCEPT ![n] = @ + 1])
        BY <3>5 DEF DrainSkips, DrainSends, Drains, Transmits
      <4> QED
        BY <1>1, <4>1, <4>2 DEF TypeOK
    <3> QED
      BY <1>2, <3>1, <3>2, <3>3, <3>4, <3>5 DEF Plain
  <2> QED
    BY <2>1, <2>2
<1>3. CASE SendRefused \/ SendAccepted
  <2>1. Typed \in Msgs /\ Typed # m
    BY <1>1, <1>3, TypedFacts DEF SendRefused, SendAccepted
  <2>2. status' = status /\ (UNCHANGED tries \/ tries' = [tries EXCEPT ![Typed] = @ + 1])
    BY <1>3 DEF SendRefused, SendAccepted, Transmits, NotTransmitted, radioVars
  <2>3. UNCHANGED place \/ \E p : place' = [place EXCEPT ![Typed] = p]
    BY <1>3 DEF SendRefused, SendAccepted
  <2> QED
    BY <1>1, <2>1, <2>2, <2>3 DEF TypeOK
<1>4. CASE PostEnqueue
  BY <1>1, <1>4 DEF PostEnqueue, BusyInv, TypeOK, radioVars
<1>5. CASE HandleEnqueue
  BY <1>1, <1>5, EnqueueFacts DEF HandleEnqueue, TypeOK, radioVars
<1>6. CASE \E n \in Msgs : UserSend(n)
  BY <1>1, <1>6 DEF UserSend, TypeOK, radioVars
<1> QED
  BY <1>2, <1>3, <1>4, <1>5, <1>6, NextCases

(* A message that was confirmed or failed keeps that status, whatever      *)
(* answers, retries, disconnects and drains follow (_FailMessage and the   *)
(* SEND_CONFIRMED handler remove the entry for good).                      *)
THEOREM VerdictIsFinal == Spec => OneVerdict
<1>1. IInv /\ [Next]_vars =>
        [\A m \in Msgs : status[m] \in {"confirmed", "failed"}
           => status'[m] = status[m] /\ tries'[m] = tries[m]]_vars
  BY VerdictStep DEF IInv, CoreInv, StatusInv
<1> QED
  BY <1>1, Inductive, PTL DEF Spec, OneVerdict

-----------------------------------------------------------------------------
(* The queue implements DeliveryPromise while the port stays open and      *)
(* write() does not fail: then no live message is still to be sent.        *)

Live == {"sending", "posted", "pending"}
WentOut == link /\ \A m \in Msgs : place[m] \in Live => tries[m] > 0

LEMMA WentOutStep ==
  ASSUME Hazards \subseteq {"resync", "other_request"}, IInv, WentOut, [Next]_vars
  PROVE  WentOut'
<1>1. /\ TypeOK /\ BusyInv /\ QueueInv /\ CountInv /\ WrittenStays /\ TypeOK'
      /\ "disconnect" \notin Hazards /\ "write_error" \notin Hazards
  BY TypeStep, TriesGrow DEF IInv, CoreInv
<1>2. link'
  <2>1. CASE Aside
    BY <1>1, <2>1 DEF WentOut, Aside, HandleFrameSent, HandleFrameConfirmed, HandleDisconnected,
         HandleContactsStart, HandleContactsEnd, HandleStop, TimerTick, RadioAccepts, OtherAnswer, RadioRejects,
         PeerAcks, Disconnect, Reconnect, SyncStarts, SyncEnds, Hands, linkVars
  <2>2. CASE UNCHANGED link
    BY <2>2 DEF WentOut
  <2>3. ASSUME NEW m \in Msgs, \/ CheckNotDue(m) \/ CheckDue(m) \/ DrainSkips(m) \/ DrainSends(m)
                               \/ UserSend(m)
        PROVE  UNCHANGED link
    BY <2>3, CheckOutcome, <1>1 DEF Checks, DrainSkips, DrainSends, Drains, UserSend, linkVars
  <2> QED
    BY <2>1, <2>2, <2>3, NextCases
    DEF Plain, SendRefused, SendAccepted, PostEnqueue, HandleEnqueue, HandleRspSent, HandleConfirmed,
        HandleCheck, EndCheck, HandleDrain, EndDrain, linkVars, vars
<1>3. ASSUME NEW m \in Msgs, place'[m] \in Live PROVE tries'[m] > 0
  <2>1. CASE place[m] \in Live
    BY <1>1, <2>1 DEF WentOut, WrittenStays, TypeOK
  <2>2. CASE Plain
    BY <1>1, <2>1, <2>2, <1>3, PlainPlaces DEF Live
  <2>3. CASE SendRefused \/ SendAccepted
    <3>1. Typed \in Msgs /\ tries[Typed] = 0 /\ \A n \in Msgs \ {Typed} : place'[n] = place[n]
      BY <1>1, <2>3, TypedFacts DEF SendRefused, SendAccepted, TypeOK
    <3>2. CASE SendRefused
      BY <1>1, <1>3, <2>1, <3>1, <3>2 DEF SendRefused, Live, TypeOK
    <3>3. CASE SendAccepted
      <4>1. Transmits(Typed, 0)
        BY <1>1, <3>3 DEF SendAccepted, NotTransmitted, WentOut
      <4>2. tries'[Typed] = 1
        BY <1>1, <3>1, <4>1 DEF Transmits, TypeOK
      <4> QED
        BY <1>3, <2>1, <3>1, <4>2
    <3> QED
      BY <2>3, <3>2, <3>3
  <2>4. CASE PostEnqueue
    BY <1>1, <1>3, <2>1, <2>4 DEF PostEnqueue, BusyInv, Live, TypeOK
  <2>5. CASE HandleEnqueue
    BY <1>1, <1>3, <2>1, <2>5, EnqueueFacts DEF HandleEnqueue, Live, TypeOK
  <2>6. CASE \E u \in Msgs : UserSend(u)
    BY <1>1, <1>3, <2>1, <2>6 DEF UserSend, Live, TypeOK
  <2> QED
    BY <2>2, <2>3, <2>4, <2>5, <2>6, NextCases
<1> QED
  BY <1>2, <1>3 DEF WentOut

(* The fate of a message, read off its place.                              *)
Verdict(m) == IF status[m] \in {"confirmed", "failed"} THEN status[m] ELSE "forgotten"

LEMMA FateNow ==
  ASSUME CountInv, WentOut, TypeOK, NEW m \in Msgs
  PROVE  /\ place[m] \in {"new", "typed"} => Fate(m) = "new"
         /\ place[m] = "refused" => Fate(m) = "refused"
         /\ place[m] \in Live => Fate(m) = "onair"
         /\ place[m] = "gone" => Fate(m) = Verdict(m)
<1>1. CASE place[m] \in Live
  <2>1. entry[m].attempt # 0
    BY <1>1 DEF CountInv, WentOut, TypeOK, Live
  <2> QED
    BY <1>1, <2>1 DEF Fate, Live
<1>2. CASE place[m] \notin Live
  BY <1>2 DEF Fate, Verdict, Live
<1> QED
  BY <1>1, <1>2

LEMMA FateNext ==
  ASSUME CountInv', WentOut', TypeOK', NEW m \in Msgs
  PROVE  /\ place'[m] \in {"new", "typed"} => Fate(m)' = "new"
         /\ place'[m] = "refused" => Fate(m)' = "refused"
         /\ place'[m] \in Live => Fate(m)' = "onair"
         /\ place'[m] = "gone" => Fate(m)' = Verdict(m)'
<1>1. CASE place'[m] \in Live
  <2>1. entry'[m].attempt # 0
    BY <1>1 DEF CountInv, WentOut, TypeOK, Live
  <2> QED
    BY <1>1, <2>1 DEF Fate, Live
<1>2. CASE place'[m] \notin Live
  BY <1>2 DEF Fate, Verdict, Live
<1> QED
  BY <1>1, <1>2

(* A step keeps every fate, or changes the fate or the count of one        *)
(* message in one of the ways the promise allows.                          *)
LEMMA FateStep ==
  ASSUME Hazards \subseteq {"resync", "other_request"}, IInv, WentOut, [Next]_vars
  PROVE  \/ tries' = tries /\ \A m \in Msgs : Fate(m)' = Fate(m)
         \/ \E m \in Msgs :
              /\ \A n \in Msgs \ {m} : Fate(n)' = Fate(n)
              /\ \/ Fate(m) = "new" /\ Fate(m)' = "refused" /\ tries' = tries
                 \/ /\ \/ Fate(m) = "new" /\ tries[m] = 0
                       \/ Fate(m) = "onair" /\ tries[m] \in 1 .. MaxAttempts - 1
                    /\ Fate(m)' = "onair" /\ tries' = [tries EXCEPT ![m] = @ + 1]
                 \/ /\ Fate(m) = "onair" /\ tries' = tries
                    /\ Fate(m)' \in {"confirmed", "failed", "forgotten"}
<1>1. /\ TypeOK /\ BusyInv /\ QueueInv /\ CountInv
      /\ TypeOK' /\ CountInv' /\ WentOut'
      /\ "write_error" \notin Hazards /\ link
  BY NextIInv, WentOutStep DEF IInv, CoreInv, WentOut
<1>2. \A m \in Msgs : place[m] = "gone" => place'[m] = "gone" /\ status'[m] = status[m]
  BY VerdictStep
<1>3. ASSUME NEW m \in Msgs,
             \/ place'[m] = place[m]
             \/ place[m] \in Live /\ place'[m] \in Live
             \/ place[m] \in {"new", "typed"} /\ place'[m] \in {"new", "typed"}
      PROVE  Fate(m)' = Fate(m)
  <2>1. place[m] \in Places
    BY <1>1 DEF TypeOK
  <2>2. place[m] = "gone" => Verdict(m)' = Verdict(m)
    BY <1>2 DEF Verdict
  <2> QED
    BY <1>1, <1>2, <1>3, <2>1, <2>2, FateNow, FateNext DEF Places, Live
<1>4. CASE Plain
  <2>1. CASE place' = place /\ tries' = tries
    BY <1>3, <2>1
  <2>2. ASSUME NEW m \in Msgs, place[m] = "pending", place' = place, Transmits(m, tries[m])
        PROVE  /\ \A n \in Msgs : Fate(n)' = Fate(n)
               /\ Fate(m) = "onair" /\ tries[m] \in 1 .. MaxAttempts - 1
               /\ tries' = [tries EXCEPT ![m] = @ + 1]
    <3>1. \A n \in Msgs : Fate(n)' = Fate(n)
      BY <1>3, <2>2
    <3>2. Fate(m) = "onair" /\ tries[m] > 0
      BY <1>1, <2>2, FateNow DEF Live, WentOut
    <3>3. tries[m] \in 1 .. MaxAttempts - 1 /\ tries' = [tries EXCEPT ![m] = @ + 1]
      BY <1>1, <2>2, <3>2 DEF Transmits, TypeOK
    <3> QED
      BY <3>1, <3>2, <3>3
  <2>3. ASSUME NEW m \in pending, Leaves(m), tries' = tries
        PROVE  /\ \A n \in Msgs \ {m} : Fate(n)' = Fate(n)
               /\ Fate(m) = "onair" /\ Fate(m)' \in {"confirmed", "failed", "forgotten"}
    <3>1. m \in Msgs /\ place[m] = "pending" /\ place'[m] = "gone"
          /\ \A n \in Msgs \ {m} : place'[n] = place[n]
      BY <1>1, <2>3, LeavesFacts DEF pending
    <3>2. \A n \in Msgs \ {m} : Fate(n)' = Fate(n)
      BY <1>3, <3>1
    <3>3. Fate(m) = "onair" /\ Fate(m)' = Verdict(m)'
      BY <1>1, <3>1, FateNow, FateNext DEF Live
    <3> QED
      BY <3>1, <3>2, <3>3 DEF Verdict
  <2>4. \/ place' = place /\ tries' = tries
        \/ \E m \in Msgs : place[m] = "pending" /\ place' = place /\ Transmits(m, tries[m])
        \/ \E m \in pending : Leaves(m) /\ tries' = tries
    <3>1. CASE HandleConfirmed
      BY <3>1 DEF HandleConfirmed, Awaiting, Last, queueVars, radioVars
    <3>2. ASSUME NEW m \in Msgs, CheckNotDue(m) \/ CheckDue(m)
          PROVE  \/ place' = place /\ tries' = tries
                 \/ m \in pending /\ Leaves(m) /\ tries' = tries
                 \/ place[m] = "pending" /\ place' = place /\ Transmits(m, tries[m])
      <4>1. place[m] = "pending" /\ m \in pending /\ entry[m].attempt = tries[m]
        BY <1>1, <3>2, CheckOutcome, CheckFacts DEF CountInv
      <4> QED
        BY <3>2, <4>1 DEF CheckNotDue, CheckDue, CheckGraceOver, CheckEntersGrace, CheckRetries,
                          CheckForgets, Fails, NotTransmitted, WireAttempt, queueVars
    <3>3. ASSUME NEW m \in Msgs, DrainSkips(m) \/ DrainSends(m)
          PROVE  \/ place' = place /\ tries' = tries
                 \/ place[m] = "pending" /\ place' = place /\ Transmits(m, tries[m])
      BY <1>1, <3>3, DrainFacts DEF DrainSkips, DrainSends, Drains, Unsent, CountInv
    <3>4. CASE Aside \/ UNCHANGED vars
      BY <3>4, AsideFacts DEF vars, queueVars, radioVars
    <3>5. CASE HandleRspSent \/ HandleCheck \/ EndCheck \/ HandleDrain \/ EndDrain
      BY <3>5 DEF HandleRspSent, HandleCheck, EndCheck, HandleDrain, EndDrain, queueVars, radioVars
    <3> QED
      BY <1>4, <3>1, <3>2, <3>3, <3>4, <3>5 DEF Plain
  <2>5. pending \subseteq Msgs
    BY DEF pending
  <2>6. CASE \E m \in Msgs : place[m] = "pending" /\ place' = place /\ Transmits(m, tries[m])
    <3>1. PICK m \in Msgs : place[m] = "pending" /\ place' = place /\ Transmits(m, tries[m])
      BY <2>6
    <3> QED
      BY <2>2, <3>1
  <2>7. CASE \E m \in pending : Leaves(m) /\ tries' = tries
    <3>1. PICK m \in pending : Leaves(m) /\ tries' = tries
      BY <2>7
    <3> QED
      BY <2>3, <2>5, <3>1
  <2> QED
    BY <2>1, <2>4, <2>6, <2>7
<1>5. CASE SendRefused \/ SendAccepted
  <2>1. PICK t \in Msgs : t = Typed /\ place[t] = "typed" /\ tries[t] = 0
    BY <1>1, <1>5, TypedFacts DEF SendRefused, SendAccepted
  <2>2. /\ \A n \in Msgs \ {t} : place'[n] = place[n]
        /\ \/ SendRefused /\ place'[t] = "refused"
           \/ SendAccepted /\ place'[t] = "sending"
    BY <1>1, <1>5, <2>1 DEF SendRefused, SendAccepted, TypeOK
  <2>3. \A n \in Msgs \ {t} : Fate(n)' = Fate(n)
    BY <1>3, <2>2
  <2>4. Fate(t) = "new"
    BY <1>1, <2>1, FateNow
  <2>5. SendRefused => tries' = tries
    BY DEF SendRefused, radioVars
  <2>6. SendAccepted => tries' = [tries EXCEPT ![t] = @ + 1]
    BY <1>1, <2>1 DEF SendAccepted, Transmits, NotTransmitted
  <2>7. /\ place'[t] = "refused" => Fate(t)' = "refused"
        /\ place'[t] = "sending" => Fate(t)' = "onair"
    BY <1>1, FateNext DEF Live
  <2> QED
    BY <2>1, <2>2, <2>3, <2>4, <2>5, <2>6, <2>7
<1>6. CASE PostEnqueue
  BY <1>1, <1>3, <1>6 DEF PostEnqueue, BusyInv, Live, TypeOK, radioVars
<1>7. CASE HandleEnqueue
  BY <1>1, <1>3, <1>7, EnqueueFacts DEF HandleEnqueue, Live, TypeOK, radioVars
<1>8. CASE \E u \in Msgs : UserSend(u)
  BY <1>1, <1>3, <1>8 DEF UserSend, TypeOK, radioVars
<1> QED
  BY <1>4, <1>5, <1>6, <1>7, <1>8, NextCases

(* Whatever the order of sends, answers, retries, confirmations and syncs, *)
(* while the port is open each message is refused, or goes on the air at   *)
(* most MaxAttempts times and then ends in one way for good.               *)
THEOREM QueueKeepsPromise == Hazards \subseteq {"resync", "other_request"} => (Spec => KeepsPromise)
<1> SUFFICES ASSUME Hazards \subseteq {"resync", "other_request"} PROVE Spec => KeepsPromise
  OBVIOUS
<1>1. Init => P!Begin
  BY DEF Init, P!Begin, Fate
<1>2. Init => WentOut
  BY DEF Init, WentOut, Live
<1>3. IInv /\ WentOut /\ [Next]_vars => WentOut'
  BY WentOutStep
<1>4. IInv /\ WentOut /\ [Next]_vars => [P!Step]_(P!promiseVars)
  <2> SUFFICES ASSUME IInv, WentOut, [Next]_vars
               PROVE  P!Step \/ UNCHANGED P!promiseVars
    OBVIOUS
  <2>1. CASE tries' = tries /\ \A m \in Msgs : Fate(m)' = Fate(m)
    BY <2>1 DEF P!promiseVars
  <2>2. ASSUME NEW m \in Msgs, \A n \in Msgs \ {m} : Fate(n)' = Fate(n),
               NEW f, Fate(m)' = f
        PROVE  P!Becomes(m, f)
    BY <2>2 DEF P!Becomes
  <2>3. ASSUME NEW m \in Msgs, \A n \in Msgs \ {m} : Fate(n)' = Fate(n),
               Fate(m) = "new", Fate(m)' = "refused", tries' = tries
        PROVE  P!Refuse(m)
    BY <2>2, <2>3 DEF P!Refuse
  <2>4. ASSUME NEW m \in Msgs, \A n \in Msgs \ {m} : Fate(n)' = Fate(n),
               \/ Fate(m) = "new" /\ tries[m] = 0
               \/ Fate(m) = "onair" /\ tries[m] \in 1 .. MaxAttempts - 1,
               Fate(m)' = "onair", tries' = [tries EXCEPT ![m] = @ + 1]
        PROVE  P!Send(m)
    BY <2>2, <2>4 DEF P!Send
  <2>5. ASSUME NEW m \in Msgs, \A n \in Msgs \ {m} : Fate(n)' = Fate(n),
               Fate(m) = "onair", tries' = tries, Fate(m)' \in {"confirmed", "failed", "forgotten"}
        PROVE  P!Conclude(m)
    BY <2>2, <2>5 DEF P!Conclude
  <2> QED
    BY <2>1, <2>3, <2>4, <2>5, FateStep DEF P!Step
<1> QED
  BY <1>1, <1>2, <1>3, <1>4, Inductive, PTL DEF Spec, KeepsPromise, P!Promise
=============================================================================
