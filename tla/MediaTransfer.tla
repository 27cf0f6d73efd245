--------------------------- MODULE MediaTransfer ---------------------------
(***************************************************************************)
(* MediaHandler and its two session managers: images and voice clips cut   *)
(* into fragments.  A transfer is announced by an envelope, a text message *)
(* of its own; the fragments follow as raw packets once the envelope is    *)
(* confirmed, or after a while without confirmation.  Whoever misses       *)
(* fragments asks for them.                                                *)
(*                                                                         *)
(* All of it happens in the window's thread.  Ticks of the fragment timers *)
(* and confirmations wait in its queue, so they can be stale when handled. *)
(* The peers and the mesh are external: envelopes and fragments come in    *)
(* any order, more than once or never, and so do requests for fragments.   *)
(* Session numbers of different senders are taken to differ.               *)
(***************************************************************************)
EXTENDS Integers, Sequences, FiniteSets, SequencesExt

CONSTANTS
  Images, Voices, \* the transfers there may be, both ways
  Mine,           \* those of them that start here
  None,           \* no transfer
  Frags,          \* the number of fragments of each
  MaxSessions,    \* the limit on sessions of a kind, 32 in the code
  MaxQueue,       \* bound: messages that wait for the window's thread
  Hazards         \* what may happen: "write_error"

Ids == Images \cup Voices
Theirs == Ids \ Mine
Kinds == {"image", "voice"}
KindOf(s) == IF s \in Images THEN "image" ELSE "voice"
Fragments == 0 .. Frags - 1

ASSUME IdsAssumption == Images \cap Voices = {} /\ Mine \subseteq Ids /\ None \notin Ids
ASSUME IdsAreFinite == IsFiniteSet(Ids)
ASSUME BoundsAssumption == Frags \in Nat \ {0} /\ MaxSessions \in Nat \ {0} /\ MaxQueue \in Nat
ASSUME HazardsAssumption == Hazards \subseteq {"write_error"}

VARIABLES
  sessions, \* fSessions of each kind's manager, oldest first
  current,  \* fCurrentSendSession, of each kind
  index,    \* fCurrentSendIndex
  awaiting, \* fImageEnvelopeSession or fVoiceEnvelopeSession is set
  timer,    \* the fragment timer; "spent": it fired its one time
  queue,    \* ticks, each the kind it is of, and confirmations
  begun,    \* the transfers that have started here
  wrote,    \* history: the fragments the timer wrote, of each transfer
  aborted   \* history: transfers with a fragment that could not be written

sendVars == <<current, index, awaiting, timer>>
vars == <<sessions, sendVars, queue, begun, wrote, aborted>>

States == {"pending", "loading", "complete", "failed", "sending"}
Session == [id : Ids, state : States, got : SUBSET Fragments, count : 0 .. Frags]

TypeOK ==
  /\ sessions \in [Kinds -> Seq(Session)]
  /\ current \in [Kinds -> Ids \cup {None}]
  /\ index \in [Kinds -> 0 .. Frags]
  /\ awaiting \in [Kinds -> BOOLEAN]
  /\ timer \in [Kinds -> {"none", "once", "spent", "every"}]
  /\ queue \in Seq(Kinds \cup {"confirmed"})
  /\ wrote \in [Mine -> Seq(Fragments)]
  /\ begun \subseteq Mine
  /\ aborted \subseteq Mine

Init ==
  /\ sessions = [k \in Kinds |-> <<>>]
  /\ current = [k \in Kinds |-> None]
  /\ index = [k \in Kinds |-> 0]
  /\ awaiting = [k \in Kinds |-> FALSE]
  /\ timer = [k \in Kinds |-> "none"]
  /\ queue = <<>>
  /\ wrote = [s \in Mine |-> <<>>]
  /\ begun = {}
  /\ aborted = {}

-----------------------------------------------------------------------------
(* Sessions.                                                               *)

Places(s) == {i \in DOMAIN sessions[KindOf(s)] : sessions[KindOf(s)][i].id = s}
Held(s) == s \in Ids /\ Places(s) # {}
SessionOf(s) == sessions[KindOf(s)][CHOOSE i \in Places(s) : TRUE]
With(s, new) ==
  [sessions EXCEPT ![KindOf(s)] = [i \in DOMAIN @ |-> IF @[i].id = s THEN new ELSE @[i]]]

NewOutgoing(s) ==
  [id |-> s, got |-> Fragments,
   state |-> IF s \in Images THEN "loading" ELSE "sending",
   count |-> IF s \in Images THEN 0 ELSE Frags]
NewIncoming(s) == [id |-> s, state |-> "pending", got |-> {}, count |-> 0]

(* A new incoming session removes the oldest one that is not "sending".    *)
AtLimit(t) == Len(t) >= MaxSessions
Removable(t) == {i \in DOMAIN t : t[i].state # "sending"}
MakeRoom(t) ==
  IF AtLimit(t) /\ Removable(t) # {}
  THEN RemoveAt(t, CHOOSE i \in Removable(t) : \A j \in Removable(t) : i <= j)
  ELSE t

(* AddFragment: data that came before is overwritten and not counted.      *)
Counts(session, i) == IF i \in session.got THEN session.count ELSE session.count + 1
Complete(session) == session.count >= Frags
WithFragment(session, i) ==
  LET filled == [session EXCEPT !.got = @ \cup {i}, !.count = Counts(session, i),
                                !.state = IF @ = "pending" THEN "loading" ELSE @]
  IN IF Complete(filled) THEN [filled EXCEPT !.state = "complete"] ELSE filled

(* _StartImageFetch, _StartVoiceFetch: nothing to do when nothing misses.  *)
Missing(session) == Fragments \ session.got
FetchingAlways(session) == [session EXCEPT !.state = "loading"]
Fetching(session) ==
  IF Missing(session) = {} THEN session ELSE [session EXCEPT !.state = "loading"]

(* SendRawData fails when the port is closed or takes no more.            *)
WriteMayFail == "write_error" \in Hazards

-----------------------------------------------------------------------------
(* Transfers that start here.                                              *)

FirstIndexKept(s) == index
FirstIndex(s) == [index EXCEPT ![KindOf(s)] = 0]

(* _HandleImageSelected, _StopVoiceRecord: a session, its envelope, and a  *)
(* timer for the case that no confirmation comes.                          *)
Begin(s) ==
  /\ s \in Mine \ begun
  /\ begun' = begun \cup {s}
  /\ sessions' = [sessions EXCEPT ![KindOf(s)] = Append(@, NewOutgoing(s))]
  /\ current' = [current EXCEPT ![KindOf(s)] = s]
  /\ index' = FirstIndex(s)
  /\ awaiting' = [awaiting EXCEPT ![KindOf(s)] = TRUE]
  /\ timer' = [timer EXCEPT ![KindOf(s)] = "once"]
  /\ UNCHANGED <<queue, wrote, aborted>>

(* The runner posts a tick, after 10 s once or every 4 s.                  *)
TimerFires(k) ==
  /\ timer[k] \in {"once", "every"}
  /\ Len(queue) < MaxQueue
  /\ queue' = Append(queue, k)
  /\ timer' = [timer EXCEPT ![k] = IF @ = "once" THEN "spent" ELSE @]
  /\ UNCHANGED <<sessions, current, index, awaiting, begun, wrote, aborted>>

(* PUSH_SEND_CONFIRMED of any message, while some envelope is awaited.     *)
ConfirmationComes ==
  /\ \E k \in Kinds : awaiting[k]
  /\ Len(queue) < MaxQueue
  /\ queue' = Append(queue, "confirmed")
  /\ UNCHANGED <<sessions, sendVars, begun, wrote, aborted>>

HandleConfirmed ==
  /\ queue # <<>> /\ Head(queue) = "confirmed"
  /\ queue' = Tail(queue)
  /\ awaiting' = [k \in Kinds |-> FALSE]
  /\ timer' = [k \in Kinds |-> IF awaiting[k] THEN "every" ELSE timer[k]]
  /\ UNCHANGED <<sessions, current, index, begun, wrote, aborted>>

(* _SendNextImageFragment, _SendNextVoiceFragment, whoever set the timer.  *)
TickOf(k) ==
  /\ queue # <<>> /\ Head(queue) = k
  /\ queue' = Tail(queue)
NothingToSendLate(k) == ~Held(current[k]) \/ index[k] > Frags
NothingToSend(k) == ~Held(current[k]) \/ index[k] >= Frags

TickEnds(k) ==
  /\ TickOf(k)
  /\ NothingToSend(k)
  /\ timer' = [timer EXCEPT ![k] = "none"]
  /\ sessions' = IF Held(current[k])
                 THEN With(current[k], [SessionOf(current[k]) EXCEPT !.state = "complete"])
                 ELSE sessions
  /\ UNCHANGED <<current, index, awaiting, begun, wrote, aborted>>

TickAborts(k) ==
  /\ TickOf(k)
  /\ ~NothingToSend(k)
  /\ WriteMayFail
  /\ timer' = [timer EXCEPT ![k] = "none"]
  /\ sessions' = With(current[k], [SessionOf(current[k]) EXCEPT !.state = "failed"])
  /\ aborted' = aborted \cup {current[k]}
  /\ UNCHANGED <<current, index, awaiting, begun, wrote>>

(* Only an image shows how far it is; a first tick that comes before the   *)
(* confirmation makes the timer a repeating one.                           *)
Progress(k) ==
  IF k = "image"
  THEN With(current[k], [SessionOf(current[k]) EXCEPT !.state = "loading", !.count = index[k] + 1])
  ELSE sessions
RepeatsNot(k) == timer
Repeats(k) == [timer EXCEPT ![k] = IF awaiting[k] THEN "every" ELSE @]

TickWrites(k) ==
  /\ TickOf(k)
  /\ ~NothingToSend(k)
  /\ wrote' = [wrote EXCEPT ![current[k]] = Append(@, index[k])]
  /\ index' = [index EXCEPT ![k] = @ + 1]
  /\ sessions' = Progress(k)
  /\ timer' = Repeats(k)
  /\ awaiting' = [awaiting EXCEPT ![k] = FALSE]
  /\ UNCHANGED <<current, begun, aborted>>

(* A peer asks for fragments: they are written again if the session is     *)
(* "sending", which it never is (see README).  This changes nothing    *)
(* kept here, so this is no action.                                        *)

-----------------------------------------------------------------------------
(* Transfers that start elsewhere.                                         *)

(* CreateFromEnvelope; images are fetched at once, an envelope that comes  *)
(* again fetches what misses.                                              *)
ReceiveEnvelope(s) ==
  /\ s \in Theirs
  /\ \E fetched \in {s \in Images} \cup (IF WriteMayFail THEN {FALSE} ELSE {}) :
       LET session == IF Held(s) THEN SessionOf(s) ELSE NewIncoming(s)
           now == IF fetched THEN Fetching(session) ELSE session
       IN sessions' = IF Held(s) THEN With(s, now)
                      ELSE [sessions EXCEPT ![KindOf(s)] = Append(MakeRoom(@), now)]
  /\ UNCHANGED <<sendVars, queue, begun, wrote, aborted>>

(* A click on an image or a voice clip that nothing has come of yet.       *)
UserFetches(s) ==
  /\ s \in Theirs /\ Held(s)
  /\ SessionOf(s).state = "pending"
  /\ sessions' = With(s, Fetching(SessionOf(s)))
  /\ UNCHANGED <<sendVars, queue, begun, wrote, aborted>>

(* A fragment of a session not held is dropped.                            *)
ReceiveFragment(s, i) ==
  /\ s \in Theirs /\ Held(s)
  /\ sessions' = With(s, WithFragment(SessionOf(s), i))
  /\ UNCHANGED <<sendVars, queue, begun, wrote, aborted>>

-----------------------------------------------------------------------------
Handles ==
  \/ HandleConfirmed
  \/ \E k \in Kinds : TickEnds(k) \/ TickAborts(k) \/ TickWrites(k)

Next ==
  \/ Handles
  \/ \E k \in Kinds : TimerFires(k)
  \/ ConfirmationComes
  \/ \E s \in Ids : Begin(s) \/ ReceiveEnvelope(s) \/ UserFetches(s)
  \/ \E s \in Ids, i \in Fragments : ReceiveFragment(s, i)

Spec == Init /\ [][Next]_vars

(* The window's thread handles its queue, and a runner that is due posts   *)
(* its tick: SF, because only the bound on the queue holds it back.        *)
FairSpec == Spec /\ WF_vars(Handles) /\ \A k \in Kinds : SF_vars(TimerFires(k))

-----------------------------------------------------------------------------
(* Properties.                                                             *)

(* The fragments of a transfer are written in order, each once, whichever  *)
(* stale ticks, confirmations, failures and other transfers come between   *)
(* (MediaHandler.cpp, _SendNextImageFragment, _SendNextVoiceFragment).     *)
WrittenInOrder ==
  \A s \in Mine : \A n \in DOMAIN wrote[s] : wrote[s][n] = n - 1

(* A session said to be complete is: all its fragments were written, or    *)
(* all were received, duplicates not counted (ImageSession.cpp,            *)
(* AddFragment; MediaHandler.cpp, "All %d fragments sent").                *)
CompleteIsWhole ==
  \A s \in Ids :
    Held(s) /\ SessionOf(s).state = "complete" =>
      /\ SessionOf(s).got = Fragments
      /\ s \in Mine => Len(wrote[s]) = Frags

(* What is said of the fragments of a session is true of them.             *)
FragmentsTrue == WrittenInOrder /\ CompleteIsWhole

(* A complete session stays complete while it is held, whatever envelopes, *)
(* fragments and ticks still come for it: an image whose envelope comes    *)
(* again has nothing to fetch.  A click fetches only what is pending, and  *)
(* the requests of others read fragments and change nothing.               *)
CompleteStays ==
  [][\A s \in Ids :
       Held(s) /\ SessionOf(s).state = "complete" /\ Held(s)'
         => SessionOf(s).state' = "complete"]_vars

(* Every transfer that starts here ends: complete, failed, removed, or     *)
(* overtaken by a newer one of its kind.  One that failed may go on: its   *)
(* envelope is still awaited, or a tick is in the queue.                   *)
Over(s) ==
  \/ ~Held(s)
  \/ current[KindOf(s)] # s
  \/ SessionOf(s).state \in {"complete", "failed"}
TransferEnds == \A s \in Mine : (s \in begun \ aborted) ~> Over(s)

(* The transfers keep the promise of TransferPromise: each kind is a       *)
(* group, and a voice clip that goes well is not removed to make room.     *)
Fate(s) ==
  IF s \notin begun THEN "new"
  ELSE IF ~Held(s) THEN "left"
  ELSE LET state == SessionOf(s).state
       IN IF state # "complete" /\ current[KindOf(s)] # s THEN "left"
          ELSE IF state \in {"complete", "failed"} THEN state ELSE "underway"

Out == INSTANCE TransferPromise WITH
         Transfers <- Mine, Groups <- {Mine \cap Images, Mine \cap Voices},
         Protected <- Mine \cap Voices,
         fate <- [s \in Mine |-> Fate(s)], sent <- [s \in Mine |-> Len(wrote[s])]

KeepsPromise == Out!Promise
=============================================================================
