--------------------------- MODULE TransferPromise ---------------------------
(***************************************************************************)
(* What the transfers that start here promise, with no sessions, timers,   *)
(* queue or limits: of each group at most the newest goes on; it sends its *)
(* fragments one at a time, none after the last; it is complete once all   *)
(* were sent.  One that failed may go on, one that was left never does.    *)
(***************************************************************************)
EXTENDS Integers

CONSTANTS
  Transfers,
  Frags,     \* the fragments of each
  Groups,    \* sets of transfers of which one goes on at a time
  Protected  \* transfers that only a rival can end while they go well

VARIABLES
  fate, \* what has become of each transfer
  sent  \* how many of its fragments were sent

promiseVars == <<fate, sent>>

Going == {"underway", "failed"}
Fates == {"new", "complete", "left"} \cup Going

Rivals(s) == (UNION {g \in Groups : s \in g}) \ {s}

Begin ==
  /\ fate = [s \in Transfers |-> "new"]
  /\ sent = [s \in Transfers |-> 0]

Becomes(s, f) == fate'[s] = f /\ \A r \in Transfers \ {s} : fate'[r] = fate[r]

Start(s) ==
  /\ sent[s] = 0 /\ fate[s] = "new"
  /\ UNCHANGED sent
  /\ fate'[s] = "underway"
  /\ \A r \in Transfers \ {s} :
       fate'[r] = IF r \in Rivals(s) /\ fate[r] \in Going THEN "left" ELSE fate[r]

Send(s) ==
  /\ sent[s] < Frags /\ sent' = [sent EXCEPT ![s] = @ + 1]
  /\ fate[s] \in Going
  /\ \E f \in {fate[s], "underway"} : Becomes(s, f)

Finish(s) ==
  /\ sent[s] = Frags /\ fate[s] \in Going
  /\ UNCHANGED sent
  /\ Becomes(s, "complete")

Fail(s) ==
  /\ sent[s] < Frags /\ fate[s] = "underway"
  /\ UNCHANGED sent
  /\ Becomes(s, "failed")

Leave(s) ==
  /\ fate[s] \in Going \cup {"complete"}
  /\ fate[s] = "underway" => s \notin Protected
  /\ UNCHANGED sent
  /\ Becomes(s, "left")

Step ==
  /\ \E s \in Transfers : Start(s) \/ Send(s) \/ Finish(s) \/ Fail(s) \/ Leave(s)
  /\ fate' \in [Transfers -> Fates]

Promise == Begin /\ [][Step]_promiseVars
=============================================================================
