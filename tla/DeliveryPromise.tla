--------------------------- MODULE DeliveryPromise ---------------------------
(***************************************************************************)
(* What the delivery of direct messages promises for each message, with no *)
(* queue, no threads and no timer: a message is taken in or refused once;  *)
(* it goes on the air at most MaxAttempts times; after the first time it   *)
(* ends in one way, for good.  A message never sent does not end: it waits.*)
(***************************************************************************)
EXTENDS Integers

CONSTANTS Messages, MaxAttempts

VARIABLES
  fate,    \* what has become of each message
  sendings \* how many times each message went on the air

promiseVars == <<fate, sendings>>

Fates == {"new", "refused", "queued", "onair", "confirmed", "failed", "forgotten"}
Ends == {"refused", "confirmed", "failed", "forgotten"}

Begin ==
  /\ fate = [m \in Messages |-> "new"]
  /\ sendings = [m \in Messages |-> 0]

Becomes(m, f) == fate' = [fate EXCEPT ![m] = f]

Refuse(m) ==
  /\ fate[m] = "new"
  /\ Becomes(m, "refused")
  /\ UNCHANGED sendings

TakeIn(m) ==
  /\ fate[m] = "new"
  /\ Becomes(m, "queued")
  /\ UNCHANGED sendings

Send(m) ==
  /\ fate[m] \in {"new", "queued", "onair"}
  /\ fate[m] = "onair" => sendings[m] \in 1 .. MaxAttempts - 1
  /\ fate[m] # "onair" => sendings[m] = 0
  /\ Becomes(m, "onair")
  /\ sendings' = [sendings EXCEPT ![m] = @ + 1]

Conclude(m) ==
  /\ fate[m] = "onair"
  /\ \E f \in {"confirmed", "failed", "forgotten"} : Becomes(m, f)
  /\ UNCHANGED sendings

Step == \E m \in Messages : Refuse(m) \/ TakeIn(m) \/ Send(m) \/ Conclude(m)

Promise == Begin /\ [][Step]_promiseVars
=============================================================================
