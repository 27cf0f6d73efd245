------------------------------ MODULE LinkPromise ------------------------------
(***************************************************************************)
(* What the serial link promises the window, and what the models of the    *)
(* window's other work take for granted: one connection at a time, each    *)
(* with a reader of its own; it is closed after its reader has ended and   *)
(* told once when it is up and once when it is down; the window hears all  *)
(* of it in order, with the errors of either.  All of it holds until the   *)
(* window quits.                                                           *)
(***************************************************************************)
EXTENDS Sequences

CONSTANT Connections

VARIABLES
  phase,  \* "down", "up", "closed" and not told yet, or "over"
  alive,  \* the connections whose reader has not ended
  told,   \* notices on their way to the window
  view    \* what the window takes the link for: up or not

promiseVars == <<phase, alive, told, view>>

Tells(notice) == told' = Append(told, notice)

Begin == phase = "down" /\ alive = {} /\ told = <<>> /\ view = FALSE

Open ==
  /\ phase = "down" /\ alive = {}
  /\ \E c \in Connections : alive' = {c}
  /\ phase' = "up"
  /\ Tells("connected")
  /\ UNCHANGED view

ReaderEnds ==
  /\ phase = "up"
  /\ alive # {} /\ alive' = {}
  /\ told' = told \/ Tells("error")
  /\ UNCHANGED <<phase, view>>

Close ==
  /\ phase = "up" /\ alive = {}
  /\ phase' = "closed"
  /\ UNCHANGED <<alive, told, view>>

Down ==
  /\ phase = "closed"
  /\ phase' = "down"
  /\ Tells("disconnected")
  /\ UNCHANGED <<alive, view>>

OpenFails ==
  /\ phase = "down"
  /\ Tells("error")
  /\ UNCHANGED <<phase, alive, view>>

Hear ==
  /\ phase # "over"
  /\ told # <<>>
  /\ told' = Tail(told)
  /\ view' = IF Head(told) = "error" THEN view ELSE Head(told) = "connected"
  /\ UNCHANGED <<phase, alive>>

Quit ==
  /\ phase # "over" /\ phase' = "over"
  /\ alive' = {} /\ told' = <<>> /\ view' = FALSE

Step == Open \/ ReaderEnds \/ Close \/ Down \/ OpenFails \/ Hear \/ Quit

Promise == Begin /\ [][Step]_promiseVars
=============================================================================
