--------------------------- MODULE MCDeliveryQueue ---------------------------
(* DeliveryQueue for TLC: numbers for the constants are in the .cfg files. *)
EXTENDS DeliveryQueue
=============================================================================
