------------------------- MODULE MCCompanionSession -------------------------
(* CompanionSession for TLC: two radios that share a contact.              *)
EXTENDS CompanionSession

MCKnows == 1 :> {1, 2} @@ 2 :> {2}
MCShared == 1 :> {1} @@ 2 :> {1}
=============================================================================
