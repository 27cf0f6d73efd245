------------------------------ MODULE MCChannels ------------------------------
(* Channels with interchangeable names.                                    *)
EXTENDS Channels

Symmetry == Permutations(Names)
=============================================================================
