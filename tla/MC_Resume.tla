------------------------------ MODULE MC_Resume ------------------------------
(* Links opened for one draft, and an edited version of it. *)
EXTENDS Resume
CONSTANTS i1, d1, d2

MCMarker == [i \in Intents |-> d1]
=============================================================================
