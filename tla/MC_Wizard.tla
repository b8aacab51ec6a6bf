------------------------------ MODULE MC_Wizard ------------------------------
(* Two languages, one recipient. *)
EXTENDS Wizard
CONSTANTS n1, uz, ru
=============================================================================
