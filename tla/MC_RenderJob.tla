------------------------------ MODULE MC_RenderJob ------------------------------
(***************************************************************************)
(* A small instance of RenderJob for TLC.                                  *)
(***************************************************************************)
EXTENDS RenderJob, TLC

CONSTANT o1

MCOneOrder == {o1}
=============================================================================
