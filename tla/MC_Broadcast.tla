----------------------------- MODULE MC_Broadcast -----------------------------
(* Two accounts, a page each, in chunks of two that ask after the campaign before
   every message but the first; two workers. *)
EXTENDS Broadcast
=============================================================================
