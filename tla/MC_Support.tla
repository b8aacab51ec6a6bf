------------------------------ MODULE MC_Support ------------------------------
(* One answer, one card sync beside the bot's own post, one press of a button. *)
EXTENDS Support
=============================================================================
