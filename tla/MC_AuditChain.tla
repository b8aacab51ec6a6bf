---------------------------- MODULE MC_AuditChain ----------------------------
(* Two requests and a pool of two connections, four rows, batches of two. *)
EXTENDS AuditChain
=============================================================================
