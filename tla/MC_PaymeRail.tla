----------------------------- MODULE MC_PaymeRail -----------------------------
(***************************************************************************)
(* Small instances of PaymeRail for TLC.                                   *)
(***************************************************************************)
EXTENDS PaymeRail, TLC

CONSTANTS u1, i1, c1, c2, s1, s2

MCUsers == {u1}
MCSong == {i1}
MCBuyer == [i \in MCSong |-> u1]
MCCharges == {c1, c2}
MCSameLink == [c \in MCCharges |-> i1]
MCSessions == {s1, s2}
MCNone == {}
=============================================================================
