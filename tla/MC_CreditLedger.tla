--------------------------- MODULE MC_CreditLedger ---------------------------
(***************************************************************************)
(* Small instances of CreditLedger for TLC.                                *)
(***************************************************************************)
EXTENDS CreditLedger, TLC

CONSTANTS u1, o1, o2, s1, s2

MCUsers == {u1}
MCOrders == {o1, o2}
MCOneOrder == {o1}
MCOwner == o1 :> u1 @@ o2 :> u1
MCOneOwner == o1 :> u1
MCSessions == {s1, s2}
MCNothing == {}

\* Sessions, and the orders of one account, are interchangeable.
Symmetric == Permutations(MCSessions) \union Permutations(MCOrders)
SymmetricSessions == Permutations(MCSessions)
=============================================================================
