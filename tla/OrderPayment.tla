---------------------------- MODULE OrderPayment ----------------------------
(***************************************************************************)
(* What the credit ledger promises, without rows, keys or transactions: an *)
(* account has a wallet of credits, an order is paid for or not, paying    *)
(* takes at most one cost out of the wallet and only what is there, and an *)
(* order is refunded only when it is paid for, unless an earlier refund of *)
(* it was contested: made under another transaction of the same order.     *)
(***************************************************************************)
EXTENDS Integers

CONSTANTS Users, Orders, Owner, Cost

VARIABLES
    wallet,     \* wallet[u]: the credits the account can spend
    charges,    \* charges[o]: how many times the order has been paid for
    refunds,    \* refunds[o]: how many times it has been refunded
    contested   \* the orders with a contested refund

vars == <<wallet, charges, refunds, contested>>

Paid(o) == charges[o] = refunds[o] + 1

Init ==
    /\ wallet = [u \in Users |-> 0]
    /\ charges = [o \in Orders |-> 0]
    /\ refunds = [o \in Orders |-> 0]
    /\ contested = {}

\* The wallet of u becomes w, and nobody else's changes.
Holds(u, w) == wallet' = [wallet EXCEPT ![u] = w]

\* A payment may be made together with credits that fall due at that moment.
Pay(o) ==
    /\ charges[o] <= refunds[o]
    /\ charges' = [charges EXCEPT ![o] = @ + 1]
    /\ LET w == wallet'[Owner[o]]
       IN  w \in Nat /\ w >= wallet[Owner[o]] - Cost /\ Holds(Owner[o], w)
    /\ UNCHANGED <<refunds, contested>>

Refund(o) ==
    /\ Paid(o) \/ o \in contested
    /\ refunds' = [refunds EXCEPT ![o] = @ + 1]
    /\ Holds(Owner[o], wallet[Owner[o]] + Cost)
    /\ contested' \in {contested, contested \union {o}}
    /\ UNCHANGED charges

Gain(u) ==
    /\ wallet'[u] \in Nat /\ wallet'[u] > wallet[u] /\ Holds(u, wallet'[u])
    /\ UNCHANGED <<charges, refunds, contested>>

Forget(u) == Holds(u, 0) /\ UNCHANGED <<charges, refunds, contested>>

Next ==
    \/ \E o \in Orders : Pay(o) \/ Refund(o)
    \/ \E u \in Users : Gain(u) \/ Forget(u)

Spec == Init /\ [][Next]_vars

-----------------------------------------------------------------------------
TypeOK ==
    /\ wallet \in [Users -> Nat]
    /\ charges \in [Orders -> Nat]
    /\ refunds \in [Orders -> Nat]
    /\ contested \subseteq Orders

\* An order is never paid for twice at a time, and one that is not contested is unpaid
\* or paid for once: never refunded more often than charged.
PaidOnce ==
    \A o \in Orders : /\ charges[o] <= refunds[o] + 1
                      /\ o \notin contested => refunds[o] <= charges[o]
=============================================================================
