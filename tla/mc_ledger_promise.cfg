\* Two sessions of one account, one order, dark deployment: charges, settlements and
\* erasures all overlap, and the order may be charged again after a refund.
SPECIFICATION Spec
CONSTANTS
    u1 = u1
    o1 = o1
    o2 = o2
    s1 = s1
    s2 = s2
    Nobody = Nobody
    Users <- MCUsers
    Orders <- MCOneOrder
    Owner <- MCOneOwner
    Sessions <- MCSessions
    Leavers <- MCUsers
    Cost = 1
    Allowance = 1
    MaxInFlight = 1
    Enforced = FALSE
    PlanSize = 0
    LastWindow = 1
    LastGrant = 0
    LastGen = 1
SYMMETRY SymmetricSessions
INVARIANTS
    NeverDoubleCharged
    BalanceIsTheSum
    RefundsMatchDebits
PROPERTIES
    AnswerMeansPaid
    ImplementsPayment
