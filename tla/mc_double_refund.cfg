\* One order, its settlements free to overlap (the job and the sweep, two sweeps).
SPECIFICATION Spec
CONSTANTS
    u1 = u1
    o1 = o1
    o2 = o2
    s1 = s1
    s2 = s2
    Nobody = Nobody
    Users <- MCUsers
    Orders <- MCOneOrder
    Owner <- MCOneOwner
    Sessions <- MCSessions
    Leavers <- MCNothing
    Cost = 1
    Allowance = 1
    MaxInFlight = 1
    Enforced = TRUE
    PlanSize = 0
    LastWindow = 0
    LastGrant = 0
    LastGen = 0
SYMMETRY SymmetricSessions
INVARIANT EveryRefundOwed
