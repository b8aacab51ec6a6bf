\* Two sessions of one account and two orders of its customer, enforced: every
\* operation overlaps every other, aborts and lost commit answers included.
SPECIFICATION Spec
CONSTANTS
    u1 = u1
    o1 = o1
    o2 = o2
    s1 = s1
    s2 = s2
    Nobody = Nobody
    Users <- MCUsers
    Orders <- MCOrders
    Owner <- MCOwner
    Sessions <- MCSessions
    Leavers <- MCNothing
    Cost = 1
    Allowance = 1
    MaxInFlight = 1
    Enforced = TRUE
    PlanSize = 1
    LastWindow = 0
    LastGrant = 1
    LastGen = 0
SYMMETRY Symmetric
INVARIANTS
    TypeOK
    NeverOverdrawn
    PlanSongsMinted
