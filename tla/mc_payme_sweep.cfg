\* One link for a plan, two charges made against it, the sweep of late charges.
SPECIFICATION FairSpec
CONSTANTS
    u1 = u1
    i1 = i1
    c1 = c1
    c2 = c2
    s1 = s1
    s2 = s2
    Nobody = Nobody
    Users <- MCUsers
    Intents <- MCSong
    Buyer <- MCBuyer
    Plans <- MCSong
    Charges <- MCCharges
    For <- MCSameLink
    Sessions <- MCSessions
    Operated <- MCNone
    Leavers <- MCNone
PROPERTY LateChargesClose
