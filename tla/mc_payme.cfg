\* One link for one song, two charges made against it, an operator, an erasure.
SPECIFICATION Spec
CONSTANTS
    u1 = u1
    i1 = i1
    c1 = c1
    c2 = c2
    s1 = s1
    s2 = s2
    Nobody = Nobody
    Users <- MCUsers
    Intents <- MCSong
    Buyer <- MCBuyer
    Plans <- MCNone
    Charges <- MCCharges
    For <- MCSameLink
    Sessions <- MCSessions
    Operated <- MCSong
    Leavers <- MCUsers
INVARIANTS
    HoldIsLive
    ChargedOnce
    SettledTogether
PROPERTIES
    AnswersAreTrue
