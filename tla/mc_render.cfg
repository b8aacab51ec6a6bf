\* One order, the five attempts of the default settings, every way a worker ends and
\* every call of the bot's and the job's that may be refused.
SPECIFICATION Spec
CONSTANTS
    o1 = o1
    Orders <- MCOneOrder
    MaxTries = 5
    Faults = {"crash", "interrupt", "timeout", "enqueue", "find", "mark", "settle", "free"}
INVARIANTS
    TypeOK
    DeliveredIsPaid
    SpentOnAKit
PROPERTIES
    DebitCloses
    PromiseKept
    SessionReleased
