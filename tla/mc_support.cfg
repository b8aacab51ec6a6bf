\* One ticket, one card sync, one press, one answer, two failures of any kind.
CONSTANTS
    None = None
    Bot = Bot
    Customer = Customer
    Replies = {r1}
    Syncs = {s1}
    Staff = {m1}
    MaxTries = 2
    MaxFaults = 2
    Faults = {"crash", "read", "write", "lag", "telegram", "blocked", "enqueue"}
SPECIFICATION FairSpec
INVARIANTS OneCard AnsweredOnce
PROPERTIES TimelineTrue AnswerArrives
