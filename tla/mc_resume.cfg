\* One link, two versions of the draft, two executions of its job, every fault.
CONSTANTS
    i1 = i1
    d1 = d1
    d2 = d2
    None = None
    Intents = {i1}
    Drafts = {d1, d2}
    Workers = {1, 2}
    Marker <- MCMarker
    MaxTries = 2
    Faults = {"gateway", "read", "stamp", "enqueue", "claim", "create", "park", "crash", "redeliver", "erase"}
SPECIFICATION Spec
INVARIANTS TypeOK ResumedOnce ToldAgainOnlyForCause
PROPERTIES OneSongPerDraft PaidIsAnnounced SessionFreed
CHECK_DEADLOCK FALSE
