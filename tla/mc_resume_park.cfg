\* One link, one execution of its job, and a write of the session that fails.
CONSTANTS
    i1 = i1
    d1 = d1
    d2 = d2
    None = None
    Intents = {i1}
    Drafts = {d1, d2}
    Workers = {1}
    Marker <- MCMarker
    MaxTries = 2
    Faults = {"park"}
SPECIFICATION Spec
INVARIANTS ParkIsWhole
CHECK_DEADLOCK FALSE
