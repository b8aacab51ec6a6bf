\* Two accounts on two pages, two workers, one failure of any kind, the panel at work.
CONSTANTS
    None = None
    Audience = 2
    PageSize = 1
    ChunkSize = 2
    CheckEvery = 1
    Workers = {1, 2}
    MaxJobs = 1
    MaxFaults = 1
    Faults = {"crash", "enqueue", "write", "state", "flood"}
SPECIFICATION FairSpec
INVARIANTS NeverTwice WholeAudience BrakesHold OneText
PROPERTIES NothingStalls
CHECK_DEADLOCK FALSE
