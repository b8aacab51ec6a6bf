\* Two requests, two connections, four sequence numbers; sweeps and walks in small batches.
CONSTANTS
    None = None
    Requests = {r1, r2}
    r1 = r1
    r2 = r2
    Connections = 2
    ReadBatch = 2
    MaxChecked = 3
    PurgeBatch = 1
    MaxRows = 4
    Faults = {}
SPECIFICATION FairSpec
INVARIANTS OneChain CutsExplained NoFalseAlarm
PROPERTIES RequestsEnd
