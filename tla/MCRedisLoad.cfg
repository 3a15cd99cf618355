SPECIFICATION Spec
CONSTANTS
    p1 = p1
    p2 = p2
    c1 = c1
    c2 = c2
    c3 = c3
    Processes = {p1, p2}
    Calls = {c1, c2, c3}
    ProcessOf <- MCProcessOf
    Free = Free
    Orphan = Orphan
    MaxFaults = 1
    MaxCancels = 1
    MaxUpdates = 1
INVARIANTS
    OneFetcher
    StaleReadsExplained
PROPERTIES
    NoBackwardsStore
    LoadsEnd
CHECK_DEADLOCK FALSE
