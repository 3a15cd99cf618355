SPECIFICATION Spec
CONSTANTS
    p1 = p1
    p2 = p2
    Consumers = {c1, c2}
    Partitions = {p1, p2}
    LogEnd <- MCLogEnd
    MaxPollRecords = 2
    MaxHandlerRetries = 1
    MaxFaults = 2
    Nobody = Nobody
INVARIANTS
    LossExplained
PROPERTIES
    CommitsOnlyAdvance
    EverythingSettled
