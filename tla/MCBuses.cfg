SPECIFICATION BusesAlone
CHECK_DEADLOCK FALSE
CONSTANTS
    Messages = {}
    Oversized = {}
    MaxFailures = 0
    Nobody = None
    Subscribers = {n1}
    MaxMessages = 2
    MaxCalls = 2
INVARIANT
    AtMostOnce
