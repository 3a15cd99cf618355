SPECIFICATION IdsAlone
CHECK_DEADLOCK FALSE
CONSTANTS
    Processes = {n1}
    NodeNumbers = {0}
    MaxSequence = 1
    Entropies = {0}
    MaxMs = 3
    MaxIssued = 3
    MaxStepsBack = 1
INVARIANT
    SnowflakesUnique
