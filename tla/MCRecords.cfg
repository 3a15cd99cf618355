SPECIFICATION RecordsAlone
CHECK_DEADLOCK FALSE
CONSTANTS
    Callers = {n1, n2}
    MaxKey = 2
    MaxWrites = 4
INVARIANT
    SaveStores
