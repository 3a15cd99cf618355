SPECIFICATION Spec
CONSTANTS
    c1 = c1
    c2 = c2
    c3 = c3
    k1 = k1
    k2 = k2
    Callers = {c1, c2, c3}
    Keys = {k1, k2}
    KeyOf <- MCKeyOf
    Uses <- MCUses
    Shared <- MCShared
    Nobody = Nobody
    MaxEntries = 1
    MaxUpdates <- MCMaxUpdates
    MaxFaults = 1
INVARIANTS
    L2First
    StaleReadsExplained
PROPERTIES
    Converges

