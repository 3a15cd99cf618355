SPECIFICATION Spec
CONSTANTS
    r1 = r1
    r2 = r2
    r3 = r3
    r4 = r4
    k1 = k1
    k2 = k2
    p1 = p1
    p2 = p2
    Requests = {r1, r2, r3, r4}
    KeyOf <- MCKeyOf
    PrintOf <- MCPrintOf
    MaxEntries = 1
    MaxCancels = 1
    MaxExpiries = 1
    Outcomes = {"success", "overflow", "error", "panic"}
    NoEntry = NoEntry
    NoRequest = NoRequest
INVARIANT
    FailureIsNotSuccess
