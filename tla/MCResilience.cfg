\* Three callers, two of which the limiter lets in; the breaker trips at two
\* failures and Retry makes two attempts.
SPECIFICATION Spec
CONSTANTS
    Callers = {c1, c2, c3}
    MaxLimit = 2
    MaxAttempts = 2
    FailureThreshold = 2
    MaxOutages = 1
    MaxCancels = 1
INVARIANTS
    TrippedByCount
    LimitHolds
PROPERTIES
    RequestsEnd
    Recovers
