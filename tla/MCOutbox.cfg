\* Two workers, two events, two faults.
SPECIFICATION Spec
CONSTANTS
    Messages = {m1, m2}
    Workers = {w1, w2}
    BatchSize = 2
    MaxAttempts = 2
    MaxFaults = 2
    Tokens = {t1, t2, t3, t4}
    NoToken = NoToken
    NoMessage = NoMessage
INVARIANTS
    OutcomeEarned
    DuplicatesExplained
PROPERTIES
    RowsOnlyAdvance
    ImplementsEventDelivery
