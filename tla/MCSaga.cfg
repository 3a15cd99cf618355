SPECIFICATION SagaAlone
CHECK_DEADLOCK FALSE
CONSTANTS
    MaxSteps = 3
    Dispatches = {}
    MaxRetries = 1
    NoTask = None
    Ticks = {n1}
INVARIANT
    CompletedStepsCompensated
