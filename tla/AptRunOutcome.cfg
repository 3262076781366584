SPECIFICATION Spec
CONSTANTS
    Requests = {q1}
    MaxRuns = 1
    MaxRestarts = 0
INVARIANT
    FailureIsReal
CHECK_DEADLOCK FALSE
