SPECIFICATION Spec
CONSTANTS
    Requests = {q1}
    MaxRuns = 1
    MaxRestarts = 1
INVARIANT
    InFlightRunIsJournaled
CHECK_DEADLOCK FALSE
