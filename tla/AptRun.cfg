SPECIFICATION LiveSpec
CONSTANTS
    Requests = {q1, q2}
    MaxRuns = 2
    MaxRestarts = 1
INVARIANTS
    TypeOK
    VerdictsAreReal
PROPERTY
    WatchersReport
CHECK_DEADLOCK FALSE
