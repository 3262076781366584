SPECIFICATION LiveSpec
CONSTANTS
    Ids = {i1, i2}
    MaxMessages = 3
    MaxHostFrames = 1
INVARIANTS
    TypeOK
    SessionsDoNotMix
    CompleteIsLast
PROPERTY
    ClosedIsReported
CHECK_DEADLOCK FALSE
