SPECIFICATION LiveSpec
CONSTANTS
    MaxFrames = 3
    MaxOutput = 2
    CounterMax = 1
    Faithful = FALSE
INVARIANTS
    TypeOK
    TypedIsPrefix
    NoncesDistinct
    OutputBeforeExit
PROPERTY
    PeerGoneEndsSession
CHECK_DEADLOCK FALSE
