SPECIFICATION Spec
CONSTANTS
    MaxFrames = 2
    MaxOutput = 1
    CounterMax = 3
    Faithful = TRUE
INVARIANT
    FramesIntact
CHECK_DEADLOCK FALSE
