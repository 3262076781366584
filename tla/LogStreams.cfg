\* A key whose handlers are awaited, one whose handlers are spawned, and a
\* malformed one.
SPECIFICATION LiveSpec
CONSTANTS
    Keys = {pod, unit, bad}
    ValidKeys = {pod, unit}
    InlineKeys = {pod}
    MaxRequests = 4
INVARIANTS
    TypeOK
    StreamsFollowRequests
PROPERTIES
    SupersededEnds
    ImplementsOneStreamPerKey
CHECK_DEADLOCK FALSE
