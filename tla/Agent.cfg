\* Two pairings and two rotations, and three faults.  Ticks of 5 s give the periods
\* of the code; an answer takes at most 10 s.
SPECIFICATION Spec
CONSTANTS
    MaxTriples = 3
    MaxPairings = 2
    MaxFaults = 3
    HeartbeatPeriod = 4
    WatchdogPeriod = 3
    IdleTimeout = 15
    ReplyTime = 2
    PingRoom = 1
    MaxEvents = 3
CHECK_DEADLOCK FALSE
INVARIANTS
    TypeOK
    FilesAgree
    
    WatchdogIsRight
PROPERTIES
    AgentReturns
