\* A queue of two messages, so that a task meets a full one.  The bounds of each
\* kind of task let its limits be met: two lines per pipe and per chunk, output
\* beyond the budget, two syncs of different sets, two backups in one second, a
\* body beyond the restore limit and beyond the pipe, three documents, a session
\* that replaces another.
SPECIFICATION Spec
CONSTANTS
    QueueLength = 2
    MaxLines = 2
    ChunkLines = 2
    MaxWritten = 2
    OutputLimit = 2
    ReadSize = 2
    ProbeIds = {"a"}
    Specs = {1, 2}
    NoSpec = 0
    ProbeSets <- MCProbeSets
    MaxSyncs = 2
    MaxFlips = 1
    Backups = {"b1", "b2"}
    Parts = 2
    MaxSecond = 1
    BodyChunks = 3
    MaxChunks = 2
    StdinRoom = 1
    StderrRoom = 1
    MaxDocs = 3
    MaxSessions = 2
    MaxPrinted = 1
    Containers = {"c1", "c2"}
    Images = {"i1", "i2"}
    Volumes = {"v1", "v2", "v3"}
    Networks = {"n1", "n2"}
    Cache = {"b"}
    ImageOf <- MCImageOf
    VolumeOf <- MCVolumeOf
    NetworkOf <- MCNetworkOf
    MaxChanges = 2
    Subsystems = {"docker", "k8s"}
    MaxShifts = 3
CHECK_DEADLOCK FALSE
INVARIANTS
    TypeOK
    LogsAreWhole
    CommandIsAccounted
    ProbesMatch
    ToldIsRemembered
    BackupIsStored
    RestoredIsWhole
    AppliedIsPrefix
    BannerIsLast
    MissesOnlyFreed
PROPERTIES
    ReadIsTold
    TasksEnd
