\* Refinement, row history and termination: two connections and two request
\* ids, so that commits of one handler fall between the SELECT and the UPDATE
\* of the other; a PTY and a command.
CONSTANTS
    Conns = {c1, c2}
    Ids = {r1, r2}
    ValidIds = {r1, r2}
    Ops = {cmd, pty}
    Classified = {cmd, pty}
    Commands = {cmd}
    Limit <- MCLimit
    Margin = 1
    TtlMin = 1
    TtlMax = 60
    Approvers = {alice}
    Keys = {k1}
    Policies = {p1}
    NoManifest = NoManifest
    NoKey = NoKey
    MaxTime = 1
SPECIFICATION LiveSpec
CHECK_DEADLOCK FALSE
INVARIANTS
    OncePerChallenge
PROPERTIES
    RowsOnlyAdvance
    ApprovalEnds
    ImplementsSingleUse
