\* Two connections, one request id and a malformed one, a command and a PTY, two
\* approver keys for one approver name, policy change at restart.
CONSTANTS
    Conns = {c1, c2}
    Ids = {r1, bad}
    ValidIds = {r1}
    Ops = {cmd, pty, other}
    Classified = {cmd, pty}
    Commands = {cmd, other}
    Limit <- MCLimit
    Margin = 1
    TtlMin = 1
    TtlMax = 60
    Approvers = {alice}
    Keys = {k1, k2}
    Policies = {p1, p2}
    NoManifest = NoManifest
    NoKey = NoKey
    MaxTime = 2
SPECIFICATION Spec
SYMMETRY ConnSymmetry
CHECK_DEADLOCK FALSE
INVARIANTS
    TypeOK
    ExecutedWasApproved
    ChildrenAccountedFor
