\* What the erasure makes of columns that are to be retained.
SPECIFICATION ExportsSpec
CONSTANTS
    Artifacts = {a1}
    Workers = {w1, w2}
    Purgers = {p1}
    BatchSize = 1
    MaxClaims = 3
    NoArtifact = NoArtifact
    Rows <- MCRows
    Table <- MCTable
    Link <- MCLink
    Subject = "subject"
    FirstStatuses <- MCFirstStatuses
    Casts <- MCCasts
    EraseRequest = "request"
    LateRows <- MCLateRows
    ExecutionAudits <- MCExecutionAudits
    NewAccount = "newAccount"
    Logins = {l1, l2}
    NoRow = "none"
CHECK_DEADLOCK FALSE
INVARIANT RetainedStays
