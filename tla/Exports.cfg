\* Three leases of one artifact, two holders alive at once, and a retention pass; or an
\* erasure of all the rows of a subject with the others at work. Liveness: no symmetry.
SPECIFICATION ExportsSpec
CONSTANTS
    Artifacts = {a1}
    Workers = {w1, w2}
    Purgers = {p1}
    BatchSize = 1
    MaxClaims = 3
    NoArtifact = NoArtifact
    Rows <- MCRows
    Table <- MCTable
    Link <- MCLink
    Subject = "subject"
    FirstStatuses <- MCFirstStatuses
    Casts <- MCCasts
    EraseRequest = "request"
    LateRows <- MCLateRows
    ExecutionAudits <- MCExecutionAudits
    NewAccount = "newAccount"
    Logins = {l1, l2}
    NoRow = "none"
CHECK_DEADLOCK FALSE
INVARIANTS
    NoOrphanObject ReadyIsStored
    Complete NothingElse PreviewCovers LateMail SignInFindsAccount OfferedIsStored ArchiveIsFair
PROPERTY ErasedObjectsGo
