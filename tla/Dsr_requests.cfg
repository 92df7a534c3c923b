\* Two transactions open at once on two requests, the executor may be a subject; or on
\* the two artifacts of one request.
SPECIFICATION RequestsSpec
CONSTANTS
    Users = {u1, u2}
    Staff = {u2}
    Types = {"export", "erase", "other"}
    Clients = {c1, c2}
    Requests = {q1, q2}
    Null = null
    MaxArtifacts = 2
    Sessions = {s1, s2}
CHECK_DEADLOCK FALSE
SYMMETRY RequestSymmetry
INVARIANTS OneRequestPerKey ApprovedIsAuthorised ExecutedIsFulfilled
PROPERTIES FinalStays DeliveredWasAvailable
