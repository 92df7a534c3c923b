\* A transaction about the older of two artifacts.
SPECIFICATION RequestsSpec
CONSTANTS
    Users = {u1, u2}
    Staff = {u2}
    Types = {"export", "erase", "other"}
    Clients = {c1, c2}
    Requests = {q1, q2}
    Null = null
    MaxArtifacts = 2
    Sessions = {s1, s2}
CHECK_DEADLOCK FALSE
PROPERTY OlderNeverOverwrites
