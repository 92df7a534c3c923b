\* A promotion passes a demotion or suspension that loaded the row before.
SPECIFICATION AccessSpec
CONSTANTS
    u1 = u1
    u2 = u2
    u3 = u3
    o1 = o1
    o2 = o2
    Users = {u1, u2, u3}
    Orgs = {o1, o2}
    Requests = {r1, r2}
    MaxRows = 3
    MaxInvites = 1
    MaxReplacements = 1
    MaxStatusChanges = 1
    Starts <- MCStarts
    Nobody = nobody
    Accounts = {u1, u2, u3}
    StaffRequests = {r1, r2}
SYMMETRY AccessSymmetry
CHECK_DEADLOCK FALSE
INVARIANT LastAdminStays
