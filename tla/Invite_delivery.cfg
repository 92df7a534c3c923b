\* Two tokens, two invites to one email, two workers, two requests in flight.
SPECIFICATION InviteSpec
CONSTANTS
    Events = {1, 2}
    Workers = {w1, w2}
    Invites = {i1, i2}
    Requests = {r1, r2}
    NoInvite = noInvite
SYMMETRY MCSymmetry
INVARIANT ProcessedMeansMailed
PROPERTIES ClosedIsFrozen SupersededStaysUnsent
