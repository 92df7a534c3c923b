\* Resend answers that the invite has expired and leaves it pending.
SPECIFICATION InviteSpec
CONSTANTS
    Events = {1, 2}
    Workers = {w1}
    Invites = {i1}
    Requests = {r1}
    NoInvite = noInvite
INVARIANT ToldExpiredIsExpired
