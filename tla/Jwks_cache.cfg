\* Two validations, two keys, two rotations and two faults.
SPECIFICATION JwksFairSpec
CONSTANTS
    Tokens = {t1, t2}
    Kids = {k1, k2}
    NoToken = NoToken
    MaxRotations = 2
    MaxFaults = 2
INVARIANT OneRefreshPerCooldown
PROPERTIES LockIsFreed RetiredKeyDies NewKeyLives
