SPECIFICATION Spec
CONSTANTS
    Key = {k1}
    Thread = {t1}
    MaxRequests = 1
    Window = 2
    IdleTTL = 3
    MaxKeys = 1
    MaxClock = 3
    MaxStall = 0
    MaxInserted = 0
    WallOffset = 0
INVARIANT RetryAfterRolls
