SPECIFICATION Spec
CONSTANTS
    Key = {k1}
    Thread = {t1}
    MaxRequests = 2
    Window = 5
    IdleTTL = 3
    MaxKeys = 1
    MaxClock = 5
    MaxStall = 0
    MaxInserted = 0
    WallOffset = 0
PROPERTY ActiveKeyKept
