SPECIFICATION Spec
CONSTANTS
    Key = {k1}
    Thread = {t1, t2}
    Capacity = 1
    TicksPerToken = 1
    IdleTTL = 2
    MaxKeys = 1
    MaxClock = 2
    MaxStall = 1
    MaxInserted = 1
INVARIANT FixedRate
