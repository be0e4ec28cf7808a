SPECIFICATION FairSpec
CONSTANTS
    Key = {k1, k2}
    Thread = {t1}
    Capacity = 2
    TicksPerToken = 1
    IdleTTL = 1
    MaxKeys = 1
    MaxClock = 3
    MaxStall = 0
    MaxInserted = 2
INVARIANTS
    CapRestored
PROPERTIES
    IsTokenBucketLimiter
    EvictionBounded
    IdleEntriesLeave
