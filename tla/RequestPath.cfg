SPECIFICATION Spec
CONSTANTS
    IsValid <- MCIsValid
    Never = 1000000
    Arrivals <- MCArrivals
    Extractors <- MCExtractors
    Chains <- MCChains
    Algorithms <- MCAlgorithms
    BypassKeys <- MCBypassKeys
    Depths = {0, 1}
    Limit = 1
    Clocks = {2100}
    MaxRequests = 2
    MaxSettings = 3
INVARIANTS
    TypeOK
    PassesAccounted
    KeysSeparate
    ChainedApiKeys
    LimitPerCaller
    BypassNeverLimited
    HeadersTell
PROPERTIES
    CheckDecides
CHECK_DEADLOCK FALSE
