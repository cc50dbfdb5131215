\* One session against all three limits.
SPECIFICATION BreakerSpec
CONSTANTS
    s1 = s1
    Sessions = {s1}
    MaxCalls = 4
    MaxCritical = 2
    MaxRate = 2
    Window = 2
    MaxMono = 6
INVARIANTS
    BreakerTypeOK
    RateHolds
    BreakerInv
PROPERTIES
    ImplementsBudget
