\* Two sessions call tools that are registered and registered again.
SPECIFICATION GateSpec
CONSTANTS
    s1 = s1
    s2 = s2
    w = w
    i1 = i1
    a1 = a1
    bar = bar
    Bar = bar
    Text <- MCText
    NoPolicy = NoPolicy
    NoRole = NoRole
    Sessions = {s1, s2}
    Tools = {w}
    RequestIds = {i1}
    Arguments = {a1}
    OfferedRoles = {NoRole, "OPERATOR"}
    OfferedTiers = {"L1_READ_ONLY", "L3_CRITICAL"}
    MaxCalls = 2
    MaxCritical = 1
    MaxRate = 2
    Window = 1
    MaxMono = 1
    MaxRequests = 4
SYMMETRY Symmetry
INVARIANTS
    GateTypeOK
    TrailCoversBudget
    SuspensionsBudgeted
    BrokenForGood
