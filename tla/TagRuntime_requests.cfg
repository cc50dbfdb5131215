\* Two calls of a session, with one request or two, answered by two operators.
SPECIFICATION RuntimeSpec
CONSTANTS
    t1 = t1
    t2 = t2
    i1 = i1
    i2 = i2
    a1 = a1
    a2 = a2
    o1 = o1
    o2 = o2
    s1 = s1
    w = w
    f = f
    g1 = g1
    g2 = g2
    None = None
    bar = bar
    Bar = bar
    Text <- MCText
    NoPolicy = NoPolicy
    NoRole = NoRole
    NoHandler = NoHandler
    Tickets = {t1, t2}
    RequestIds = {i1, i2}
    Args = {a1, a2}
    Arguments = {a1, a2}
    Clean = {a1}
    Operators = {o1, o2}
    Unnamed = {}
    MaxTime = 0
    StoreYields = FALSE
    Alterations = FALSE
    DefaultTTL = 0
    RequestedTTLs = {None}
    Sessions = {s1}
    Tools = {w}
    OfferedRoles = {NoRole}
    OfferedTiers = {"L2_STATE_CHANGING", "L3_CRITICAL"}
    Functions = {f}
    Coroutines = {f}
    Handlers = {NoHandler}
    OfferedTools <- Offers
    Guards = {}
    MaxCalls = 2
    MaxCritical = 1
    MaxRate = 2
    Window = 1
    MaxMono = 0
    MaxRequests = 4
SYMMETRY Symmetry
INVARIANTS
    RuntimeTypeOK
    RunInv
    RunOnce
    RunsAuthorised
    RunsBudgeted
    TrailTellsFate
