\* A ticket is requested with ttl_seconds = 0.
SPECIFICATION Spec
CONSTANTS
    t1 = t1
    a1 = a1
    o1 = o1
    o2 = o2
    None = None
    Tickets = {t1}
    Args = {a1}
    Operators = {o1, o2}
    Unnamed = {}
    MaxTime = 2
    StoreYields = FALSE
    Alterations = FALSE
    DefaultTTL = 1
    RequestedTTLs = {None, 0}
SYMMETRY Symmetry
INVARIANTS
    RequestedTTLHonoured
