\* A card holder alters the arguments of a pending ticket.
SPECIFICATION Spec
CONSTANTS
    t1 = t1
    a1 = a1
    a2 = a2
    o1 = o1
    o2 = o2
    None = None
    Tickets = {t1}
    Args = {a1, a2}
    Operators = {o1, o2}
    Unnamed = {}
    MaxTime = 2
    StoreYields = FALSE
    Alterations = TRUE
    DefaultTTL = 1
    RequestedTTLs = {None}
SYMMETRY Symmetry
PROPERTIES
    AlterationDetected
