\* A store whose calls let other tasks run, cancelled calls and altered cards.
SPECIFICATION Spec
CONSTANTS
    t1 = t1
    a1 = a1
    a2 = a2
    o1 = o1
    o2 = o2
    None = None
    Tickets = {t1}
    Args = {a1, a2}
    Operators = {o1, o2}
    Unnamed = {}
    MaxTime = 2
    StoreYields = TRUE
    Alterations = TRUE
    DefaultTTL = 1
    RequestedTTLs <- DefaultZeroOrPast
SYMMETRY Symmetry
INVARIANTS
    SignedArguments
    RefusalExplained
PROPERTIES
    PendingDecidedInTime
