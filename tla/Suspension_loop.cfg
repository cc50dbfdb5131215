\* One event loop over InMemoryTicketStore; liveness, hence no symmetry.
SPECIFICATION FairSpec
CONSTANTS
    t1 = t1
    t2 = t2
    a1 = a1
    o1 = o1
    o2 = o2
    None = None
    Tickets = {t1, t2}
    Args = {a1}
    Operators = {o1, o2}
    Unnamed = {o2}
    MaxTime = 2
    StoreYields = FALSE
    Alterations = FALSE
    DefaultTTL = 1
    RequestedTTLs = {None}
INVARIANTS
    TypeOK
    DecidedOnce
    DecisionInForce
    IInv
PROPERTIES
    StatusFinal
    DecisionInTime
    ImplementsLedger
    LoopReleased
