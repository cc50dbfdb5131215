\* Metadata is overwritten.
SPECIFICATION Spec
CONSTANTS
    c = c
    bar = bar
    a = a
    Bar = bar
    Text <- MCText
    Names <- MCNames
    Characters = {c, bar}
    Arguments = {a}
    m1 = m1
    m2 = m2
    Events <- OneEvent
    Metas = {m1, m2}
    MaxEntries = 2
    MaxDamage = 1
CHECK_DEADLOCK FALSE
INVARIANTS
    RecordsCovered
