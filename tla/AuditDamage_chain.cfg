\* A full, damaged trail admits no step.
SPECIFICATION Spec
CONSTANTS
    c = c
    bar = bar
    a = a
    Bar = bar
    Text <- MCText
    Names <- MCNames
    Characters = {c, bar}
    Arguments = {a}
    m1 = m1
    Events <- MCEvents
    Metas = {m1}
    MaxEntries = 3
    MaxDamage = 2
CHECK_DEADLOCK FALSE
INVARIANTS
    GenuineIfIntact
PROPERTIES
    RecordingKeepsVerdict
