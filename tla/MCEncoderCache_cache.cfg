SPECIFICATION FairSpec
CONSTANTS
    c1 = c1
    c2 = c2
    c3 = c3
    l1 = l1
    l2 = l2
    none = none
    Callers = {c1, c2, c3}
    Levels = {l1, l2}
    NoLevel = none
    NoCaller = none
    MaxCalls = 2
INVARIANTS
    TypeOK
    NoWastedEncoder
PROPERTIES
    PublishedForever
    ImplementsMemo
    CallsReturn
