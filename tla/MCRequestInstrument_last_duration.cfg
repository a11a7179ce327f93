SPECIFICATION Spec
CONSTANTS
    r1 = r1
    r2 = r2
    r3 = r3
    s1 = s1
    s2 = s2
    Requests = {r1, r2}
    Shards = {s1}
    Durations = {50, 51}
    Sizes = {3}
    MaxServed = 1
INVARIANTS
    LastDurationIsLatest
