SPECIFICATION Spec
CONSTANTS
    r1 = r1
    r2 = r2
    r3 = r3
    s1 = s1
    s2 = s2
    Requests = {r1, r2, r3}
    Shards = {s1, s2}
    Durations = {100, 101}
    Sizes = {3}
    MaxServed = 1
SYMMETRY RequestSymmetry
INVARIANTS
    TypeOK
    InFlightExact
    SumsMatchHistogram
    BucketsMatchHistogram
    LevelsByRank
