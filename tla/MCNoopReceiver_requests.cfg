SPECIFICATION Spec
CONSTANTS
    a1 = a1
    a2 = a2
    Handlers = {a1, a2}
    Traffic <- AllTraffic
    Counts = {0, 2}
    logSampleRate = 2
    LogCap = 1
    MaxRequests = 2
SYMMETRY HandlerSymmetry
INVARIANTS
    TypeOK
    RequestsAccounted
    SamplesExact
    PicksExact
    CounterBounded
