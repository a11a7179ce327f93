SPECIFICATION Spec
CONSTANTS
    w1 = w1
    w2 = w2
    h1 = h1
    h2 = h2
    e1 = e1
    e2 = e2
    none = none
    Workers = {w1, w2}
    NumTargets = 2
    Hosts = {h1}
    HostOf <- OneHost
    Malformed <- NoTarget
    Endpoints = {e1}
    NoEndpoint = none
    MaxRounds = 1
    MaxReports = 0
SYMMETRY WorkerSymmetry
INVARIANTS
    MetricsTrackAtomics
    FailedWithinSent
    RoundsCounted
