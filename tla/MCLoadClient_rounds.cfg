SPECIFICATION Spec
CONSTANTS
    w1 = w1
    w2 = w2
    h1 = h1
    h2 = h2
    e1 = e1
    e2 = e2
    none = none
    Workers = {w1}
    NumTargets = 2
    Hosts = {h1, h2}
    HostOf <- TwoHosts
    Malformed <- NoTarget
    Endpoints = {e1, e2}
    NoEndpoint = none
    MaxRounds = 2
    MaxReports = 1
INVARIANTS
    TypeOK
    Lockstep
    LoadParity
    ReportWithinCounts
PROPERTIES
    ImplementsLockstepRounds
