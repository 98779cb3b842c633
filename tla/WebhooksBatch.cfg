SPECIFICATION Spec
CONSTANTS
    Endpoints = {p1}
    Events = {v1, v2}
    Subscribed <- AllSubscribed
    Dispatchers = {w1, w2}
    Limit = 2
    MaxAttempts = 2
    PauseFailures = 2
    MaxFaults = 0
    MaxAdmin = 0
SYMMETRY Symmetry
INVARIANTS
    PostsExplained
    ActiveBelowThreshold
CHECK_DEADLOCK FALSE
