SPECIFICATION FairSpec
CONSTANTS
    Endpoints = {p1}
    Events = {v1}
    Subscribed <- AllSubscribed
    Dispatchers = {w1, w2}
    Limit = 1
    MaxAttempts = 3
    PauseFailures = 2
    MaxFaults = 2
    MaxAdmin = 1
INVARIANTS
    TypeOK
    PostsExplained
    ActiveBelowThreshold
PROPERTIES
    DisabledStaysDisabled
    Settles
CHECK_DEADLOCK FALSE
