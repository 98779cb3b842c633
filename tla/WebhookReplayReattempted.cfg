SPECIFICATION FairSpec
CONSTANTS
    Endpoints = {p1}
    Events = {v1}
    Subscribed <- AllSubscribed
    Dispatchers = {w1}
    Limit = 1
    MaxAttempts = 2
    PauseFailures = 3
    MaxFaults = 0
    MaxAdmin = 1
PROPERTY
    ReplayReattempted
CHECK_DEADLOCK FALSE
