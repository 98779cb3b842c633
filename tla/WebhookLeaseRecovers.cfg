SPECIFICATION FairSpec
CONSTANTS
    Endpoints = {p1}
    Events = {v1}
    Subscribed <- AllSubscribed
    Dispatchers = {w1}
    Limit = 1
    MaxAttempts = 2
    PauseFailures = 3
    MaxFaults = 1
    MaxAdmin = 0
PROPERTY
    LeaseRecovers
CHECK_DEADLOCK FALSE
