SPECIFICATION FairSpec
CONSTANTS
    Events = {e1, e2}
    ReplayIds = {n1, n2}
    Relays = {r1, r2}
    NoEvent = NoEvent
    BatchSize = 2
    MaxAttempts = 3
    MaxErrors = 6
    MaxAborts = 1
INVARIANTS
    TypeOK
    NoLostEvent
    DuplicatesExplained
    NoForkedEvent
PROPERTIES
    ImplementsEventDelivery
    DeliveredOrParked
CHECK_DEADLOCK FALSE
