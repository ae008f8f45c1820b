CONSTANTS
    e1 = e1
    e2 = e2
    p1 = p1
    p2 = p2
    Events = {e1, e2}
    Publishers = {p1, p2}
    MaxAttempts = 2
    BatchSize = 2
    ClocksAgree = FALSE
SPECIFICATION FairSpec
CHECK_DEADLOCK FALSE
INVARIANTS
    TypeOK
    PublishedIsStored
PROPERTIES
    ImplementsDelivery
    EventsSettle
