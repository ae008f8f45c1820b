CONSTANTS
    r1 = r1
    r2 = r2
    Replicas = {r1, r2}
    RetryMax = 2
    MaxMessages = 3
    Malformed = {2}
SPECIFICATION FairSpec
CHECK_DEADLOCK FALSE
INVARIANTS
    TypeOK
    InOrder
    SingleHandler
PROPERTIES
    ImplementsDelivery
    Drains
