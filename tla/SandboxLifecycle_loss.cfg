SPECIFICATION Spec
CONSTANTS
    p1 = p1
    p2 = p2
    w1 = w1
    w2 = w2
    NoCode = NoCode
    Replicas <- OneReplica
    Writes <- TwoWrites
    MaxCalls = 2
    MaxFaults = 0
PROPERTY FailedSaveKeepsNamespace
CHECK_DEADLOCK FALSE
