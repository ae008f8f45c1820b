SPECIFICATION FairSpec
CONSTANTS
    p1 = p1
    p2 = p2
    w1 = w1
    w2 = w2
    NoCode = NoCode
    Replicas <- TwoReplicas
    Writes <- NoWrite
    MaxCalls = 0
    MaxFaults = 1
PROPERTIES Recycled
CHECK_DEADLOCK FALSE
