SPECIFICATION Spec
CONSTANTS
    p1 = p1
    p2 = p2
    w1 = w1
    w2 = w2
    NoCode = NoCode
    Replicas <- TwoReplicas
    Writes <- OneWrite
    MaxCalls = 2
    MaxFaults = 0
SYMMETRY Symmetric
VIEW View
INVARIANTS TypeOK Announced SingleInit AcceptedWorkKept
PROPERTIES NoReturn
CHECK_DEADLOCK FALSE
