SPECIFICATION FairSpec
CONSTANTS
    a1 = a1
    a2 = a2
    c1 = c1
    t1 = t1
    t2 = t2
    None = None
    Checkpoints = {c1}
    Tasks = {t1, t2}
    CheckpointOf <- SameCheckpoint
    Callers = {a1, a2}
    Points = {0, 1}
    RequireReport = FALSE
    MaxCalls = 2
    MaxFaults = 1
INVARIANTS TypeOK ScoreIsSum LastEventTells VerdictDue
CHECK_DEADLOCK FALSE
PROPERTY ComesToRest
