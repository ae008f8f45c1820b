CONSTANTS
    t1 = t1
    t2 = t2
    w1 = w1
    w2 = w2
    Tasks = {t1, t2}
    Manual = {t2}
    SourceRef <- OneSource
    Workers = {w1, w2}
    NoTask = NoTask
    MaxRetries = 1
    BatchSize = 2
    ClocksAgree = FALSE
    MaxReruns = 1
SPECIFICATION Spec
SYMMETRY WorkerSymmetry
CHECK_DEADLOCK FALSE
INVARIANTS
    TypeOK
    OneEventPerRun
    ResultPerCompletion
    OneLiveHolder
    AttemptsBounded
    CopyIsCurrent
PROPERTIES
    ImplementsContract
