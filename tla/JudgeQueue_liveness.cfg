CONSTANTS
    t1 = t1
    t2 = t2
    w1 = w1
    w2 = w2
    Tasks = {t1, t2}
    Manual = {}
    SourceRef <- OneSource
    Workers = {w1, w2}
    NoTask = NoTask
    MaxRetries = 1
    BatchSize = 2
    ClocksAgree = TRUE
    MaxReruns = 0
SPECIFICATION FairSpec
CHECK_DEADLOCK FALSE
PROPERTIES
    TasksSettle
