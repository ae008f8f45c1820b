CONSTANTS
    m1 = m1
    m2 = m2
    t1 = t1
    t2 = t2
    a1 = a1
    a2 = a2
    None = None
    Matches = {m1}
    Teams = {t1, t2}
    Sides <- OneMatch
    Actors = {a1, a2}
    MaxAttempts = 2
    BatchSize = 2
    Initial = 5
SPECIFICATION FairSpec
CHECK_DEADLOCK FALSE
 
PROPERTIES
    MatchesEnd
    ContestArchived
