CONSTANTS
    m1 = m1
    m2 = m2
    t1 = t1
    t2 = t2
    a1 = a1
    a2 = a2
    None = None
    Matches = {m1, m2}
    Teams = {t1, t2}
    Sides <- TwoMatches
    Actors = {a1, a2}
    MaxAttempts = 1
    BatchSize = 2
    Initial = 5
SPECIFICATION Spec
SYMMETRY Interchangeable
CHECK_DEADLOCK FALSE
INVARIANTS
    TypeOK
    FinalLadder
PROPERTIES
    ArchiveFence
    RatingsMoveOnce
