CONSTANTS
    s1 = s1
    s2 = s2
    s3 = s3
    t1 = t1
    t2 = t2
    p1 = p1
    p2 = p2
    Submissions = {s1, s2, s3}
    TeamOf <- Owners
    Assignments <- Either
    Score = 5
    MinScore = 2
    Decay = 2
    Partial = 1
    Penalties = {1}
    MaxReruns = 1
    MaxRepeats = 1
SPECIFICATION Spec
SYMMETRY SameTeam
CHECK_DEADLOCK FALSE
INVARIANTS
    TypeOK
    CreditEarned
    BoardIsSum
    VerdictApplied
    ScoreByOrder
