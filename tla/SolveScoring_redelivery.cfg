CONSTANTS
    s1 = s1
    s2 = s2
    s3 = s3
    t1 = t1
    t2 = t2
    p1 = p1
    p2 = p2
    Submissions = {s1, s3}
    TeamOf <- Owners
    Assignments <- JustOne
    Score = 3
    MinScore = 2
    Decay = 2
    Partial = 1
    Penalties = {}
    MaxReruns = 0
    MaxRepeats = 1
SPECIFICATION Spec
CHECK_DEADLOCK FALSE
PROPERTIES
    Idempotent
