-------------------------- MODULE BattleMatchProofs --------------------------
(***************************************************************************)
(* Theorems about BattleMatch, for any number of matches, teams, actors,   *)
(* attempts and any batch size.                                            *)
(***************************************************************************)
EXTENDS BattleMatch, Sums, TLAPS

\* A settling actor holds the lock of the contest: it is the only one, its
\* match still waits, and the ratings it read are the ratings of the ladder.
LockHeld ==
    \A a \in Actors : job[a].do = "settle" =>
        /\ job[a].on \in Matches
        /\ Awaits(job[a].on) /\ verdict[job[a].on] \in Outcome
        /\ seen[a] = board
        /\ \A b \in Actors : job[b].do = "settle" => b = a

LEMMA DeltaType ==
    ASSUME NEW o \in Outcome, NEW x \in Int, NEW y \in Int
    PROVE  ScoreDelta(o, x, y) \in -3 .. 3 /\ ScoreDelta(o, x, y) \in Int
  BY DEF ScoreDelta, Points, Expected, Outcome

USE FiniteAssumption, SidesAssumption, NoneAssumption, TokenAssumption, NumberAssumption

\* What the actions make of a job is a job.
LEMMA JobType ==
    /\ Idle \in Job
    /\ \A m \in Matches : Doing("settle", m, "") \in Job /\ Doing("deliver", m, "recycle") \in Job
    /\ Doing("archive", None, "") \in Job /\ Doing("archive", None, "claim") \in Job
    /\ \A b \in SUBSET Matches, do \in {"search", "start"} :
        [do |-> do, todo |-> b, on |-> None, at |-> ""] \in Job
    /\ \A j \in Job : /\ [j EXCEPT !.on = None, !.at = ""] \in Job
                      /\ \A at \in {"submit", "link", "recycle", "confirm"} : [j EXCEPT !.at = at] \in Job
                      /\ \A m \in Matches : [j EXCEPT !.todo = j.todo \ {m}, !.on = m, !.at = "create"] \in Job
                      /\ j.todo \in SUBSET Matches /\ j.on \in Matches \cup {None}
  BY DEF Job, Idle, Doing

\* Where one step changes several columns, each column by itself.
LEMMA StatusType ==
    ASSUME status \in [Matches -> Status], NEW a \in Actors
    PROVE  CreateFails(a) \/ StartFails(a) => status' \in [Matches -> Status]
  BY DEF CreateFails, StartFails, Mark, Status

LEMMA TokenType ==
    ASSUME token \in [Matches -> Token], NEW a \in Actors
    PROVE  Link(a) \/ CreateFails(a) \/ StartFails(a) \/ Confirm(a) => token' \in [Matches -> Token]
  <1>1. "none" \in Token /\ "gone" \in Token /\ Orphaned(a) \in [Matches -> Token]
    BY DEF Token, Orphaned
  <1>2. Link(a) => token' \in [Matches -> Token]
    BY <1>1 DEF Link
  <1>3. CreateFails(a) => token' \in [Matches -> Token]
    BY <1>1 DEF CreateFails, Mark
  <1>4. StartFails(a) => token' \in [Matches -> Token]
    BY <1>1 DEF StartFails, Mark
  <1>5. Confirm(a) => token' \in [Matches -> Token]
    BY <1>1 DEF Confirm
  <1> QED
    BY <1>2, <1>3, <1>4, <1>5

LEMMA LeaseType ==
    ASSUME lease \in [Matches -> Lease], NEW a \in Actors
    PROVE  Link(a) \/ CreateFails(a) \/ StartFails(a) \/ Confirm(a) => lease' \in [Matches -> Lease]
  <1>1. "none" \in Lease
    BY DEF Lease
  <1>2. Link(a) \/ Confirm(a) => lease' \in [Matches -> Lease]
    BY <1>1 DEF Link, Confirm
  <1>3. CreateFails(a) \/ StartFails(a) => lease' \in [Matches -> Lease]
    BY <1>1 DEF CreateFails, StartFails, Mark
  <1> QED
    BY <1>2, <1>3

LEMMA JobsType ==
    ASSUME job \in [Actors -> Job], NEW a \in Actors
    PROVE  /\ Settle(a) \/ Stop(a) \/ StartFails(a) => job' \in [Actors -> Job]
           /\ \A batch \in SUBSET Matches :
                SearchMatches(a, batch) \/ Claim(a, batch) => job' \in [Actors -> Job]
  <1>1. Settle(a) \/ Stop(a) => job' \in [Actors -> Job]
    BY JobType DEF Settle, Stop, Becomes
  <1>2. ASSUME NEW batch \in SUBSET Matches, SearchMatches(a, batch) \/ Claim(a, batch)
        PROVE  job' \in [Actors -> Job]
    <2>1. /\ [do |-> "start", todo |-> batch, on |-> None, at |-> ""] \in Job
          /\ [do |-> "search", todo |-> batch, on |-> None, at |-> ""] \in Job /\ Idle \in Job
      BY JobType
    <2> QED
      BY <1>2, <2>1 DEF SearchMatches, Claim, Becomes
  <1>3. ASSUME StartFails(a) PROVE job' \in [Actors -> Job]
    <2>1. job[a] \in Job
      OBVIOUS
    <2>2. [job[a] EXCEPT !.at = "recycle"] \in Job /\ [job[a] EXCEPT !.on = None, !.at = ""] \in Job
      BY <2>1, JobType
    <2> QED
      BY <1>3, <2>2 DEF StartFails, Becomes, NextInBatch
  <1> QED
    BY <1>1, <1>2, <1>3

LEMMA TriesType ==
    ASSUME tries \in [Matches -> 0 .. MaxAttempts], NEW a \in Actors, NEW batch \in SUBSET Matches,
           Claim(a, batch)
    PROVE  tries' \in [Matches -> 0 .. MaxAttempts]
  <1>1. ASSUME NEW m \in Matches PROVE (IF m \in batch THEN tries[m] + 1 ELSE tries[m]) \in 0 .. MaxAttempts
    <2>1. m \in batch => tries[m] < MaxAttempts
      BY DEF Claim, Startable
    <2> QED
      BY <2>1
  <1> QED
    BY <1>1 DEF Claim

LEMMA RatingsType ==
    ASSUME NEW r \in [Teams -> Int], NEW q \in [Teams -> Int], NEW m \in Matches, NEW d \in Int
    PROVE  Rated(r, q, m, d) \in [Teams -> Int]
  <1>1. Sides[m].a \in Teams /\ Sides[m].b \in Teams
    OBVIOUS
  <1>2. q[Sides[m].a] + d \in Int /\ q[Sides[m].b] - d \in Int
    BY <1>1
  <1> QED
    BY <1>2 DEF Rated

LEMMA SeenType ==
    ASSUME seen \in [Actors -> [Teams -> Int]], NEW a \in Actors, Settle(a) \/ Stop(a)
    PROVE  seen' \in [Actors -> [Teams -> Int]]
  BY DEF Settle, Stop, NoRatings

LEMMA TypeStep == TypeOK /\ LockHeld /\ [Next]_vars => TypeOK'
  <1> SUFFICES ASSUME TypeOK, LockHeld, [Next]_vars PROVE TypeOK'
    OBVIOUS
  <1> USE JobType DEF TypeOK, match, contest, engines, Becomes, NextInBatch
  <1>a. /\ "none" \in Lease /\ "live" \in Lease /\ "expired" \in Lease
        /\ "none" \in Token /\ "gone" \in Token /\ Actors \subseteq Token
    BY DEF Lease, Token
  <1>b. /\ "none" \in Status /\ "entering" \in Status /\ "pending" \in Status
        /\ "running" \in Status /\ "done" \in Status /\ "failed" \in Status
    BY DEF Status
  <1>1. CASE TimeUp
    BY <1>1 DEF TimeUp
  <1>2. CASE End
    BY <1>2 DEF End
  <1>3. CASE ExpireArchive
    BY <1>3, <1>a DEF ExpireArchive
  <1>4. ASSUME NEW m \in Matches, Enter(m) PROVE TypeOK'
    BY <1>4, <1>a, <1>b DEF Enter
  <1>5. ASSUME NEW m \in Matches, EndEntry(m) PROVE TypeOK'
    <2>1. PICK s \in {"pending", "none"} : status' = [status EXCEPT ![m] = s]
      BY <1>5 DEF EndEntry
    <2>2. status' \in [Matches -> Status]
      BY <2>1, <1>b
    <2> QED
      BY <1>5, <2>2 DEF EndEntry
  <1>6. ASSUME NEW m \in Matches, Expire(m) PROVE TypeOK'
    BY <1>6, <1>a, <1>b DEF Expire
  <1>7. ASSUME NEW m \in Matches, JudgeEnds(m) PROVE TypeOK'
    <2>1. PICK v \in Outcome \cup {"unusable", "lost"} : verdict' = [verdict EXCEPT ![m] = v]
      BY <1>7 DEF JudgeEnds
    <2>2. verdict' \in [Matches -> Verdict]
      BY <2>1 DEF Verdict
    <2> QED
      BY <1>7, <2>2 DEF JudgeEnds
  <1>8. ASSUME NEW m \in Matches, JudgeLost(m) PROVE TypeOK'
    BY <1>8, <1>a, <1>b DEF JudgeLost
  <1>9. ASSUME NEW a \in Actors, Begin(a) PROVE TypeOK'
    <2>1. PICK m \in job[a].todo :
            job' = [job EXCEPT ![a] = [job[a] EXCEPT !.todo = job[a].todo \ {m}, !.on = m, !.at = "create"]]
      BY <1>9 DEF Begin
    <2>2. m \in Matches
      OBVIOUS
    <2>3. [job[a] EXCEPT !.todo = job[a].todo \ {m}, !.on = m, !.at = "create"] \in Job
      BY <2>2
    <2>4. job' \in [Actors -> Job]
      BY <2>1, <2>3
    <2> QED
      BY <1>9, <2>4 DEF Begin
  <1>10. ASSUME NEW a \in Actors, CreateSandbox(a) PROVE TypeOK'
    BY <1>10 DEF CreateSandbox, Starting
  <1>11. ASSUME NEW a \in Actors, Submit(a) PROVE TypeOK'
    BY <1>11 DEF Submit, SubmitTask, Starting, Verdict
  <1>12. ASSUME NEW a \in Actors, Link(a) PROVE TypeOK'
    BY <1>12, TokenType, LeaseType DEF Link
  <1>13. ASSUME NEW a \in Actors, CreateFails(a) PROVE TypeOK'
    <2>1. status' \in [Matches -> Status] /\ token' \in [Matches -> Token] /\ lease' \in [Matches -> Lease]
      BY <1>13, StatusType, TokenType, LeaseType
    <2> QED
      BY <1>13, <2>1 DEF CreateFails
  <1>14. ASSUME NEW a \in Actors, StartFails(a) PROVE TypeOK'
    <2>1. job' \in [Actors -> Job]
      BY <1>14, JobsType
    <2>2. status' \in [Matches -> Status] /\ token' \in [Matches -> Token] /\ lease' \in [Matches -> Lease]
      BY <1>14, StatusType, TokenType, LeaseType
    <2> QED
      BY <1>14, <2>1, <2>2 DEF StartFails
  <1>15. ASSUME NEW a \in Actors, Recycle(a) PROVE TypeOK'
    BY <1>15 DEF Recycle, Starting
  <1>16. ASSUME NEW a \in Actors, GiveUp(a) PROVE TypeOK'
    BY <1>16 DEF GiveUp
  <1>17. ASSUME NEW a \in Actors, PassOver(a) PROVE TypeOK'
    BY <1>17, <1>a, <1>b DEF PassOver, Orphaned, Starting
  <1>18. ASSUME NEW a \in Actors, Settle(a) PROVE TypeOK'
    <2> DEFINE m == job[a].on
               d == ScoreDelta(verdict[m], seen[a][Sides[m].a], seen[a][Sides[m].b])
    <2>1. m \in Matches /\ verdict[m] \in Outcome /\ seen[a] \in [Teams -> Int]
      BY <1>18 DEF Settle, LockHeld
    <2>2. Sides[m].a \in Teams /\ Sides[m].b \in Teams
      BY <2>1
    <2>3. d \in -3 .. 3 /\ d \in Int
      BY <2>1, <2>2, DeltaType
    <2>4. /\ status' = [status EXCEPT ![m] = "done"]
          /\ token' = [token EXCEPT ![m] = "none"] /\ lease' = [lease EXCEPT ![m] = "none"]
          /\ delta' = [delta EXCEPT ![m] = d] /\ board' = Rated(board, seen[a], m, d)
      BY <1>18 DEF Settle
    <2> HIDE DEF d, m
    <2>5. delta' \in [Matches -> -3 .. 3]
      BY <2>3, <2>4
    <2>6. board' \in [Teams -> Int]
      BY <2>1, <2>3, <2>4, RatingsType
    <2>7. seen' \in [Actors -> [Teams -> Int]] /\ job' \in [Actors -> Job]
      BY <1>18, SeenType, JobsType
    <2>8. status' \in [Matches -> Status] /\ token' \in [Matches -> Token] /\ lease' \in [Matches -> Lease]
      BY <2>4, <1>a, <1>b
    <2> QED
      BY <1>18, <2>5, <2>6, <2>7, <2>8 DEF Settle
  <1>19. ASSUME NEW a \in Actors, Deliver(a) PROVE TypeOK'
    BY <1>19 DEF Deliver
  <1>20. ASSUME NEW a \in Actors, Confirm(a) PROVE TypeOK'
    <2>1. token' \in [Matches -> Token] /\ lease' \in [Matches -> Lease]
      BY <1>20, TokenType, LeaseType
    <2> QED
      BY <1>20, <2>1 DEF Confirm
  <1>21. ASSUME NEW a \in Actors, SearchArchive(a) \/ ClaimArchive(a) PROVE TypeOK'
    <2>1. CASE SearchArchive(a)
      BY <2>1 DEF SearchArchive
    <2>2. CASE ClaimArchive(a)
      <3>1. Doing("archive", None, "") \in Job /\ Idle \in Job
        BY JobType
      <3>2. job' \in [Actors -> Job]
        BY <2>2, <3>1 DEF ClaimArchive
      <3>3. phase' \in {"running", "ended", "archived"} /\ archToken' \in Token /\ archLease' \in Lease
        BY <2>2, <1>a DEF ClaimArchive
      <3> QED
        BY <2>2, <3>2, <3>3 DEF ClaimArchive
    <2> QED
      BY <1>21, <2>1, <2>2
  <1>22. ASSUME NEW a \in Actors, Archive(a) PROVE TypeOK'
    BY <1>22, <1>a, <1>b DEF Archive
  <1>23. ASSUME NEW a \in Actors, Stop(a) PROVE TypeOK'
    <2>1. token' \in [Matches -> Token] /\ archToken' \in Token
      BY <1>23, <1>a DEF Stop, Orphaned
    <2>2. seen' \in [Actors -> [Teams -> Int]] /\ job' \in [Actors -> Job]
      BY <1>23, SeenType, JobsType
    <2> QED
      BY <1>23, <2>1, <2>2 DEF Stop
  <1>24. ASSUME NEW a \in Actors, NEW batch \in SUBSET Matches, Claim(a, batch) PROVE TypeOK'
    <2>1. /\ status' \in [Matches -> Status] /\ token' \in [Matches -> Token]
          /\ lease' \in [Matches -> Lease]
      BY <1>24, <1>a, <1>b DEF Claim
    <2>2. tries' \in [Matches -> 0 .. MaxAttempts]
      BY <1>24, TriesType
    <2>3. job' \in [Actors -> Job]
      BY <1>24, JobsType
    <2> QED
      BY <1>24, <2>1, <2>2, <2>3 DEF Claim
  <1>25. ASSUME NEW a \in Actors, NEW m \in Matches, Lock(a, m) PROVE TypeOK'
    BY <1>25 DEF Lock
  <1>26. ASSUME NEW a \in Actors, NEW m \in Matches, ClaimDelivery(a, m) PROVE TypeOK'
    BY <1>26, <1>a, <1>b DEF ClaimDelivery
  <1>27. CASE UNCHANGED vars
    BY <1>27 DEF vars
  <1>28. ASSUME NEW a \in Actors, NEW batch \in SUBSET Matches, SearchMatches(a, batch) PROVE TypeOK'
    <2>1. job' \in [Actors -> Job]
      BY <1>28, JobsType
    <2> QED
      BY <1>28, <2>1 DEF SearchMatches
  <1> QED
    BY <1>1, <1>2, <1>3, <1>4, <1>5, <1>6, <1>7, <1>8, <1>9, <1>10, <1>11, <1>12, <1>13, <1>14,
       <1>15, <1>16, <1>17, <1>18, <1>19, <1>20, <1>21, <1>22, <1>23, <1>24, <1>25, <1>26, <1>27,
       <1>28 DEF Next, Start

-----------------------------------------------------------------------------
(* The lock of the contest *)

\* A step that keeps the ladder, the awaiting matches and what settling actors
\* know, and lets nobody begin to settle.
Keeps ==
    /\ board' = board
    /\ \A a \in Actors : job'[a].do = "settle" => job'[a] = job[a] /\ seen'[a] = seen[a]
    /\ \A m \in Matches : Awaits(m) /\ verdict[m] \in Outcome =>
            started'[m] /\ status'[m] = "running" /\ verdict'[m] = verdict[m]

LEMMA LockKept == LockHeld /\ Keeps => LockHeld'
  BY DEF LockHeld, Keeps, Awaits

LEMMA KeepsCases ==
    ASSUME TypeOK, Next
    PROVE  \/ Keeps
           \/ \E m \in Matches : JudgeLost(m)
           \/ \E a \in Actors : Settle(a)
           \/ \E a \in Actors, m \in Matches : Lock(a, m)
  <1> USE DEF TypeOK, Keeps, Awaits, match, contest, engines, Becomes, NextInBatch
  <1>1. CASE TimeUp
    BY <1>1 DEF TimeUp
  <1>2. CASE End
    BY <1>2 DEF End
  <1>3. CASE ExpireArchive
    BY <1>3 DEF ExpireArchive
  <1>4. ASSUME NEW m \in Matches, Enter(m) PROVE Keeps
    BY <1>4 DEF Enter
  <1>5. ASSUME NEW m \in Matches, EndEntry(m) PROVE Keeps
    BY <1>5 DEF EndEntry
  <1>6. ASSUME NEW m \in Matches, Expire(m) PROVE Keeps
    BY <1>6 DEF Expire
  <1>7. ASSUME NEW m \in Matches, JudgeEnds(m) PROVE Keeps
    BY <1>7 DEF JudgeEnds, Outcome
  <1>8. ASSUME NEW a \in Actors, Begin(a) PROVE Keeps
    <2>1. PICK m \in Matches :
            job' = [job EXCEPT ![a] = [job[a] EXCEPT !.todo = job[a].todo \ {m}, !.on = m, !.at = "create"]]
      BY <1>8, JobType DEF Begin
    <2>2. job'[a].do = job[a].do /\ job[a].do = "start"
      BY <1>8, <2>1 DEF Begin, Starting, Job
    <2>3. \A b \in Actors : job'[b].do = "settle" => job'[b] = job[b]
      BY <2>1, <2>2
    <2> QED
      BY <1>8, <2>3 DEF Begin
  <1>9. ASSUME NEW a \in Actors, CreateSandbox(a) PROVE Keeps
    BY <1>9 DEF CreateSandbox, Starting
  <1>10. ASSUME NEW a \in Actors, Submit(a) PROVE Keeps
    BY <1>10 DEF Submit, SubmitTask, Starting, Outcome
  <1>11. ASSUME NEW a \in Actors, Link(a) PROVE Keeps
    BY <1>11 DEF Link, Starting
  <1>12. ASSUME NEW a \in Actors, CreateFails(a) PROVE Keeps
    BY <1>12 DEF CreateFails, Mark, Holds, Starting
  <1>13. ASSUME NEW a \in Actors, StartFails(a) PROVE Keeps
    <2> DEFINE j == [job[a] EXCEPT !.at = "recycle"]
               k == [job[a] EXCEPT !.on = None, !.at = ""]
    <2>0. /\ j.do = "start" /\ k.do = "start"
          /\ job' = [job EXCEPT ![a] = j] \/ job' = [job EXCEPT ![a] = k]
      BY <1>13 DEF StartFails, Starting, Job
    <2> HIDE DEF j, k
    <2>1. job'[a].do = "start"
      BY <2>0
    <2>2. \A b \in Actors : job'[b].do = "settle" => job'[b] = job[b]
      BY <2>0
    <2>3. \A m \in Matches : started[m] => status'[m] = status[m]
      BY <1>13 DEF StartFails, Mark, Holds
    <2> QED
      BY <1>13, <2>2, <2>3 DEF StartFails
  <1>14. ASSUME NEW a \in Actors, Recycle(a) PROVE Keeps
    BY <1>14 DEF Recycle, Starting
  <1>15. ASSUME NEW a \in Actors, GiveUp(a) PROVE Keeps
    BY <1>15 DEF GiveUp
  <1>16. ASSUME NEW a \in Actors, PassOver(a) PROVE Keeps
    BY <1>16 DEF PassOver, Idle, Starting
  <1>17. ASSUME NEW a \in Actors, Deliver(a) PROVE Keeps
    BY <1>17 DEF Deliver
  <1>18. ASSUME NEW a \in Actors, Confirm(a) PROVE Keeps
    BY <1>18 DEF Confirm, Idle
  <1>19. ASSUME NEW a \in Actors, SearchArchive(a) \/ ClaimArchive(a) PROVE Keeps
    <2>1. Doing("archive", None, "").do = "archive" /\ Doing("archive", None, "claim").do = "archive"
          /\ Idle.do = "idle"
      BY DEF Doing, Idle
    <2>2. \A b \in Actors : job'[b].do = "settle" => job'[b] = job[b]
      BY <1>19, <2>1 DEF SearchArchive, ClaimArchive
    <2> QED
      BY <1>19, <2>2 DEF SearchArchive, ClaimArchive
  <1>20. ASSUME NEW a \in Actors, Archive(a) PROVE Keeps
    BY <1>20 DEF Archive, Idle
  <1>21. ASSUME NEW a \in Actors, Stop(a) PROVE Keeps
    BY <1>21 DEF Stop, Idle
  <1>22. ASSUME NEW a \in Actors, NEW batch \in SUBSET Matches, Claim(a, batch) PROVE Keeps
    <2> DEFINE j == [do |-> "start", todo |-> batch, on |-> None, at |-> ""]
    <2>0. /\ j.do = "start" /\ Idle.do = "idle"
          /\ job' = [job EXCEPT ![a] = Idle] \/ job' = [job EXCEPT ![a] = j]
      BY <1>22 DEF Claim, Idle
    <2> HIDE DEF j
    <2>1. \A b \in Actors : job'[b].do = "settle" => job'[b] = job[b]
      BY <2>0
    <2>2. \A m \in Matches : Awaits(m) => m \notin Exhausted /\ ~ Startable(m)
      BY DEF Startable, Exhausted, Stale
    <2>3. \A m \in Matches : Awaits(m) => status'[m] = "running" /\ started'[m]
      BY <1>22, <2>2 DEF Claim
    <2> QED
      BY <1>22, <2>1, <2>3 DEF Claim
  <1>23. ASSUME NEW a \in Actors, NEW m \in Matches, ClaimDelivery(a, m) PROVE Keeps
    BY <1>23 DEF ClaimDelivery, Doing
  <1>24. ASSUME NEW a \in Actors, NEW batch \in SUBSET Matches, SearchMatches(a, batch) PROVE Keeps
    <2> DEFINE j == [do |-> "search", todo |-> batch, on |-> None, at |-> ""]
    <2>1. j.do = "search" /\ job' = [job EXCEPT ![a] = j]
      BY <1>24 DEF SearchMatches
    <2> HIDE DEF j
    <2>2. \A b \in Actors : job'[b].do = "settle" => job'[b] = job[b]
      BY <2>1
    <2> QED
      BY <1>24, <2>2 DEF SearchMatches
  <1> QED
    BY <1>1, <1>2, <1>3, <1>4, <1>5, <1>6, <1>7, <1>8, <1>9, <1>10, <1>11, <1>12, <1>13, <1>14,
       <1>15, <1>16, <1>17, <1>18, <1>19, <1>20, <1>21, <1>22, <1>23, <1>24 DEF Next, Start

LEMMA LockStep == TypeOK /\ LockHeld /\ [Next]_vars => LockHeld'
  <1> SUFFICES ASSUME TypeOK, LockHeld, [Next]_vars PROVE LockHeld'
    OBVIOUS
  <1>1. ASSUME NEW m \in Matches, JudgeLost(m) PROVE LockHeld'
    BY <1>1 DEF JudgeLost, NoSettlement, LockHeld
  <1>2. ASSUME NEW a \in Actors, Settle(a) PROVE LockHeld'
    <2>1. \A b \in Actors : job'[b].do # "settle"
      BY <1>2 DEF Settle, LockHeld, Becomes, Idle, TypeOK
    <2> QED
      BY <2>1 DEF LockHeld
  <1>3. ASSUME NEW a \in Actors, NEW m \in Matches, Lock(a, m) PROVE LockHeld'
    <2>1. \A b \in Actors \ {a} : job'[b].do # "settle"
      BY <1>3 DEF Lock, Unlocked, NoSettlement, Becomes, TypeOK
    <2>2. job'[a].on = m /\ seen'[a] = board' /\ started' = started /\ status' = status /\ verdict' = verdict
      BY <1>3 DEF Lock, Becomes, Doing, TypeOK, match, contest, engines
    <2>3. Awaits(m) /\ verdict[m] \in Outcome
      BY <1>3 DEF Lock
    <2> QED
      BY <2>1, <2>2, <2>3 DEF LockHeld, Awaits
  <1>4. CASE UNCHANGED vars
    BY <1>4 DEF LockHeld, Awaits, vars, match, contest, engines
  <1> QED
    BY <1>1, <1>2, <1>3, <1>4, KeepsCases, LockKept

-----------------------------------------------------------------------------
(* The life of a match *)

\* Every way a match moves in one step; whatever is terminal stays.
Move(m) ==
    \/ status'[m] = status[m] /\ (status[m] \in Terminal => delta'[m] = delta[m] /\ tries'[m] = tries[m])
    \/ status[m] = "none" /\ status'[m] = "entering" /\ phase = "running"
    \/ status[m] = "entering" /\ status'[m] \in {"pending", "none"}
    \/ status[m] = "pending" /\ status'[m] = "running"
    \/ status[m] = "running" /\ status'[m] = "failed"
    \/ status[m] = "running" /\ status'[m] = "done" /\ \E a \in Actors : Settle(a)

LEMMA EveryMove ==
    ASSUME TypeOK, LockHeld, [Next]_vars, NEW m \in Matches
    PROVE  Move(m)
  <1> USE DEF TypeOK, Move, Terminal, match, contest, engines
  <1>1. CASE TimeUp
    BY <1>1 DEF TimeUp
  <1>2. CASE End
    BY <1>2 DEF End
  <1>3. CASE ExpireArchive
    BY <1>3 DEF ExpireArchive
  <1>4. ASSUME NEW n \in Matches, Enter(n) PROVE Move(m)
    BY <1>4 DEF Enter
  <1>5. ASSUME NEW n \in Matches, EndEntry(n) PROVE Move(m)
    BY <1>5 DEF EndEntry
  <1>6. ASSUME NEW n \in Matches, Expire(n) PROVE Move(m)
    BY <1>6 DEF Expire
  <1>7. ASSUME NEW n \in Matches, JudgeEnds(n) PROVE Move(m)
    BY <1>7 DEF JudgeEnds
  <1>8. ASSUME NEW n \in Matches, JudgeLost(n) PROVE Move(m)
    BY <1>8 DEF JudgeLost, Awaits
  <1>9. ASSUME NEW a \in Actors, Begin(a) PROVE Move(m)
    BY <1>9 DEF Begin
  <1>10. ASSUME NEW a \in Actors, CreateSandbox(a) PROVE Move(m)
    BY <1>10 DEF CreateSandbox
  <1>11. ASSUME NEW a \in Actors, Submit(a) PROVE Move(m)
    BY <1>11 DEF Submit
  <1>12. ASSUME NEW a \in Actors, Link(a) PROVE Move(m)
    BY <1>12 DEF Link
  <1>13. ASSUME NEW a \in Actors, CreateFails(a) PROVE Move(m)
    BY <1>13 DEF CreateFails, Mark, Holds
  <1>14. ASSUME NEW a \in Actors, StartFails(a) PROVE Move(m)
    BY <1>14 DEF StartFails, Mark, Holds
  <1>15. ASSUME NEW a \in Actors, Recycle(a) PROVE Move(m)
    BY <1>15 DEF Recycle
  <1>16. ASSUME NEW a \in Actors, GiveUp(a) PROVE Move(m)
    BY <1>16 DEF GiveUp
  <1>17. ASSUME NEW a \in Actors, PassOver(a) PROVE Move(m)
    BY <1>17 DEF PassOver
  <1>18. ASSUME NEW a \in Actors, Settle(a) PROVE Move(m)
    <2>1. job[a].on \in Matches /\ status[job[a].on] = "running"
      BY <1>18 DEF Settle, LockHeld, Awaits
    <2> QED
      BY <1>18, <2>1 DEF Settle
  <1>19. ASSUME NEW a \in Actors, Deliver(a) PROVE Move(m)
    BY <1>19 DEF Deliver
  <1>20. ASSUME NEW a \in Actors, Confirm(a) PROVE Move(m)
    BY <1>20 DEF Confirm
  <1>21. ASSUME NEW a \in Actors, SearchArchive(a) \/ ClaimArchive(a) PROVE Move(m)
    BY <1>21 DEF SearchArchive, ClaimArchive
  <1>22. ASSUME NEW a \in Actors, Archive(a) PROVE Move(m)
    BY <1>22 DEF Archive
  <1>23. ASSUME NEW a \in Actors, Stop(a) PROVE Move(m)
    BY <1>23 DEF Stop
  <1>24. ASSUME NEW a \in Actors, NEW batch \in SUBSET Matches, Claim(a, batch) PROVE Move(m)
    <2>1. m \in Exhausted => status[m] = "running"
      BY DEF Exhausted, Stale
    <2>2. m \in batch => status[m] \in {"pending", "running"}
      BY <1>24 DEF Claim, Startable, Stale
    <2>3. status'[m] = (IF m \in Exhausted THEN "failed" ELSE IF m \in batch THEN "running" ELSE status[m])
      BY <1>24 DEF Claim
    <2>4. tries'[m] = (IF m \in batch THEN tries[m] + 1 ELSE tries[m]) /\ delta' = delta
      BY <1>24 DEF Claim
    <2> QED
      BY <2>1, <2>2, <2>3, <2>4
  <1>25. ASSUME NEW a \in Actors, NEW n \in Matches, Lock(a, n) PROVE Move(m)
    BY <1>25 DEF Lock
  <1>26. ASSUME NEW a \in Actors, NEW n \in Matches, ClaimDelivery(a, n) PROVE Move(m)
    BY <1>26 DEF ClaimDelivery
  <1>27. CASE UNCHANGED vars
    BY <1>27 DEF vars
  <1>28. ASSUME NEW a \in Actors, NEW batch \in SUBSET Matches, SearchMatches(a, batch) PROVE Move(m)
    BY <1>28 DEF SearchMatches
  <1> QED
    BY <1>1, <1>2, <1>3, <1>4, <1>5, <1>6, <1>7, <1>8, <1>9, <1>10, <1>11, <1>12, <1>13, <1>14,
       <1>15, <1>16, <1>17, <1>18, <1>19, <1>20, <1>21, <1>22, <1>23, <1>24, <1>25, <1>26, <1>27,
       <1>28 DEF Next, Start

-----------------------------------------------------------------------------
(* Ratings *)

\* The steps that move ratings.
Rates ==
    \E m \in Matches :
        /\ status[m] = "running" /\ status'[m] = "done"
        /\ \A n \in Matches \ {m} : status'[n] = status[n]
        /\ delta'[m] = ScoreDelta(verdict[m], board[Sides[m].a], board[Sides[m].b])
        /\ board' = Rated(board, board, m, delta'[m])

LEMMA SettleRates == ASSUME TypeOK, LockHeld, NEW a \in Actors, Settle(a) PROVE Rates
  <1> DEFINE m == job[a].on
             d == ScoreDelta(verdict[m], seen[a][Sides[m].a], seen[a][Sides[m].b])
  <1>1. m \in Matches /\ status[m] = "running" /\ seen[a] = board
    BY DEF Settle, LockHeld, Awaits
  <1>2. status' = [status EXCEPT ![m] = "done"] /\ delta' = [delta EXCEPT ![m] = d]
        /\ board' = Rated(board, seen[a], m, d)
    BY DEF Settle
  <1>3. delta'[m] = d
    BY <1>1, <1>2 DEF TypeOK
  <1> QED
    BY <1>1, <1>2, <1>3 DEF Rates, TypeOK

LEMMA RatesStep ==
    ASSUME TypeOK, LockHeld, [Next]_vars
    PROVE  \/ board' = board /\ \A m \in Matches : status'[m] = "done" => status[m] = "done"
           \/ Rates
  <1>1. CASE \E a \in Actors : Settle(a)
    BY <1>1, SettleRates
  <1>2. CASE ~ \E a \in Actors : Settle(a)
    <2>1. \A m \in Matches : status'[m] = "done" => status[m] = "done"
      BY <1>2, EveryMove DEF Move
    <2>2. board' = board
      BY <1>2, KeepsCases DEF Keeps, JudgeLost, Lock, vars, contest
    <2> QED
      BY <2>1, <2>2
  <1> QED
    BY <1>1, <1>2

-----------------------------------------------------------------------------
(* Archiving *)

\* A running contest is not claimed for archiving, an ended one has no entry
\* on its way, and an archived one has no active match.
ArchiveInv ==
    /\ phase = "running" => archToken = "none"
    /\ phase # "running" => NoEntry
    /\ phase = "archived" => \A m \in Matches : status[m] \notin Active

LEMMA ContestCases ==
    ASSUME Next
    PROVE  \/ phase' = phase /\ archToken' = archToken
           \/ End
           \/ \E a \in Actors : ClaimArchive(a) \/ Archive(a) \/ Stop(a)
  <1> DEFINE Same == phase' = phase /\ archToken' = archToken
  <1>1. TimeUp \/ ExpireArchive => Same
    BY DEF TimeUp, ExpireArchive
  <1>2. \A m \in Matches : Enter(m) \/ EndEntry(m) \/ Expire(m) \/ JudgeEnds(m) \/ JudgeLost(m) => Same
    BY DEF Enter, EndEntry, Expire, JudgeEnds, JudgeLost, contest
  <1>3. \A a \in Actors : Begin(a) \/ CreateSandbox(a) \/ Submit(a) \/ Link(a) \/ CreateFails(a) => Same
    BY DEF Begin, CreateSandbox, Submit, Link, CreateFails, contest
  <1>4. \A a \in Actors : StartFails(a) \/ Recycle(a) \/ GiveUp(a) \/ PassOver(a) => Same
    BY DEF StartFails, Recycle, GiveUp, PassOver, contest
  <1>5. \A a \in Actors : Settle(a) \/ Deliver(a) \/ Confirm(a) => Same
    BY DEF Settle, Deliver, Confirm, contest
  <1>6. \A a \in Actors : \A batch \in SUBSET Matches : Claim(a, batch) => Same
    BY DEF Claim, contest
  <1>7. \A a \in Actors : \A m \in Matches : Lock(a, m) \/ ClaimDelivery(a, m) => Same
    BY DEF Lock, ClaimDelivery, contest
  <1>0. \A a \in Actors :
            SearchArchive(a) \/ (\E batch \in SUBSET Matches : SearchMatches(a, batch)) => Same
    BY DEF SearchArchive, SearchMatches, contest
  <1> HIDE DEF Same
  <1>8. Same \/ End \/ \E a \in Actors : ClaimArchive(a) \/ Archive(a) \/ Stop(a)
    BY <1>0, <1>1, <1>2, <1>3, <1>4, <1>5, <1>6, <1>7 DEF Next, Start
  <1> QED
    BY <1>8 DEF Same

LEMMA ArchiveStep == TypeOK /\ LockHeld /\ ArchiveInv /\ [Next]_vars => ArchiveInv'
  <1> SUFFICES ASSUME TypeOK, LockHeld, ArchiveInv, [Next]_vars PROVE ArchiveInv'
    OBVIOUS
  <1>1. CASE phase' = phase /\ archToken' = archToken
    <2>1. phase # "running" => \A m \in Matches : status'[m] # "entering"
      BY EveryMove DEF Move, ArchiveInv, NoEntry
    <2>2. phase = "archived" => \A m \in Matches : status'[m] \notin Active
      BY EveryMove DEF Move, ArchiveInv, NoEntry, Active
    <2> QED
      BY <1>1, <2>1, <2>2 DEF ArchiveInv, NoEntry
  <1>2. CASE End
    BY <1>2 DEF End, ArchiveInv, NoEntry, match
  <1>3. ASSUME NEW a \in Actors, ClaimArchive(a) PROVE ArchiveInv'
    <2>1. /\ status' = status
          /\ \/ phase' = "ended" /\ NoEntry
             \/ phase' = phase /\ archToken' = archToken
      BY <1>3 DEF ClaimArchive, Claims, match
    <2> QED
      BY <2>1 DEF ArchiveInv, NoEntry
  <1>4. ASSUME NEW a \in Actors, Archive(a) PROVE ArchiveInv'
    BY <1>4 DEF Archive, Archives, ArchiveInv, NoEntry, NoneActive, match
  <1>5. ASSUME NEW a \in Actors, Stop(a) PROVE ArchiveInv'
    <2>1. archToken = "none" => archToken' = "none"
      BY <1>5 DEF Stop
    <2> QED
      BY <1>5, <2>1 DEF Stop, ArchiveInv, NoEntry
  <1>6. CASE UNCHANGED vars
    BY <1>6, <1>1 DEF vars, contest
  <1> QED
    BY <1>1, <1>2, <1>3, <1>4, <1>5, <1>6, ContestCases

\* Once the contest is claimed nothing is settled, and no match becomes active.
LEMMA FenceStep ==
    ASSUME TypeOK, LockHeld, ArchiveInv, [Next]_vars, archToken # "none"
    PROVE  /\ board' = board
           /\ \A m \in Matches : status'[m] \in Active \cup {"entering"} => status[m] \in Active
  <1>1. ~ Open /\ NoEntry /\ phase # "running"
    BY DEF ArchiveInv, Open
  <1>2. \A a \in Actors : ~ Settle(a)
    BY <1>1 DEF Settle
  <1>3. board' = board
    BY <1>2, KeepsCases DEF Keeps, JudgeLost, Lock, vars, contest
  <1>4. \A m \in Matches : status'[m] \in Active \cup {"entering"} => status[m] \in Active
    BY <1>1, EveryMove DEF Move, NoEntry, Active
  <1> QED
    BY <1>3, <1>4

-----------------------------------------------------------------------------
(* The ladder *)

\* What matches with score changes d made of the rating a team began with.
Part(d, t, m) == IF Sides[m].a = t THEN d[m] ELSE IF Sides[m].b = t THEN - d[m] ELSE 0
Accounted(d, t) == Initial + SumFunctionOnSet([m \in Matches |-> Part(d, t, m)], Matches)

\* The ladder is accounted for at any time, a match that is not decided has
\* changed nothing, and the ladder of an archived contest is frozen.
LadderInv ==
    /\ \A m \in Matches : status[m] # "done" => delta[m] = 0
    /\ \A t \in Teams : board[t] = Accounted(delta, t)
    /\ phase = "archived" => snapshot = board

LEMMA LadderCases ==
    ASSUME [Next]_vars
    PROVE  \/ /\ board' = board /\ delta' = delta /\ snapshot' = snapshot
              /\ phase' = "archived" => phase = "archived"
           \/ \E a \in Actors : Settle(a) \/ Archive(a)
  <1> DEFINE Same == /\ board' = board /\ delta' = delta /\ snapshot' = snapshot
                     /\ phase' = "archived" => phase = "archived"
  <1>1. TimeUp \/ End \/ ExpireArchive => Same
    BY DEF TimeUp, End, ExpireArchive, match
  <1>2. \A m \in Matches : Enter(m) \/ EndEntry(m) \/ Expire(m) \/ JudgeEnds(m) \/ JudgeLost(m) => Same
    BY DEF Enter, EndEntry, Expire, JudgeEnds, JudgeLost, contest, match
  <1>3. \A a \in Actors : Begin(a) \/ CreateSandbox(a) \/ Submit(a) \/ Link(a) \/ CreateFails(a) => Same
    BY DEF Begin, CreateSandbox, Submit, Link, CreateFails, contest, match
  <1>4. \A a \in Actors : StartFails(a) \/ Recycle(a) \/ GiveUp(a) \/ PassOver(a) => Same
    BY DEF StartFails, Recycle, GiveUp, PassOver, contest, match
  <1>5. \A a \in Actors : Deliver(a) \/ Confirm(a) \/ SearchArchive(a) \/ ClaimArchive(a) \/ Stop(a) => Same
    BY DEF Deliver, Confirm, SearchArchive, ClaimArchive, Stop, contest, match
  <1>6. \A a \in Actors : \A batch \in SUBSET Matches : SearchMatches(a, batch) \/ Claim(a, batch) => Same
    BY DEF SearchMatches, Claim, contest, match
  <1>7. \A a \in Actors : \A m \in Matches : Lock(a, m) \/ ClaimDelivery(a, m) => Same
    BY DEF Lock, ClaimDelivery, contest, match
  <1>8. UNCHANGED vars => Same
    BY DEF vars, contest, match
  <1> HIDE DEF Same
  <1>9. Same \/ \E a \in Actors : Settle(a) \/ Archive(a)
    BY <1>1, <1>2, <1>3, <1>4, <1>5, <1>6, <1>7, <1>8 DEF Next, Start
  <1> QED
    BY <1>9 DEF Same

Deltas == [Matches -> -3 .. 3]

LEMMA Signed == \A x \in -3 .. 3 : x \in Int /\ - x \in Int /\ - x = 0 - x
  OBVIOUS

LEMMA PartType ==
    ASSUME NEW d \in Deltas, NEW t, NEW m \in Matches
    PROVE  /\ Part(d, t, m) \in Int
           /\ Part(d, t, m) = IF Sides[m].a = t THEN d[m] ELSE IF Sides[m].b = t THEN 0 - d[m] ELSE 0
  <1>1. d[m] \in -3 .. 3
    BY DEF Deltas
  <1> QED
    BY <1>1, Signed DEF Part

\* The sum of a team moves by the score change of the one match that settles.
LEMMA SumMoves ==
    ASSUME NEW d \in Deltas, NEW e \in Deltas, NEW m \in Matches, NEW t,
           \A n \in Matches \ {m} : e[n] = d[n]
    PROVE  Accounted(e, t) = Accounted(d, t) + (Part(e, t, m) - Part(d, t, m))
  <1> DEFINE f == [n \in Matches |-> Part(d, t, n)]
             g == [n \in Matches |-> Part(e, t, n)]
  <1>1. \A n \in Matches : f[n] \in Int /\ g[n] \in Int
    BY PartType
  <1>2. \A n \in Matches \ {m} : f[n] = g[n]
    BY DEF Part
  <1>3. f[m] = Part(d, t, m) /\ g[m] = Part(e, t, m)
    OBVIOUS
  <1>4. Accounted(d, t) = Initial + SumFunctionOnSet(f, Matches) /\ Accounted(e, t) = Initial + SumFunctionOnSet(g, Matches)
    BY DEF Accounted
  <1> HIDE DEF f, g
  <1>5. SumFunctionOnSet(g, Matches) = SumFunctionOnSet(f, Matches) + (g[m] - f[m])
    BY <1>1, <1>2, SumChange
  <1>6. SumFunctionOnSet(f, Matches) \in Int
    BY <1>1, SumTakeOut
  <1> QED
    BY <1>1, <1>3, <1>4, <1>5, <1>6

LEMMA NothingMoved ==
    ASSUME NEW d, \A m \in Matches : d[m] = 0, d \in Deltas, NEW t
    PROVE  Accounted(d, t) = Initial
  <1> DEFINE f == [m \in Matches |-> Part(d, t, m)]
  <1>1. \A m \in Matches : f[m] \in 0 .. 0
    BY PartType
  <1>2. Accounted(d, t) = Initial + SumFunctionOnSet(f, Matches)
    BY DEF Accounted
  <1> HIDE DEF f
  <1>3. SumFunctionOnSet(f, Matches) \in Nat /\ SumFunctionOnSet(f, Matches) <= Cardinality(Matches) * 0
    BY <1>1, SumBounds
  <1>4. Cardinality(Matches) * 0 = 0
    BY FS_CardinalityType
  <1> QED
    BY <1>2, <1>3, <1>4

LEMMA LadderStep ==
    ASSUME TypeOK, TypeOK', LockHeld, ArchiveInv, LadderInv, [Next]_vars
    PROVE  LadderInv'
  <1>1. CASE /\ board' = board /\ delta' = delta /\ snapshot' = snapshot
             /\ phase' = "archived" => phase = "archived"
    <2>1. \A m \in Matches : status'[m] # "done" => delta'[m] = 0
      BY <1>1, EveryMove DEF Move, LadderInv, Terminal
    <2> QED
      BY <1>1, <2>1 DEF LadderInv
  <1>2. ASSUME NEW a \in Actors, Settle(a) PROVE LadderInv'
    <2> DEFINE m == job[a].on
               d == ScoreDelta(verdict[m], seen[a][Sides[m].a], seen[a][Sides[m].b])
    <2>1. m \in Matches /\ status[m] = "running" /\ seen[a] = board
      BY <1>2 DEF Settle, LockHeld, Awaits
    <2>2. /\ status' = [status EXCEPT ![m] = "done"] /\ delta' = [delta EXCEPT ![m] = d]
          /\ board' = Rated(board, seen[a], m, d) /\ phase' = phase /\ Open
      BY <1>2 DEF Settle
    <2>3. delta[m] = 0 /\ delta'[m] = d /\ d \in Int
      <3>1. delta[m] = 0 /\ delta' = [delta EXCEPT ![m] = d] /\ delta' \in [Matches -> -3 .. 3]
        BY <2>1, <2>2 DEF LadderInv, TypeOK
      <3>2. delta'[m] = d /\ delta'[m] \in -3 .. 3
        BY <2>1, <3>1 DEF TypeOK
      <3> QED
        BY <3>1, <3>2
    <2> HIDE DEF m, d
    <2>4. \A n \in Matches : status'[n] # "done" => delta'[n] = 0
      BY <2>1, <2>2 DEF LadderInv, TypeOK
    <2>5. ASSUME NEW t \in Teams PROVE board'[t] = Accounted(delta', t)
      <3>0. delta \in Deltas /\ delta' \in Deltas /\ \A n \in Matches \ {m} : delta'[n] = delta[n]
        BY <2>1, <2>2 DEF TypeOK, Deltas
      <3>1. Accounted(delta', t) = Accounted(delta, t) + (Part(delta', t, m) - Part(delta, t, m))
        BY <2>1, <3>0, SumMoves
      <3>2. Part(delta, t, m) = 0
        BY <2>1, <2>3, <3>0, PartType
      <3>3. Part(delta', t, m) = IF Sides[m].a = t THEN d ELSE IF Sides[m].b = t THEN 0 - d ELSE 0
        BY <2>1, <2>3, <3>0, PartType
      <3>4. Sides[m].a \in Teams /\ Sides[m].b \in Teams /\ Sides[m].a # Sides[m].b
        BY <2>1, DistinctAssumption
      <3>5. board[t] = Accounted(delta, t) /\ board[t] \in Int /\ board \in [Teams -> Int]
        BY DEF LadderInv, TypeOK
      <3>6. board'[t] = board[t] + (IF Sides[m].a = t THEN d ELSE IF Sides[m].b = t THEN 0 - d ELSE 0)
        <4>1. board' = [board EXCEPT ![Sides[m].a] = board[Sides[m].a] + d, ![Sides[m].b] = board[Sides[m].b] - d]
          BY <2>1, <2>2 DEF Rated
        <4> QED
          BY <2>3, <3>4, <3>5, <4>1
      <3> QED
        BY <2>3, <3>1, <3>2, <3>3, <3>5, <3>6
    <2>6. phase' # "archived"
      BY <2>2 DEF Open
    <2> QED
      BY <2>4, <2>5, <2>6 DEF LadderInv
  <1>3. ASSUME NEW a \in Actors, Archive(a) PROVE LadderInv'
    <2>1. board' = board /\ delta' = delta /\ status' = status
      BY <1>3 DEF Archive, match
    <2>2. phase' = "archived" => snapshot' = board'
      BY <1>3, <2>1 DEF Archive, LadderInv
    <2> QED
      BY <2>1, <2>2 DEF LadderInv
  <1> QED
    BY <1>1, <1>2, <1>3, LadderCases

LEMMA LadderInit == Init => LadderInv
  <1> SUFFICES ASSUME Init PROVE LadderInv
    OBVIOUS
  <1>1. delta \in Deltas /\ \A m \in Matches : delta[m] = 0
    BY DEF Init, Deltas
  <1>2. \A t \in Teams : Accounted(delta, t) = Initial
    BY <1>1, NothingMoved
  <1> QED
    BY <1>1, <1>2 DEF Init, LadderInv

-----------------------------------------------------------------------------
(* Sandboxes *)

\* Who is about to recycle a sandbox does so for a match that is terminal.
Recycling(a) == (job[a].do = "start" /\ job[a].at = "recycle") \/ job[a].do = "deliver"

\* Who has the sandbox and not yet linked the judge task.
Prepared(a) == job[a].do = "start" /\ job[a].at \in {"submit", "link"}

\* The sandbox is there for who may still link the task and once it is linked.
BoxInv ==
    /\ \A a \in Actors : job[a].do = "start" /\ job[a].at # "" => job[a].on \in Matches
    /\ \A a \in Actors : Recycling(a) => job[a].on \in Matches /\ status[job[a].on] \in Terminal
    /\ \A a \in Actors : Prepared(a) /\ Holds(a, job[a].on) => box[job[a].on]
    /\ \A m \in Matches : Awaits(m) => box[m]
    /\ \A m \in Matches : started[m] => status[m] \in {"running", "done", "failed"}

\* A step that takes no sandbox away, gives nobody a lease on a prepared match and
\* lets nobody prepare or recycle.
Quiet ==
    /\ \A m \in Matches : box[m] => box'[m]
    /\ \A a \in Actors :
        \/ job'[a] = job[a]
        \/ /\ ~ Recycling(a)' /\ ~ Prepared(a)'
           /\ job'[a].do = "start" /\ job'[a].at # "" => job'[a].on \in Matches
    /\ \A m \in Matches : Awaits(m)' => Awaits(m)
    /\ \A a \in Actors, m \in Matches : Prepared(a) /\ Holds(a, m)' => Holds(a, m)
    /\ started' = started

LEMMA QuietBox == ASSUME TypeOK, LockHeld, BoxInv, [Next]_vars, Quiet PROVE BoxInv'
  <1>1. \A a \in Actors : job'[a].do = "start" /\ job'[a].at # "" => job'[a].on \in Matches
    <2> SUFFICES ASSUME NEW a \in Actors, job'[a].do = "start" /\ job'[a].at # "" PROVE job'[a].on \in Matches
      OBVIOUS
    <2>1. CASE job'[a] = job[a]
      <3>1. job[a].do = "start" /\ job[a].at # "" /\ job'[a].on = job[a].on
        BY <2>1
      <3> QED
        BY <3>1 DEF BoxInv
    <2>2. CASE job'[a] # job[a]
      BY <2>2 DEF Quiet
    <2> QED
      BY <2>1, <2>2
  <1>2. \A a \in Actors : Recycling(a)' => job'[a].on \in Matches /\ status'[job'[a].on] \in Terminal
    <2> SUFFICES ASSUME NEW a \in Actors, Recycling(a)'
                 PROVE  job'[a].on \in Matches /\ status'[job'[a].on] \in Terminal
      OBVIOUS
    <2>1. job'[a] = job[a] /\ Recycling(a)
      BY DEF Quiet, Recycling
    <2>2. job[a].on \in Matches /\ status[job[a].on] \in Terminal
      BY <2>1 DEF BoxInv
    <2> QED
      BY <2>1, <2>2, EveryMove DEF Move, Terminal
  <1>3. \A a \in Actors : Prepared(a)' /\ Holds(a, job[a].on)' => box'[job'[a].on]
    <2> SUFFICES ASSUME NEW a \in Actors, Prepared(a)', Holds(a, job[a].on)' PROVE box'[job'[a].on]
      OBVIOUS
    <2>1. job'[a] = job[a] /\ Prepared(a)
      BY DEF Quiet, Prepared
    <2>2. job[a].on \in Matches /\ job'[a].on = job[a].on
      BY <2>1 DEF BoxInv, Prepared
    <2> DEFINE m == job[a].on
    <2>3. Prepared(a) /\ status'[m] = "running" /\ ~ started'[m] /\ token'[m] = a /\ lease'[m] = "live"
      BY <2>1, <2>2 DEF Holds
    <2> HIDE DEF m
    <2>4. Holds(a, m)
      BY <2>2, <2>3 DEF Quiet, Holds, m
    <2> QED
      BY <2>1, <2>2, <2>4 DEF BoxInv, Quiet, m
  <1>4. \A m \in Matches : Awaits(m)' => box'[m]
    BY DEF Quiet, BoxInv
  <1>5. \A m \in Matches : started'[m] => status'[m] \in {"running", "done", "failed"}
    BY EveryMove DEF Quiet, BoxInv, Move
  <1> QED
    BY <1>1, <1>2, <1>3, <1>4, <1>5 DEF BoxInv

LEMMA QuietSteps ==
    ASSUME TypeOK, LockHeld, BoxInv, Next
    PROVE  \/ Quiet
           \/ \E a \in Actors : CreateSandbox(a) \/ Submit(a) \/ Link(a) \/ StartFails(a)
           \/ \E a \in Actors : Recycle(a) \/ Deliver(a)
           \/ \E a \in Actors, m \in Matches : ClaimDelivery(a, m)
  <1> USE DEF TypeOK, Quiet, Recycling, Prepared, Holds, Awaits, match, contest, engines
  <1>1. CASE TimeUp
    BY <1>1 DEF TimeUp
  <1>2. CASE End
    BY <1>2 DEF End
  <1>3. CASE ExpireArchive
    BY <1>3 DEF ExpireArchive
  <1>4. ASSUME NEW m \in Matches, Enter(m) PROVE Quiet
    BY <1>4 DEF Enter
  <1>5. ASSUME NEW m \in Matches, EndEntry(m) PROVE Quiet
    BY <1>5 DEF EndEntry
  <1>6. ASSUME NEW m \in Matches, Expire(m) PROVE Quiet
    BY <1>6 DEF Expire
  <1>7. ASSUME NEW m \in Matches, JudgeEnds(m) PROVE Quiet
    BY <1>7 DEF JudgeEnds
  <1>8. ASSUME NEW m \in Matches, JudgeLost(m) PROVE Quiet
    BY <1>8 DEF JudgeLost
  <1>9. ASSUME NEW a \in Actors, Begin(a) PROVE Quiet
    <2>1. PICK m \in Matches :
            job' = [job EXCEPT ![a] = [job[a] EXCEPT !.todo = job[a].todo \ {m}, !.on = m, !.at = "create"]]
      BY <1>9, JobType DEF Begin, Becomes
    <2>2. job'[a].do = "start" /\ job'[a].on = m /\ job'[a].at = "create"
      BY <1>9, <2>1 DEF Begin, Starting, Job
    <2>3. \A b \in Actors \ {a} : job'[b] = job[b]
      BY <2>1
    <2> QED
      BY <1>9, <2>2, <2>3 DEF Begin
  <1>10. ASSUME NEW a \in Actors, CreateFails(a) PROVE Quiet
    <2> DEFINE k == [job[a] EXCEPT !.on = None, !.at = ""]
    <2>0. k.do = "start" /\ k.at = "" /\ job' = [job EXCEPT ![a] = k]
      <3>1. job[a] \in Job /\ job[a].do = "start"
        BY <1>10 DEF CreateFails, Starting
      <3>2. k.do = "start" /\ k.at = ""
        BY <3>1 DEF Job
      <3> QED
        BY <1>10, <3>2 DEF CreateFails, NextInBatch, Becomes
    <2> HIDE DEF k
    <2>1. job'[a].do = "start" /\ job'[a].at = "" /\ \A b \in Actors \ {a} : job'[b] = job[b]
      BY <2>0
    <2>2. \A m \in Matches : box[m] => box'[m]
      BY <1>10 DEF CreateFails
    <2>3. \A m \in Matches : Awaits(m)' => Awaits(m)
      BY <1>10 DEF CreateFails, Mark
    <2>4. \A b \in Actors, m \in Matches : Holds(b, m)' => Holds(b, m)
      BY <1>10 DEF CreateFails, Mark
    <2> QED
      BY <1>10, <2>1, <2>2, <2>3, <2>4 DEF CreateFails
  <1>11. ASSUME NEW a \in Actors, GiveUp(a) PROVE Quiet
    <2>1. job'[a].do = "start" /\ job'[a].at = "" /\ \A b \in Actors \ {a} : job'[b] = job[b]
      BY <1>11 DEF GiveUp, NextInBatch, Becomes, Job
    <2> QED
      BY <1>11, <2>1 DEF GiveUp
  <1>12. ASSUME NEW a \in Actors, PassOver(a) PROVE Quiet
    <2>1. job'[a].do = "idle" /\ \A b \in Actors \ {a} : job'[b] = job[b]
      BY <1>12 DEF PassOver, Becomes, Idle
    <2>2. \A b \in Actors, m \in Matches : token'[m] = b => token[m] = b
      BY <1>12 DEF PassOver, Orphaned
    <2> QED
      BY <1>12, <2>1, <2>2 DEF PassOver
  <1>13. ASSUME NEW a \in Actors, Settle(a) PROVE Quiet
    <2>1. job'[a].do = "idle" /\ \A b \in Actors \ {a} : job'[b] = job[b]
      BY <1>13 DEF Settle, Becomes, Idle
    <2>2. \A b \in Actors, m \in Matches : Holds(b, m)' => Holds(b, m)
      BY <1>13 DEF Settle
    <2>3. \A m \in Matches : Awaits(m)' => Awaits(m)
      BY <1>13 DEF Settle
    <2> QED
      BY <1>13, <2>1, <2>2, <2>3 DEF Settle
  <1>14. ASSUME NEW a \in Actors, Confirm(a) PROVE Quiet
    <2>1. job'[a].do = "idle" /\ \A b \in Actors \ {a} : job'[b] = job[b]
      BY <1>14 DEF Confirm, Becomes, Idle
    <2>2. \A b \in Actors, m \in Matches : Holds(b, m)' => Holds(b, m)
      BY <1>14 DEF Confirm, Orphaned
    <2> QED
      BY <1>14, <2>1, <2>2 DEF Confirm
  <1>15. ASSUME NEW a \in Actors, SearchArchive(a) \/ ClaimArchive(a) PROVE Quiet
    <2>1. Doing("archive", None, "").do = "archive" /\ Doing("archive", None, "claim").do = "archive"
          /\ Idle.do = "idle"
      BY DEF Doing, Idle
    <2>2. job'[a].do \in {"archive", "idle"} /\ \A b \in Actors \ {a} : job'[b] = job[b]
      BY <1>15, <2>1 DEF SearchArchive, ClaimArchive, Becomes
    <2> QED
      BY <1>15, <2>2 DEF SearchArchive, ClaimArchive
  <1>16. ASSUME NEW a \in Actors, Archive(a) PROVE Quiet
    BY <1>16 DEF Archive, Idle, Becomes
  <1>17. ASSUME NEW a \in Actors, Stop(a) PROVE Quiet
    <2>1. job'[a].do = "idle" /\ \A b \in Actors \ {a} : job'[b] = job[b]
      BY <1>17 DEF Stop, Becomes, Idle
    <2>2. \A b \in Actors, m \in Matches : Holds(b, m)' => Holds(b, m)
      BY <1>17 DEF Stop, Orphaned
    <2>3. \A m \in Matches : (Awaits(m)' => Awaits(m)) /\ (box[m] => box'[m]) /\ started' = started
      BY <1>17 DEF Stop
    <2> QED
      BY <1>17, <2>1, <2>2, <2>3 DEF Stop
  <1>18. ASSUME NEW a \in Actors, NEW batch \in SUBSET Matches, Claim(a, batch) PROVE Quiet
    <2> DEFINE j == [do |-> "start", todo |-> batch, on |-> None, at |-> ""]
    <2>1. /\ j.do = "start" /\ j.at = "" /\ Idle.do = "idle"
          /\ job' = [job EXCEPT ![a] = Idle] \/ job' = [job EXCEPT ![a] = j]
          /\ job[a].do = "search"
      BY <1>18 DEF Claim, Becomes, Idle
    <2> HIDE DEF j
    <2>2. \A b \in Actors : \/ job'[b] = job[b]
                           \/ job'[b].do = "idle" \/ (job'[b].do = "start" /\ job'[b].at = "")
      BY <2>1
    <2>3. \A m \in Matches : Awaits(m)' => Awaits(m)
      <3>1. \A m \in Matches : m \in batch => ~ started[m]
        BY <1>18 DEF Claim, Startable, Stale, BoxInv
      <3> QED
        BY <1>18, <3>1 DEF Claim
    <2>4. \A b \in Actors \ {a}, m \in Matches : Holds(b, m)' => Holds(b, m)
      BY <1>18 DEF Claim
    <2>5. ~ Prepared(a)
      BY <2>1
    <2> QED
      BY <1>18, <2>2, <2>3, <2>4, <2>5 DEF Claim
  <1>19. ASSUME NEW a \in Actors, NEW m \in Matches, Lock(a, m) PROVE Quiet
    BY <1>19 DEF Lock, Doing, Becomes
  <1>20. ASSUME NEW a \in Actors, NEW batch \in SUBSET Matches, SearchMatches(a, batch) PROVE Quiet
    <2> DEFINE j == [do |-> "search", todo |-> batch, on |-> None, at |-> ""]
    <2>1. j.do = "search" /\ job' = [job EXCEPT ![a] = j]
      BY <1>20 DEF SearchMatches, Becomes
    <2> HIDE DEF j
    <2>2. \A b \in Actors : job'[b] = job[b] \/ job'[b].do = "search"
      BY <2>1
    <2> QED
      BY <1>20, <2>2 DEF SearchMatches
  <1> QED
    BY <1>1, <1>2, <1>3, <1>4, <1>5, <1>6, <1>7, <1>8, <1>9, <1>10, <1>11, <1>12, <1>13, <1>14,
       <1>15, <1>16, <1>17, <1>18, <1>19, <1>20 DEF Next, Start

\* Steps that move one actor on, and the match it works on.
LEMMA JobMoves ==
    ASSUME TypeOK, NEW a \in Actors, NEW at \in {"submit", "link", "recycle", "confirm"},
           Becomes(a, [job[a] EXCEPT !.at = at])
    PROVE  /\ job'[a].do = job[a].do /\ job'[a].on = job[a].on /\ job'[a].at = at
           /\ \A b \in Actors \ {a} : job'[b] = job[b]
  <1>1. job[a] \in Job
    BY DEF TypeOK
  <1> DEFINE j == [job[a] EXCEPT !.at = at]
  <1>2. j.do = job[a].do /\ j.on = job[a].on /\ j.at = at
    BY <1>1 DEF Job
  <1>3. job' = [job EXCEPT ![a] = j]
    BY DEF Becomes
  <1> HIDE DEF j
  <1> QED
    BY <1>2, <1>3 DEF TypeOK

LEMMA JobEnds ==
    ASSUME TypeOK, NEW a \in Actors, NextInBatch(a)
    PROVE  /\ job'[a].do = job[a].do /\ job'[a].at = ""
           /\ \A b \in Actors \ {a} : job'[b] = job[b]
  <1>1. job[a] \in Job
    BY DEF TypeOK
  <1> DEFINE j == [job[a] EXCEPT !.on = None, !.at = ""]
  <1>2. j.do = job[a].do /\ j.at = ""
    BY <1>1 DEF Job
  <1>3. job' = [job EXCEPT ![a] = j]
    BY DEF Becomes, NextInBatch
  <1> HIDE DEF j
  <1> QED
    BY <1>2, <1>3 DEF TypeOK

\* One actor moves: what BoxInv asks of it, of the others and of the matches.
LEMMA BoxFrom ==
    ASSUME TypeOK, LockHeld, BoxInv, [Next]_vars, NEW a \in Actors,
           \A b \in Actors \ {a} : job'[b] = job[b],
           job'[a].do = "start" /\ job'[a].at # "" => job'[a].on \in Matches,
           Recycling(a)' => job'[a].on \in Matches /\ status'[job'[a].on] \in Terminal,
           \A m \in Matches : Prepared(a)' /\ job'[a].on = m /\ Holds(a, m)' => box'[m],
           \A b \in Actors \ {a} : \A m \in Matches : Holds(b, m)' => Holds(b, m),
           \A m \in Matches : status[m] = "running" /\ box[m] => box'[m],
           \A m \in Matches : Awaits(m)' => box'[m],
           \A m \in Matches : started'[m] => started[m] \/ status[m] = "running"
    PROVE  BoxInv'
  <1>1. \A b \in Actors : job'[b].do = "start" /\ job'[b].at # "" => job'[b].on \in Matches
    <2> SUFFICES ASSUME NEW b \in Actors \ {a}, job'[b].do = "start" /\ job'[b].at # ""
                 PROVE  job'[b].on \in Matches
      OBVIOUS
    <2>1. job'[b] = job[b]
      OBVIOUS
    <2> QED
      BY <2>1 DEF BoxInv
  <1>2. \A b \in Actors : Recycling(b)' => job'[b].on \in Matches /\ status'[job'[b].on] \in Terminal
    <2> SUFFICES ASSUME NEW b \in Actors \ {a}, Recycling(b)'
                 PROVE  job'[b].on \in Matches /\ status'[job'[b].on] \in Terminal
      OBVIOUS
    <2>1. job'[b] = job[b] /\ Recycling(b)
      BY DEF Recycling
    <2>2. job[b].on \in Matches /\ status[job[b].on] \in Terminal
      BY <2>1 DEF BoxInv
    <2> QED
      BY <2>1, <2>2, EveryMove DEF Move, Terminal
  <1>3. \A b \in Actors : Prepared(b)' /\ Holds(b, job[b].on)' => box'[job'[b].on]
    <2> SUFFICES ASSUME NEW b \in Actors, Prepared(b)', Holds(b, job[b].on)' PROVE box'[job'[b].on]
      OBVIOUS
    <2>1. PICK m \in Matches : m = job'[b].on
      BY <1>1 DEF Prepared
    <2>2. status'[m] = "running" /\ ~ started'[m] /\ token'[m] = b /\ lease'[m] = "live"
      BY <2>1 DEF Holds
    <2>3. CASE b = a
      <3>1. Holds(a, m)'
        BY <2>2, <2>3 DEF Holds
      <3> QED
        BY <2>1, <2>3, <3>1
    <2>4. CASE b # a
      <3>1. job'[b] = job[b] /\ Prepared(b) /\ job[b].on = m
        BY <2>1, <2>4 DEF Prepared
      <3>2. Holds(b, m)'
        BY <2>2 DEF Holds
      <3>3. Holds(b, m)
        BY <2>4, <3>2
      <3>4. status[m] = "running" /\ box[m]
        BY <3>1, <3>3 DEF BoxInv, Holds
      <3> QED
        BY <2>1, <3>4
    <2> QED
      BY <2>3, <2>4
  <1>4. \A m \in Matches : started'[m] => status'[m] \in {"running", "done", "failed"}
    BY EveryMove DEF BoxInv, Move
  <1> QED
    BY <1>1, <1>2, <1>3, <1>4 DEF BoxInv

LEMMA BoxStep == TypeOK /\ LockHeld /\ BoxInv /\ [Next]_vars => BoxInv'
  <1> SUFFICES ASSUME TypeOK, LockHeld, BoxInv, [Next]_vars PROVE BoxInv'
    OBVIOUS
  <1>1. CASE Quiet
    BY <1>1, QuietBox
  <1>2. ASSUME NEW a \in Actors, CreateSandbox(a) PROVE BoxInv'
    <2>1. /\ job[a].do = "start" /\ job[a].on \in Matches
          /\ box' = [box EXCEPT ![job[a].on] = TRUE] /\ UNCHANGED match
      BY <1>2 DEF CreateSandbox, Starting, BoxInv
    <2>2. /\ job'[a].do = "start" /\ job'[a].on = job[a].on /\ job'[a].at = "submit"
          /\ \A b \in Actors \ {a} : job'[b] = job[b]
      BY <1>2, <2>1, JobMoves DEF CreateSandbox
    <2>3. box'[job[a].on] /\ \A m \in Matches : box[m] => box'[m]
      BY <2>1 DEF TypeOK
    <2>4. /\ ~ Recycling(a)' /\ job'[a].on \in Matches
          /\ \A m \in Matches : Prepared(a)' /\ job'[a].on = m /\ Holds(a, m)' => box'[m]
      BY <2>1, <2>2, <2>3 DEF Recycling
    <2>5. /\ \A b \in Actors, m \in Matches : Holds(b, m)' => Holds(b, m)
          /\ \A m \in Matches : Awaits(m)' => box'[m]
      BY <2>1, <2>3 DEF match, Holds, Awaits, BoxInv
    <2> QED
      BY <2>1, <2>2, <2>3, <2>4, <2>5, BoxFrom DEF match
  <1>3. ASSUME NEW a \in Actors, Submit(a) PROVE BoxInv'
    <2>1. job[a].do = "start" /\ job[a].at = "submit" /\ box' = box /\ UNCHANGED match
      BY <1>3 DEF Submit, Starting
    <2>2. /\ job'[a].do = "start" /\ job'[a].on = job[a].on /\ job'[a].at = "link"
          /\ \A b \in Actors \ {a} : job'[b] = job[b]
      BY <1>3, <2>1, JobMoves DEF Submit
    <2>3. job[a].on \in Matches /\ ~ Recycling(a)' /\ Prepared(a)
      BY <2>1, <2>2 DEF Recycling, Prepared, BoxInv
    <2>4. /\ \A b \in Actors, m \in Matches : Holds(b, m)' => Holds(b, m)
          /\ \A m \in Matches : Awaits(m)' => box'[m]
      BY <2>1 DEF match, Holds, Awaits, BoxInv
    <2>5. \A m \in Matches : Prepared(a)' /\ job'[a].on = m /\ Holds(a, m)' => box'[m]
      BY <2>1, <2>2, <2>3, <2>4 DEF BoxInv
    <2> QED
      BY <2>1, <2>2, <2>3, <2>4, <2>5, BoxFrom DEF match
  <1>4. ASSUME NEW a \in Actors, Link(a) PROVE BoxInv'
    <2> DEFINE m == job[a].on
    <2>1. /\ job[a].do = "start" /\ m \in Matches /\ (Holds(a, m) => box[m])
          /\ box' = box /\ status' = status
      BY <1>4 DEF Link, Starting, engines, BoxInv, Prepared
    <2>2. job'[a].do = "start" /\ job'[a].at = "" /\ \A b \in Actors \ {a} : job'[b] = job[b]
      BY <1>4, <2>1, JobEnds DEF Link
    <2>3. /\ \A n \in Matches : Awaits(n)' => Awaits(n) \/ (n = m /\ Holds(a, m))
          /\ \A n \in Matches : started'[n] => started[n] \/ status[n] = "running"
      BY <1>4, <2>1 DEF Link, TypeOK, Holds, Awaits
    <2>4. \A b \in Actors : \A n \in Matches : Holds(b, n)' => Holds(b, n)
      <3>1. \A n \in Matches : lease'[n] = "live" => lease[n] = "live" /\ token'[n] = token[n]
                                                /\ started'[n] = started[n]
        BY <1>4, <2>1 DEF Link, TypeOK
      <3> QED
        BY <2>1, <3>1 DEF Holds
    <2>5. \A n \in Matches : Awaits(n)' => box'[n]
      BY <2>1, <2>3 DEF BoxInv
    <2>6. ~ Recycling(a)' /\ ~ Prepared(a)'
      BY <2>2 DEF Recycling, Prepared
    <2> HIDE DEF m
    <2> QED
      BY <2>1, <2>2, <2>3, <2>4, <2>5, <2>6, BoxFrom
  <1>5. ASSUME NEW a \in Actors, StartFails(a) PROVE BoxInv'
    <2> DEFINE m == job[a].on
    <2>1. job[a].do = "start" /\ m \in Matches /\ box' = box /\ started' = started
      BY <1>5 DEF StartFails, Starting, engines, BoxInv
    <2>2. \A b \in Actors \ {a} : job'[b] = job[b]
      BY <1>5, JobMoves, JobEnds DEF StartFails
    <2>3. CASE Holds(a, m)
      <3>1. /\ status' = [status EXCEPT ![m] = "failed"] /\ lease' = [lease EXCEPT ![m] = "none"]
            /\ token' = [token EXCEPT ![m] = "none"]
        BY <1>5, <2>3 DEF StartFails, Mark
      <3>2. job'[a].do = "start" /\ job'[a].on = m /\ job'[a].at = "recycle"
        BY <1>5, <2>1, <2>3, JobMoves DEF StartFails, MayRecycle
      <3> HIDE DEF m
      <3>3. status'[m] \in Terminal /\ ~ Prepared(a)'
        BY <2>1, <3>1, <3>2 DEF Terminal, Prepared, TypeOK
      <3>4. /\ \A b \in Actors, n \in Matches : Holds(b, n)' => Holds(b, n)
            /\ \A n \in Matches : Awaits(n)' => Awaits(n)
        BY <2>1, <3>1 DEF Holds, Awaits, TypeOK
      <3>5. \A n \in Matches : Awaits(n)' => box'[n]
        BY <2>1, <3>4 DEF BoxInv
      <3> QED
        BY <2>1, <2>2, <3>2, <3>3, <3>4, <3>5, BoxFrom
    <2>4. CASE ~ Holds(a, m)
      <3>1. job'[a].do = "start" /\ job'[a].at = ""
        BY <1>5, <2>1, <2>4, JobEnds DEF StartFails, MayRecycle
      <3>2. UNCHANGED <<status, token, lease>>
        BY <1>5, <2>4 DEF StartFails, Mark
      <3>3. /\ \A b \in Actors, n \in Matches : Holds(b, n)' => Holds(b, n)
            /\ \A n \in Matches : Awaits(n)' => box'[n]
        BY <2>1, <3>2 DEF Holds, Awaits, BoxInv
      <3>4. ~ Recycling(a)' /\ ~ Prepared(a)'
        BY <3>1 DEF Recycling, Prepared
      <3> QED
        BY <2>1, <2>2, <3>1, <3>3, <3>4, BoxFrom
    <2> QED
      BY <2>3, <2>4
  <1>6. ASSUME NEW a \in Actors, Recycle(a) PROVE BoxInv'
    <2>1. /\ job[a].do = "start" /\ job[a].on \in Matches /\ status[job[a].on] \in Terminal
          /\ box' = [box EXCEPT ![job[a].on] = FALSE] /\ UNCHANGED match
      BY <1>6 DEF Recycle, Starting, BoxInv, Recycling
    <2>2. job'[a].do = "start" /\ job'[a].at = "" /\ \A b \in Actors \ {a} : job'[b] = job[b]
      BY <1>6, <2>1, JobEnds DEF Recycle
    <2>3. \A m \in Matches : status[m] = "running" /\ box[m] => box'[m]
      BY <2>1 DEF TypeOK, Terminal
    <2>4. /\ \A b \in Actors, m \in Matches : Holds(b, m)' => Holds(b, m)
          /\ \A m \in Matches : Awaits(m)' => box'[m]
      BY <2>1, <2>3 DEF match, Holds, Awaits, BoxInv
    <2>5. ~ Recycling(a)' /\ ~ Prepared(a)'
      BY <2>2 DEF Recycling, Prepared
    <2> QED
      BY <2>1, <2>2, <2>3, <2>4, <2>5, BoxFrom DEF match
  <1>7. ASSUME NEW a \in Actors, Deliver(a) PROVE BoxInv'
    <2>1. /\ job[a].do = "deliver" /\ job[a].on \in Matches /\ status[job[a].on] \in Terminal
          /\ box' = [box EXCEPT ![job[a].on] = FALSE] /\ UNCHANGED match
      BY <1>7 DEF Deliver, BoxInv, Recycling
    <2>2. /\ job'[a].do = "deliver" /\ job'[a].on = job[a].on
          /\ \A b \in Actors \ {a} : job'[b] = job[b]
      BY <1>7, <2>1, JobMoves DEF Deliver
    <2>3. \A m \in Matches : status[m] = "running" /\ box[m] => box'[m]
      BY <2>1 DEF TypeOK, Terminal
    <2>4. /\ \A b \in Actors, m \in Matches : Holds(b, m)' => Holds(b, m)
          /\ \A m \in Matches : Awaits(m)' => box'[m]
      BY <2>1, <2>3 DEF match, Holds, Awaits, BoxInv
    <2>5. ~ Prepared(a)'
      BY <2>2 DEF Prepared
    <2> QED
      BY <2>1, <2>2, <2>3, <2>4, <2>5, BoxFrom DEF match
  <1>8. ASSUME NEW a \in Actors, NEW m \in Matches, ClaimDelivery(a, m) PROVE BoxInv'
    <2>1. /\ status[m] \in Terminal /\ status' = status /\ started' = started /\ box' = box
          /\ \A n \in Matches \ {m} : token'[n] = token[n] /\ lease'[n] = lease[n]
      BY <1>8 DEF ClaimDelivery, engines, TypeOK
    <2>2. job'[a].do = "deliver" /\ job'[a].on = m /\ \A b \in Actors \ {a} : job'[b] = job[b]
      BY <1>8 DEF ClaimDelivery, Becomes, Doing, TypeOK
    <2>3. /\ \A b \in Actors \ {a} : \A n \in Matches : Holds(b, n)' => Holds(b, n)
          /\ \A n \in Matches : Awaits(n)' => box'[n]
      BY <2>1 DEF Holds, Awaits, Terminal, BoxInv
    <2>4. ~ Prepared(a)'
      BY <2>2 DEF Prepared
    <2> QED
      BY <2>1, <2>2, <2>3, <2>4, BoxFrom
  <1>9. CASE UNCHANGED vars
    BY <1>9 DEF vars, match, engines, BoxInv, Recycling, Prepared, Holds, Awaits
  <1> QED
    BY <1>1, <1>2, <1>3, <1>4, <1>5, <1>6, <1>7, <1>8, <1>9, QuietSteps

-----------------------------------------------------------------------------
(* The theorems *)

Inv == TypeOK /\ LockHeld /\ ArchiveInv /\ BoxInv /\ LadderInv

LEMMA InitInv == Init => Inv
  <1> SUFFICES ASSUME Init PROVE Inv
    OBVIOUS
  <1>1. TypeOK
    <2>a. NoRatings \in [Teams -> Int]
      BY DEF NoRatings
    <2>0. NoRatings \in [Teams -> Int] /\ Idle \in Job
      BY <2>a, JobType
    <2>1. job \in [Actors -> Job] /\ seen \in [Actors -> [Teams -> Int]]
      BY <2>0 DEF Init
    <2>2. status \in [Matches -> Status] /\ verdict \in [Matches -> Verdict]
      BY DEF Init, Status, Verdict
    <2>3. /\ token \in [Matches -> Token] /\ archToken \in Token
          /\ lease \in [Matches -> Lease] /\ archLease \in Lease
      BY DEF Init, Token, Lease
    <2>4. tries \in [Matches -> 0 .. MaxAttempts] /\ delta \in [Matches -> -3 .. 3]
      BY DEF Init
    <2> QED
      BY <2>1, <2>2, <2>3, <2>4 DEF Init, TypeOK
  <1>2. LockHeld
    BY DEF Init, LockHeld, Idle
  <1>3. ArchiveInv
    BY DEF Init, ArchiveInv, NoEntry
  <1>4. BoxInv
    BY DEF Init, BoxInv, Recycling, Prepared, Awaits, Idle
  <1> QED
    BY <1>1, <1>2, <1>3, <1>4, LadderInit DEF Inv

LEMMA Invariance == Spec => []Inv
  <1>1. Inv /\ [Next]_vars => Inv'
    BY TypeStep, LockStep, ArchiveStep, BoxStep, LadderStep DEF Inv
  <1> QED
    BY <1>1, InitInv, PTL DEF Spec

\* The columns of matches and contest and the memory of the actors keep their
\* types, and no match is started more than MaxAttempts times.
THEOREM TypeCorrect == Spec => []TypeOK
  <1>1. Inv => TypeOK
    BY DEF Inv
  <1> QED
    BY <1>1, Invariance, PTL

\* ClaimAutoArchiveContests, LockBattleMatchByJudgeTask, ClaimPendingBattleMatches:
\* a contest that was claimed for archiving is frozen, whatever matches became
\* active while it was being claimed.
THEOREM ClaimFreezes == Spec => ArchiveFence
  <1>1. Inv /\ [Next]_vars =>
            [archToken # "none" =>
                /\ board' = board
                /\ \A m \in Matches :
                    status'[m] \in Active \cup {"entering"} => status[m] \in Active]_vars
    BY FenceStep DEF Inv
  <1> QED
    BY <1>1, Invariance, PTL DEF Spec, ArchiveFence

\* FinishBattleMatch, FailBattleMatchByJudgeTask: what is settled stays settled.
THEOREM SettlementsFinal == Spec => SettledIsFinal
  <1>1. Inv /\ [Next]_vars =>
            [\A m \in Matches : status[m] \in Terminal =>
                status'[m] = status[m] /\ delta'[m] = delta[m] /\ tries'[m] = tries[m]]_vars
    BY EveryMove DEF Inv, Move, Terminal
  <1> QED
    BY <1>1, Invariance, PTL DEF Spec, SettledIsFinal

\* LockBattleMatchByJudgeTask, HandleBattleJudgeCompleted: ratings move exactly
\* once per decided match, from the ratings of that moment.
THEOREM RatingsExact == Spec => RatingsMoveOnce
  <1>1. Inv /\ [Next]_vars =>
            [\/ board' = board /\ \A m \in Matches : status'[m] = "done" => status[m] = "done"
             \/ Rates]_vars
    BY RatesStep DEF Inv
  <1> QED
    BY <1>1, Invariance, PTL DEF Spec, RatingsMoveOnce, Rates

\* StartBattleMatch, executeBattleMatch, finalizeBattleMatch: the sandbox of a
\* match is there as long as its judge task may still need it.
THEOREM SandboxesKept == Spec => []SandboxUntilVerdict
  <1>1. Inv => SandboxUntilVerdict
    BY DEF Inv, BoxInv, SandboxUntilVerdict, Awaits
  <1> QED
    BY <1>1, Invariance, PTL

\* archiveContestSystem: every match of an archived contest has ended, and its
\* snapshot accounts for every settled one, whatever settlements, late entries,
\* lost leases and second archivings came before.
THEOREM LadderAccounted == Spec => []FinalLadder
  <1>1. \A t : Accounted(delta, t) = Initial + SumFunction([m \in Matches |-> Change(t, m)])
    BY DEF Accounted, Part, Change, SumFunction
  <1>2. Inv => FinalLadder
    BY <1>1 DEF Inv, TypeOK, ArchiveInv, LadderInv, FinalLadder
  <1> QED
    BY <1>2, Invariance, PTL
=============================================================================
