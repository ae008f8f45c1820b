-------------------------- MODULE JudgeQueueProofs --------------------------
(***************************************************************************)
(* Proofs about JudgeQueue, for any tasks, workers, retry limit and batch  *)
(* size, and whether or not the worker clocks agree with the database.     *)
(***************************************************************************)
EXTENDS JudgeQueue, TLAPS

USE ManualAssumption, NoTaskAssumption, RetryAssumption, ClockAssumption

-----------------------------------------------------------------------------
(* The steps of the queue, with both kinds of rejudge under one head *)

LEMMA NextSteps ==
  ASSUME [Next]_vars
  PROVE  \/ \E t \in Tasks : Submit(t)
         \/ \E t \in Tasks : Cancel(t)
         \/ \E S \in SUBSET Tasks : ResetForRejudge(S)
         \/ \E t \in Tasks, passed \in BOOLEAN : ManualScore(t, passed)
         \/ \E t \in Tasks : Expire(t)
         \/ \E w \in Workers, expired, taken \in Batches : Claim(w, expired, taken)
         \/ \E w \in Workers, t \in Tasks : Start(w, t)
         \/ \E w \in Workers, t \in Tasks : Finish(w, t)
         \/ \E w \in Workers : Crash(w)
         \/ UNCHANGED vars
  <1>1. \A t \in Tasks : RejudgeTask(t) => \E S \in SUBSET Tasks : ResetForRejudge(S)
    <2>1. \A t \in Tasks : {t} \in SUBSET Tasks
      OBVIOUS
    <2>2. QED
      BY <2>1 DEF RejudgeTask
  <1>2. \A S \in SUBSET Tasks : RejudgeBatch(S) => ResetForRejudge(S)
    BY DEF RejudgeBatch
  <1>3. CASE Next
    BY <1>1, <1>2, <1>3, Zenon DEF Next
  <1>4. QED
    BY <1>3

\* What the other steps have in common: tokens, runs and the memory of the
\* workers stay as they are.
Quiet == UNCHANGED <<retry, token, run, nextToken, passToken, batch, copy>>

LEMMA LoudSteps ==
  ASSUME [Next]_vars
  PROVE  \/ \E S \in SUBSET Tasks : ResetForRejudge(S)
         \/ \E w \in Workers, expired, taken \in Batches : Claim(w, expired, taken)
         \/ \E w \in Workers, t \in Tasks : Finish(w, t)
         \/ \E w \in Workers : Crash(w)
         \/ Quiet
  <1>1. \A t \in Tasks : Submit(t) \/ Cancel(t) \/ Expire(t) => Quiet
    BY DEF Submit, Cancel, Expire, Quiet, worker
  <1>2. \A t \in Tasks, passed \in BOOLEAN : ManualScore(t, passed) => Quiet
    BY DEF ManualScore, Quiet, worker
  <1>3. \A w \in Workers, t \in Tasks : Start(w, t) => Quiet
    BY DEF Start, Quiet, row
  <1>4. UNCHANGED vars => Quiet
    BY DEF Quiet, vars, row, worker
  <1>5. QED
    BY <1>1, <1>2, <1>3, <1>4, NextSteps, Zenon

-----------------------------------------------------------------------------
(* Types *)

LEMMA InitTypeOK == Init => TypeOK
  BY DEF Init, TypeOK, NoToken, NoCopy, Status, Lease, TaskCopy, ResultRow, EventRow

LEMMA NextTypeOK == TypeOK /\ [Next]_vars => TypeOK'
  <1> SUFFICES ASSUME TypeOK, [Next]_vars PROVE TypeOK'
    OBVIOUS
  <1>1. ASSUME NEW t \in Tasks, Submit(t) PROVE TypeOK'
    BY <1>1 DEF TypeOK, Submit, worker, Status, Active
  <1>2. ASSUME NEW t \in Tasks, Cancel(t) PROVE TypeOK'
    BY <1>2 DEF TypeOK, Cancel, worker, Status
  <1>3. ASSUME NEW S \in SUBSET Tasks, ResetForRejudge(S) PROVE TypeOK'
    BY <1>3 DEF TypeOK, ResetForRejudge, worker, Status, Active
  <1>4. ASSUME NEW t \in Tasks, NEW passed \in BOOLEAN, ManualScore(t, passed) PROVE TypeOK'
    BY <1>4 DEF TypeOK, ManualScore, worker, Status, Settled, ResultRow, EventRow, Completed
  <1>5. ASSUME NEW t \in Tasks, Expire(t) PROVE TypeOK'
    BY <1>5 DEF TypeOK, Expire, worker, Lease
  <1>6. ASSUME NEW w \in Workers, NEW expired \in Batches, NEW taken \in Batches,
               Claim(w, expired, taken)
        PROVE TypeOK'
    <2>1. /\ \A t \in Tasks : RetryOnClaim(t) \in Nat /\ CopyOf(t) \in TaskCopy
          /\ \A t \in Tasks : Failed(t) \in EventRow
          /\ NoCopy \in TaskCopy
          /\ LeaseToken \in Nat
      BY DEF TypeOK, RetryOnClaim, CopyOf, TaskCopy, Failed, EventRow, NoCopy, LeaseToken
    <2>2. /\ status' \in [Tasks -> Status]
          /\ lease' \in [Tasks -> Lease]
          /\ events' \in [Tasks -> Seq(EventRow)]
      BY <1>6, <2>1 DEF TypeOK, Claim, Status, Active, Settled, Lease
    <2>3. /\ retry' \in [Tasks -> Nat]
          /\ token' \in [Tasks -> Nat]
          /\ nextToken' \in Nat \ {0}
          /\ attempts' \in [Tasks -> Nat]
      BY <1>6, <2>1 DEF TypeOK, Claim, NoToken
    <2>4. /\ passToken' \in [Workers -> Nat]
          /\ batch' \in [Workers -> SUBSET Tasks]
          /\ copy' \in [Workers -> [Tasks -> TaskCopy]]
      BY <1>6, <2>1 DEF TypeOK, Claim, Batches
    <2>5. UNCHANGED <<run, results, running>>
      BY <1>6 DEF Claim
    <2>6. QED
      BY <2>2, <2>3, <2>4, <2>5 DEF TypeOK
  <1>7. ASSUME NEW w \in Workers, NEW t \in Tasks, Start(w, t) PROVE TypeOK'
    BY <1>7 DEF TypeOK, Start, row
  <1>8. ASSUME NEW w \in Workers, NEW t \in Tasks, Leave(w, t)
        PROVE  /\ passToken' \in [Workers -> Nat]
               /\ batch' \in [Workers -> SUBSET Tasks]
               /\ copy' \in [Workers -> [Tasks -> TaskCopy]]
               /\ running' \in [Workers -> Tasks \cup {NoTask}]
    BY <1>8 DEF TypeOK, Leave, NoCopy, TaskCopy
  <1>9. ASSUME NEW w \in Workers, NEW t \in Tasks, Finish(w, t) PROVE TypeOK'
    <2>1. ASSUME NEW passed \in BOOLEAN, Complete(w, t, passed) PROVE TypeOK'
      <3>1. copy[w][t].run \in Nat
        BY DEF TypeOK, TaskCopy
      <3>2. QED
        BY <2>1, <3>1, <1>8 DEF TypeOK, Complete, Status, Settled, Lease, NoToken, ResultRow, EventRow, Completed
    <2>2. CASE Requeue(w, t)
      BY <2>2, <1>8 DEF TypeOK, Requeue, Status, Active, Lease, NoToken
    <2>3. CASE Fail(w, t)
      BY <2>3, <1>8 DEF TypeOK, Fail, Status, Settled, Lease, NoToken, EventRow, Failed
    <2>4. CASE Abandon(w, t)
      BY <2>4, <1>8 DEF TypeOK, Abandon, row
    <2>5. QED
      BY <1>9, <2>1, <2>2, <2>3, <2>4 DEF Finish
  <1>10. ASSUME NEW w \in Workers, Crash(w) PROVE TypeOK'
    BY <1>10 DEF TypeOK, Crash, row, NoCopy, NoToken, TaskCopy
  <1>11. CASE UNCHANGED vars
    BY <1>11 DEF TypeOK, vars, row, worker
  <1>12. QED
    BY <1>1, <1>2, <1>3, <1>4, <1>5, <1>6, <1>7, <1>9, <1>10, <1>11, NextSteps

\* Type correctness of every column and of the worker memory.
THEOREM TypeCorrect == Spec => []TypeOK
  BY InitTypeOK, NextTypeOK, PTL DEF Spec

-----------------------------------------------------------------------------
(* Leases and tokens *)

LEMMA NextLeaseShape == TypeOK /\ LeaseShape /\ [Next]_vars => LeaseShape'
  <1> SUFFICES ASSUME TypeOK, LeaseShape, [Next]_vars PROVE LeaseShape'
    OBVIOUS
  <1>1. ASSUME NEW t \in Tasks, Submit(t) PROVE LeaseShape'
    BY <1>1 DEF TypeOK, LeaseShape, Submit
  <1>2. ASSUME NEW t \in Tasks, Cancel(t) PROVE LeaseShape'
    BY <1>2 DEF TypeOK, LeaseShape, Cancel
  <1>3. ASSUME NEW S \in SUBSET Tasks, ResetForRejudge(S) PROVE LeaseShape'
    BY <1>3 DEF TypeOK, LeaseShape, ResetForRejudge, Rejudgeable, Settled
  <1>4. ASSUME NEW t \in Tasks, NEW passed \in BOOLEAN, ManualScore(t, passed)
        PROVE  LeaseShape'
    BY <1>4 DEF TypeOK, LeaseShape, ManualScore
  <1>5. ASSUME NEW t \in Tasks, Expire(t) PROVE LeaseShape'
    BY <1>5 DEF TypeOK, LeaseShape, Expire
  <1>6. ASSUME NEW w \in Workers, NEW expired \in Batches, NEW taken \in Batches,
               Claim(w, expired, taken)
        PROVE LeaseShape'
    BY <1>6 DEF TypeOK, LeaseShape, Claim, LeaseToken, NoToken
  <1>7. ASSUME NEW w \in Workers, NEW t \in Tasks, Finish(w, t) PROVE LeaseShape'
    BY <1>7 DEF TypeOK, LeaseShape, Finish, Complete, Requeue, Fail, Abandon, row
  <1>8. ASSUME UNCHANGED row PROVE LeaseShape'
    BY <1>8 DEF LeaseShape, row
  <1>9. QED
    BY <1>1, <1>2, <1>3, <1>4, <1>5, <1>6, <1>7, <1>8, NextSteps DEF Start, Crash, vars

LEMMA NextTokensUnique == TypeOK /\ TokensUnique /\ [Next]_vars => TokensUnique'
  <1> SUFFICES ASSUME TypeOK, TokensUnique, [Next]_vars PROVE TokensUnique'
    OBVIOUS
  <1>1. ASSUME NEW w \in Workers, NEW expired \in Batches, NEW taken \in Batches,
               Claim(w, expired, taken)
        PROVE TokensUnique'
    BY <1>1 DEF TypeOK, TokensUnique, Claim, LeaseToken, NoToken
  <1>2. ASSUME NEW w \in Workers, NEW t \in Tasks, Finish(w, t) PROVE TokensUnique'
    <2>1. passToken' = passToken /\ nextToken' = nextToken
      BY <1>2 DEF Finish, Complete, Requeue, Fail, Abandon, Leave
    <2>2. \A u \in Tasks : token'[u] = token[u] \/ token'[u] = NoToken
      BY <1>2 DEF TypeOK, Finish, Complete, Requeue, Fail, Abandon, row
    <2>3. nextToken > NoToken
      BY DEF TypeOK, NoToken
    <2>4. \A u \in Tasks : token'[u] < nextToken'
      BY <2>1, <2>2, <2>3 DEF TokensUnique
    <2>5. QED
      BY <2>1, <2>4 DEF TokensUnique
  <1>3. ASSUME NEW w \in Workers, Crash(w) PROVE TokensUnique'
    BY <1>3 DEF TypeOK, TokensUnique, NoToken, Crash, row
  <1>4. CASE Quiet
    BY <1>4 DEF TokensUnique, Quiet
  <1>5. ASSUME NEW S \in SUBSET Tasks, ResetForRejudge(S) PROVE TokensUnique'
    BY <1>5 DEF TokensUnique, ResetForRejudge, worker
  <1>6. QED
    BY <1>1, <1>2, <1>3, <1>4, <1>5, LoudSteps

LEMMA NextCopyFollowsToken ==
  TypeOK /\ LeaseShape /\ TokensUnique /\ CopyFollowsToken /\ [Next]_vars => CopyFollowsToken'
  <1> SUFFICES ASSUME TypeOK, LeaseShape, TokensUnique, CopyFollowsToken, [Next]_vars
               PROVE  CopyFollowsToken'
    OBVIOUS
  <1>1. ASSUME NEW S \in SUBSET Tasks, ResetForRejudge(S) PROVE CopyFollowsToken'
    \* a settled row carries no token, so no copy of it is claimed to be current
    BY <1>1 DEF TypeOK, LeaseShape, CopyFollowsToken, ResetForRejudge, Rejudgeable, Settled, worker
  <1>2. ASSUME NEW w \in Workers, NEW expired \in Batches, NEW taken \in Batches,
               Claim(w, expired, taken)
        PROVE CopyFollowsToken'
    <2> SUFFICES ASSUME NEW v \in Workers, NEW t \in batch'[v],
                        token'[t] = passToken'[v], token'[t] # NoToken
                 PROVE  copy'[v][t] = [retry |-> retry'[t], run |-> run'[t]]
      BY DEF CopyFollowsToken
    <2>1. CASE v = w
      BY <1>2, <2>1 DEF TypeOK, Claim, CopyOf, Batches
    <2>2. CASE v # w
      <3>1. t \in batch[v] /\ passToken'[v] = passToken[v] /\ copy'[v] = copy[v]
        BY <1>2, <2>2 DEF TypeOK, Claim
      <3>2. t \in Tasks /\ t \notin expired
        BY <1>2, <3>1 DEF TypeOK, Claim
      <3>3. t \notin taken
        BY <1>2, <3>1, <3>2 DEF TypeOK, TokensUnique, Claim, LeaseToken
      <3>4. QED
        BY <1>2, <3>1, <3>2, <3>3 DEF TypeOK, CopyFollowsToken, Claim
    <2>3. QED
      BY <2>1, <2>2
  <1>3. ASSUME NEW w \in Workers, NEW t \in Tasks, Finish(w, t) PROVE CopyFollowsToken'
    <2> SUFFICES ASSUME NEW v \in Workers, NEW u \in batch'[v],
                        token'[u] = passToken'[v], token'[u] # NoToken
                 PROVE  copy'[v][u] = [retry |-> retry'[u], run |-> run'[u]]
      BY DEF CopyFollowsToken
    <2>1. /\ u \in batch[v] /\ u \in Tasks /\ passToken'[v] = passToken[v]
          /\ copy'[v][u] = copy[v][u]
      <3>1. Leave(w, t)
        BY <1>3 DEF Finish, Complete, Requeue, Fail, Abandon
      <3>2. u \in batch[v] /\ u \in Tasks /\ (v = w => u # t)
        BY <3>1 DEF TypeOK, Leave
      <3>3. copy'[v][u] = copy[v][u]
        BY <3>1, <3>2 DEF TypeOK, Leave
      <3>4. QED
        BY <3>1, <3>2, <3>3 DEF Leave
    <2>2. token'[u] = token[u] /\ retry'[u] = retry[u] /\ run'[u] = run[u]
      BY <1>3, <2>1 DEF TypeOK, Finish, Complete, Requeue, Fail, Abandon, row
    <2>3. QED
      BY <2>1, <2>2 DEF CopyFollowsToken
  <1>4. ASSUME NEW w \in Workers, Crash(w) PROVE CopyFollowsToken'
    BY <1>4 DEF TypeOK, CopyFollowsToken, Crash, row
  <1>5. CASE Quiet
    BY <1>5 DEF CopyFollowsToken, Quiet
  <1>6. QED
    BY <1>1, <1>2, <1>3, <1>4, <1>5, LoudSteps

-----------------------------------------------------------------------------
(* Retries *)

LEMMA NextAttemptsCounted ==
  TypeOK /\ LeaseShape /\ CopyFollowsToken /\ AttemptsCounted /\ [Next]_vars => AttemptsCounted'
  <1> SUFFICES ASSUME TypeOK, LeaseShape, CopyFollowsToken, AttemptsCounted, [Next]_vars
               PROVE  AttemptsCounted'
    OBVIOUS
  <1>1. ASSUME NEW t \in Tasks, Submit(t) PROVE AttemptsCounted'
    BY <1>1 DEF TypeOK, AttemptsCounted, Submit
  <1>2. ASSUME NEW t \in Tasks, Cancel(t) PROVE AttemptsCounted'
    BY <1>2 DEF TypeOK, AttemptsCounted, Cancel
  <1>3. ASSUME NEW S \in SUBSET Tasks, ResetForRejudge(S) PROVE AttemptsCounted'
    BY <1>3 DEF TypeOK, AttemptsCounted, ResetForRejudge
  <1>4. ASSUME NEW t \in Tasks, NEW passed \in BOOLEAN, ManualScore(t, passed)
        PROVE  AttemptsCounted'
    BY <1>4 DEF TypeOK, AttemptsCounted, ManualScore
  <1>5. ASSUME NEW w \in Workers, NEW expired \in Batches, NEW taken \in Batches,
               Claim(w, expired, taken)
        PROVE  AttemptsCounted'
    BY <1>5 DEF TypeOK, AttemptsCounted, Claim, Stale, RetryOnClaim
  <1>6. ASSUME NEW w \in Workers, NEW t \in Tasks, Requeue(w, t) PROVE AttemptsCounted'
    <2>1. t \in batch[w] /\ token[t] = passToken[w] /\ token[t] # NoToken
      BY <1>6 DEF Requeue, Leave, Holds, LeaseShape
    <2>2. copy[w][t] = [retry |-> retry[t], run |-> run[t]]
      \* the decision to retry was taken on a current copy
      BY <2>1 DEF CopyFollowsToken
    <2>3. retry[t] < MaxRetries
      BY <1>6, <2>2 DEF Requeue
    <2>4. retry[t] + 1 <= MaxRetries
      BY <2>3 DEF TypeOK
    <2>5. QED
      BY <1>6, <2>4 DEF TypeOK, AttemptsCounted, Requeue
  <1>7. ASSUME NEW w \in Workers, NEW t \in Tasks, Finish(w, t) PROVE AttemptsCounted'
    <2>1. ASSUME NEW passed \in BOOLEAN, Complete(w, t, passed) PROVE AttemptsCounted'
      BY <2>1 DEF TypeOK, AttemptsCounted, Complete
    <2>2. CASE Fail(w, t)
      BY <2>2 DEF TypeOK, AttemptsCounted, Fail
    <2>3. CASE Abandon(w, t)
      BY <2>3 DEF AttemptsCounted, Abandon, row
    <2>4. QED
      BY <1>6, <1>7, <2>1, <2>2, <2>3 DEF Finish
  <1>8. ASSUME UNCHANGED <<status, retry, attempts>> PROVE AttemptsCounted'
    BY <1>8 DEF AttemptsCounted
  <1>9. ASSUME NEW t \in Tasks, Expire(t) PROVE AttemptsCounted'
    BY <1>8, <1>9 DEF Expire
  <1>10. ASSUME NEW w \in Workers, NEW t \in Tasks, Start(w, t) PROVE AttemptsCounted'
    BY <1>8, <1>10 DEF Start, row
  <1>11. ASSUME NEW w \in Workers, Crash(w) PROVE AttemptsCounted'
    BY <1>8, <1>11 DEF Crash, row
  <1>12. CASE UNCHANGED vars
    BY <1>8, <1>12 DEF vars, row
  <1>13. QED
    BY <1>1, <1>2, <1>3, <1>4, <1>5, <1>7, <1>9, <1>10, <1>11, <1>12, NextSteps

-----------------------------------------------------------------------------
(* Verdicts *)

\* One row of OneEventPerRun.
Row(t) ==
  /\ Len(events[t]) = run[t] + IF status[t] \in Settled THEN 1 ELSE 0
  /\ \A i \in DOMAIN events[t] : events[t][i].run = i - 1
  /\ status[t] = "done" => events[t][Len(events[t])].subject = "completed"
  /\ status[t] = "failed" => events[t][Len(events[t])].subject = "failed"

LEMMA NextOneEventPerRun == TypeOK /\ OneEventPerRun /\ [Next]_vars => OneEventPerRun'
  <1> SUFFICES ASSUME TypeOK, OneEventPerRun, [Next]_vars PROVE OneEventPerRun'
    OBVIOUS
  <1>1. \A t \in Tasks : Row(t)
    BY DEF OneEventPerRun, Row
  \* A row of which nothing changes, or only the status between pending ones.
  <1>2. ASSUME NEW t \in Tasks, events'[t] = events[t], run'[t] = run[t],
               \/ status'[t] = status[t]
               \/ status[t] \notin Settled /\ status'[t] \notin Settled
        PROVE  Row(t)'
    BY <1>1, <1>2 DEF Settled, Row
  \* A pending run that is decided.
  <1>3. ASSUME NEW t \in Tasks, NEW e \in EventRow,
               status[t] \notin Settled, run'[t] = run[t],
               events'[t] = Append(events[t], e), e.run = run[t],
               \/ status'[t] = "done" /\ e.subject = "completed"
               \/ status'[t] = "failed" /\ e.subject = "failed"
        PROVE  Row(t)'
    BY <1>1, <1>3 DEF TypeOK, Settled, Row
  \* A decided run that is followed by another.
  <1>4. ASSUME NEW t \in Tasks, status[t] \in Settled, status'[t] = "queued",
               run'[t] = run[t] + 1, events'[t] = events[t]
        PROVE  Row(t)'
    BY <1>1, <1>4 DEF TypeOK, Settled, Row
  <1>5. SUFFICES ASSUME NEW t \in Tasks PROVE Row(t)'
    BY DEF OneEventPerRun, Row
  <1>6. \A passed \in BOOLEAN : Completed(t, passed) \in EventRow
    BY DEF TypeOK, Completed, EventRow
  <1>7. Failed(t) \in EventRow
    BY DEF TypeOK, Failed, EventRow
  <1>8. ASSUME NEW u \in Tasks, Submit(u) PROVE Row(t)'
    BY <1>2, <1>8 DEF TypeOK, Submit, Settled
  <1>9. ASSUME NEW u \in Tasks, Cancel(u) PROVE Row(t)'
    BY <1>2, <1>9 DEF TypeOK, Cancel, Settled
  <1>10. ASSUME NEW S \in SUBSET Tasks, ResetForRejudge(S) PROVE Row(t)'
    BY <1>2, <1>4, <1>10 DEF TypeOK, ResetForRejudge, Rejudgeable
  <1>11. ASSUME NEW u \in Tasks, NEW passed \in BOOLEAN, ManualScore(u, passed) PROVE Row(t)'
    BY <1>2, <1>3, <1>6, <1>11 DEF TypeOK, ManualScore, Settled, Completed
  <1>12. ASSUME NEW u \in Tasks, Expire(u) PROVE Row(t)'
    BY <1>2, <1>12 DEF Expire
  <1>13. ASSUME NEW w \in Workers, NEW expired \in Batches, NEW taken \in Batches,
                Claim(w, expired, taken)
         PROVE  Row(t)'
    BY <1>2, <1>3, <1>7, <1>13 DEF TypeOK, Claim, Stale, Settled, Failed
  <1>14. ASSUME NEW w \in Workers, NEW u \in Tasks, Finish(w, u) PROVE Row(t)'
    <2>1. ASSUME NEW passed \in BOOLEAN, Complete(w, u, passed) PROVE Row(t)'
      BY <1>2, <1>3, <1>6, <2>1 DEF TypeOK, Complete, Holds, Settled, Completed
    <2>2. CASE Requeue(w, u)
      BY <1>2, <2>2 DEF TypeOK, Requeue, Holds, Settled
    <2>3. CASE Fail(w, u)
      BY <1>2, <1>3, <1>7, <2>3 DEF TypeOK, Fail, Holds, Settled, Failed
    <2>4. CASE Abandon(w, u)
      BY <1>2, <2>4 DEF Abandon, row
    <2>5. QED
      BY <1>14, <2>1, <2>2, <2>3, <2>4 DEF Finish
  <1>15. ASSUME UNCHANGED row PROVE Row(t)'
    BY <1>2, <1>15 DEF row
  <1>16. QED
    BY <1>8, <1>9, <1>10, <1>11, <1>12, <1>13, <1>14, <1>15, NextSteps DEF Start, Crash, vars

\* One row of ResultPerCompletion.
Stored(t) ==
  /\ \A i \in DOMAIN results[t] :
        \E j \in DOMAIN events[t] : Announces(events[t][j], results[t][i])
  /\ \A j \in DOMAIN events[t] :
        events[t][j].subject = "completed" =>
            \E i \in DOMAIN results[t] : Announces(events[t][j], results[t][i])
  /\ \A i, j \in DOMAIN results[t] : i < j => results[t][i].run < results[t][j].run

LEMMA NextResultPerCompletion ==
  TypeOK /\ LeaseShape /\ CopyFollowsToken /\ OneEventPerRun /\ ResultPerCompletion /\ [Next]_vars
    => ResultPerCompletion'
  <1> SUFFICES ASSUME TypeOK, LeaseShape, CopyFollowsToken, OneEventPerRun, ResultPerCompletion,
                      [Next]_vars
               PROVE  ResultPerCompletion'
    OBVIOUS
  <1>1. \A t \in Tasks : Row(t) /\ Stored(t)
    BY DEF OneEventPerRun, ResultPerCompletion, Row, Stored
  <1>2. ASSUME NEW t \in Tasks, events'[t] = events[t], results'[t] = results[t]
        PROVE  Stored(t)'
    BY <1>1, <1>2 DEF Stored
  <1>3. ASSUME NEW t \in Tasks, NEW e \in EventRow, e.subject = "failed",
               events'[t] = Append(events[t], e), results'[t] = results[t]
        PROVE  Stored(t)'
    <2>1. events[t] \in Seq(EventRow)
      BY DEF TypeOK
    <2>2. /\ DOMAIN events'[t] = 1 .. Len(events[t]) + 1
          /\ \A j \in DOMAIN events[t] : j \in DOMAIN events'[t] /\ events'[t][j] = events[t][j]
          /\ events'[t][Len(events[t]) + 1] = e
      BY <1>3, <2>1
    <2>3. \A j \in DOMAIN events'[t] :
             events'[t][j].subject = "completed" => j \in DOMAIN events[t]
      BY <1>3, <2>1, <2>2
    <2>4. QED
      BY <1>1, <1>3, <2>2, <2>3 DEF Stored
  <1>4. ASSUME NEW t \in Tasks, NEW e \in EventRow, NEW r \in ResultRow,
               status[t] \notin Settled, r.run = run[t], Announces(e, r),
               events'[t] = Append(events[t], e), results'[t] = Append(results[t], r)
        PROVE  Stored(t)'
    <2>1. /\ events[t] \in Seq(EventRow) /\ results[t] \in Seq(ResultRow)
          /\ run[t] \in Nat
      BY DEF TypeOK
    <2>2. /\ DOMAIN events'[t] = 1 .. Len(events[t]) + 1
          /\ \A j \in DOMAIN events[t] : j \in DOMAIN events'[t] /\ events'[t][j] = events[t][j]
          /\ events'[t][Len(events[t]) + 1] = e
          /\ DOMAIN events[t] = 1 .. Len(events[t]) /\ Len(events[t]) \in Nat
      BY <1>4, <2>1
    <2>3. /\ DOMAIN results'[t] = 1 .. Len(results[t]) + 1
          /\ \A i \in DOMAIN results[t] : i \in DOMAIN results'[t] /\ results'[t][i] = results[t][i]
          /\ results'[t][Len(results[t]) + 1] = r
          /\ DOMAIN results[t] = 1 .. Len(results[t]) /\ Len(results[t]) \in Nat
      BY <1>4, <2>1
    <2>4. \A i \in DOMAIN results[t] : results[t][i].run < run[t]
      \* a stored result was announced by one of the run[t] earlier events
      <3>1. \A j \in DOMAIN events[t] : events[t][j].run = j - 1
        BY <1>1 DEF Row
      <3>2. Len(events[t]) = run[t]
        BY <1>1, <1>4, <2>1, <2>2 DEF Row
      <3>3. SUFFICES ASSUME NEW i \in DOMAIN results[t] PROVE results[t][i].run < run[t]
        OBVIOUS
      <3>4. PICK j \in DOMAIN events[t] : Announces(events[t][j], results[t][i])
        BY <1>1 DEF Stored
      <3>5. QED
        BY <3>1, <3>2, <3>4, <2>1, <2>2 DEF Announces
    <2>5. Announces(events'[t][Len(events[t]) + 1], results'[t][Len(results[t]) + 1])
      BY <1>4, <2>2, <2>3
    <2>6. ASSUME NEW i \in DOMAIN results'[t]
          PROVE  \E j \in DOMAIN events'[t] : Announces(events'[t][j], results'[t][i])
      <3>1. CASE i \in DOMAIN results[t]
        <4>1. PICK j \in DOMAIN events[t] : Announces(events[t][j], results[t][i])
          BY <1>1, <3>1 DEF Stored
        <4>2. QED
          BY <4>1, <3>1, <2>2, <2>3
      <3>2. CASE i = Len(results[t]) + 1
        BY <3>2, <2>2, <2>5
      <3>3. QED
        BY <3>1, <3>2, <2>3
    <2>7. ASSUME NEW j \in DOMAIN events'[t], events'[t][j].subject = "completed"
          PROVE  \E i \in DOMAIN results'[t] : Announces(events'[t][j], results'[t][i])
      <3>1. CASE j \in DOMAIN events[t]
        <4>1. PICK i \in DOMAIN results[t] : Announces(events[t][j], results[t][i])
          BY <1>1, <2>2, <2>7, <3>1 DEF Stored
        <4>2. QED
          BY <4>1, <3>1, <2>2, <2>3
      <3>2. CASE j = Len(events[t]) + 1
        BY <3>2, <2>3, <2>5
      <3>3. QED
        BY <3>1, <3>2, <2>2
    <2>8. \A i, j \in DOMAIN results'[t] : i < j => results'[t][i].run < results'[t][j].run
      BY <1>1, <1>4, <2>3, <2>4 DEF Stored
    <2>9. QED
      BY <2>6, <2>7, <2>8 DEF Stored
  <1>5. SUFFICES ASSUME NEW t \in Tasks PROVE Stored(t)'
    BY DEF ResultPerCompletion, Stored
  <1>6. \A passed \in BOOLEAN :
           /\ Completed(t, passed) \in EventRow
           /\ [run |-> run[t], passed |-> passed] \in ResultRow
           /\ Announces(Completed(t, passed), [run |-> run[t], passed |-> passed])
    BY DEF TypeOK, Completed, EventRow, ResultRow, Announces
  <1>7. Failed(t) \in EventRow /\ Failed(t).subject = "failed"
    BY DEF TypeOK, Failed, EventRow
  <1>8. ASSUME NEW u \in Tasks, NEW passed \in BOOLEAN, ManualScore(u, passed) PROVE Stored(t)'
    BY <1>2, <1>4, <1>6, <1>8 DEF TypeOK, ManualScore, Settled
  <1>9. ASSUME NEW w \in Workers, NEW expired \in Batches, NEW taken \in Batches,
                Claim(w, expired, taken)
         PROVE  Stored(t)'
    BY <1>2, <1>3, <1>7, <1>9 DEF TypeOK, Claim
  <1>10. ASSUME NEW w \in Workers, NEW u \in Tasks, Finish(w, u) PROVE Stored(t)'
    <2>1. ASSUME NEW passed \in BOOLEAN, Complete(w, u, passed) PROVE Stored(t)'
      <3>1. u \in batch[w] /\ token[u] = passToken[w] /\ token[u] # NoToken
        BY <2>1 DEF Complete, Leave, Holds, LeaseShape
      <3>2. copy[w][u] = [retry |-> retry[u], run |-> run[u]]
        BY <3>1 DEF CopyFollowsToken
      <3>3. copy[w][u].run = run[u]
        BY <3>2
      <3>4. QED
        BY <1>2, <1>4, <1>6, <2>1, <3>3 DEF TypeOK, Complete, Holds, Settled
    <2>2. CASE Requeue(w, u)
      BY <1>2, <2>2 DEF Requeue
    <2>3. CASE Fail(w, u)
      BY <1>2, <1>3, <1>7, <2>3 DEF TypeOK, Fail
    <2>4. CASE Abandon(w, u)
      BY <1>2, <2>4 DEF Abandon, row
    <2>5. QED
      BY <1>10, <2>1, <2>2, <2>3, <2>4 DEF Finish
  <1>11. ASSUME UNCHANGED <<results, events>> PROVE Stored(t)'
    BY <1>2, <1>11
  <1>12. ASSUME NEW u \in Tasks, Submit(u) \/ Cancel(u) \/ Expire(u) PROVE Stored(t)'
    BY <1>11, <1>12 DEF Submit, Cancel, Expire
  <1>13. ASSUME NEW S \in SUBSET Tasks, ResetForRejudge(S) PROVE Stored(t)'
    BY <1>11, <1>13 DEF ResetForRejudge
  <1>14. ASSUME UNCHANGED row PROVE Stored(t)'
    BY <1>11, <1>14 DEF row
  <1>15. QED
    BY <1>8, <1>9, <1>10, <1>12, <1>13, <1>14, NextSteps DEF Start, Crash, vars

-----------------------------------------------------------------------------
(* Theorems *)

\* The inductive invariant.
Inv ==
  /\ TypeOK /\ LeaseShape /\ TokensUnique /\ CopyFollowsToken
  /\ AttemptsCounted /\ OneEventPerRun /\ ResultPerCompletion

LEMMA InitInv == Init => Inv
  <1> SUFFICES ASSUME Init PROVE Inv
    OBVIOUS
  <1>1. TypeOK
    BY InitTypeOK
  <1>2. LeaseShape /\ TokensUnique /\ CopyFollowsToken /\ AttemptsCounted
    BY DEF Init, LeaseShape, TokensUnique, CopyFollowsToken, AttemptsCounted, NoToken
  <1>3. OneEventPerRun /\ ResultPerCompletion
    BY DEF Init, OneEventPerRun, ResultPerCompletion, Settled
  <1>4. QED
    BY <1>1, <1>2, <1>3 DEF Inv

LEMMA Invariant == Spec => []Inv
  <1>1. Inv /\ [Next]_vars => Inv'
    BY NextTypeOK, NextLeaseShape, NextTokensUnique, NextCopyFollowsToken,
       NextAttemptsCounted, NextOneEventPerRun, NextResultPerCompletion DEF Inv
  <1>2. QED
    BY InitInv, <1>1, PTL DEF Spec

\* Whoever wins the race for a run, exactly one terminal event is recorded
\* for it and it agrees with the status of the row.
THEOREM EventsRecorded == Spec => []OneEventPerRun
  BY Invariant, PTL DEF Inv

\* Results and completed events tell the same story, also when workers come
\* back after their lease was lost.
THEOREM ResultsAnnounced == Spec => []ResultPerCompletion
  BY Invariant, PTL DEF Inv

\* At most one worker can settle a task, whatever the worker clocks say.
THEOREM LeaseExclusive == Spec => []OneLiveHolder
  <1>1. Inv => OneLiveHolder
    <2> SUFFICES ASSUME Inv, NEW t \in Tasks, NEW w \in Workers, NEW v \in Workers,
                        Holds(w, t), Holds(v, t)
                 PROVE  w = v
      BY DEF OneLiveHolder
    <2>1. passToken[w] = passToken[v] /\ passToken[w] # NoToken
      BY DEF Inv, LeaseShape, Holds
    <2>2. QED
      BY <2>1 DEF Inv, TokensUnique
  <1>2. QED
    BY <1>1, Invariant, PTL

\* No task is executed more often than its retries allow.
THEOREM AttemptsLimited == Spec => []AttemptsBounded
  <1>1. Inv => AttemptsBounded
    <2> SUFFICES ASSUME Inv, NEW t \in Tasks PROVE attempts[t] <= MaxRetries + 1
      BY DEF AttemptsBounded
    <2>1. retry[t] \in Nat /\ attempts[t] \in Nat
      BY DEF Inv, TypeOK
    <2>2. retry[t] <= MaxRetries /\ attempts[t] <= retry[t] + 1
      BY DEF Inv, AttemptsCounted
    <2>3. QED
      BY <2>1, <2>2
  <1>2. QED
    BY <1>1, Invariant, PTL

\* A worker decides between retrying and failing on what the row says now.
THEOREM CopiesCurrent == Spec => []CopyIsCurrent
  <1>1. Inv => CopyIsCurrent
    BY DEF Inv, LeaseShape, CopyFollowsToken, CopyIsCurrent, Holds, TypeOK
  <1>2. QED
    BY <1>1, Invariant, PTL

-----------------------------------------------------------------------------
(* The queue implements its contract *)

\* The verdict that an outbox row announces.
VerdictOf(e) == [subject |-> e.subject, passed |-> e.passed]

LEMMA LogAppend ==
  ASSUME TypeOK, NEW t \in Tasks, NEW e \in EventRow, events'[t] = Append(events[t], e)
  PROVE  LogOf(t)' = Append(LogOf(t), VerdictOf(e))
  <1>1. events[t] \in Seq(EventRow)
    BY DEF TypeOK
  <1>2. /\ Len(events[t]) \in Nat
        /\ Len(events'[t]) = Len(events[t]) + 1
        /\ \A i \in 1 .. Len(events[t]) : events'[t][i] = events[t][i]
        /\ events'[t][Len(events[t]) + 1] = e
    BY <1>1
  <1>3. LogOf(t)' = [i \in 1 .. Len(events'[t]) |-> VerdictOf(events'[t][i])]
    BY DEF LogOf, VerdictOf
  <1>4. LogOf(t) = [i \in 1 .. Len(events[t]) |-> VerdictOf(events[t][i])]
    BY DEF LogOf, VerdictOf
  <1>5. Len(LogOf(t)) = Len(events[t])
    BY <1>2, <1>4
  <1>6. Append(LogOf(t), VerdictOf(e)) =
          [i \in 1 .. Len(LogOf(t)) + 1 |->
             IF i = Len(LogOf(t)) + 1 THEN VerdictOf(e) ELSE LogOf(t)[i]]
    BY <1>2, <1>4, <1>5
  <1>7. QED
    BY <1>2, <1>3, <1>4, <1>5, <1>6

\* What the mapped variables of the contract range over.
ContractTypeOK ==
  \A t \in Tasks : PhaseOf(t) \in Contract!Phase /\ LogOf(t) \in Seq(Contract!Verdict)

LEMMA ContractTypes == TypeOK => ContractTypeOK
  <1> SUFFICES ASSUME TypeOK, NEW t \in Tasks
               PROVE  PhaseOf(t) \in Contract!Phase /\ LogOf(t) \in Seq(Contract!Verdict)
    BY DEF ContractTypeOK
  <1>1. status[t] \in Status /\ events[t] \in Seq(EventRow)
    BY DEF TypeOK
  <1>2. PhaseOf(t) \in Contract!Phase
    BY <1>1 DEF PhaseOf, Contract!Phase, Status, Active, Settled
  <1>3. \A i \in 1 .. Len(events[t]) :
           [subject |-> events[t][i].subject, passed |-> events[t][i].passed] \in Contract!Verdict
    <2>1. \A i \in 1 .. Len(events[t]) : events[t][i] \in EventRow
      BY <1>1
    <2>2. QED
      BY <2>1 DEF EventRow, Contract!Verdict
  <1>4. LogOf(t) \in Seq(Contract!Verdict)
    BY <1>1, <1>3 DEF LogOf
  <1>5. QED
    BY <1>2, <1>4

\* A step changes a row in one of these ways.
Seen(t) ==
  \/ /\ events'[t] = events[t]
     /\ \/ status[t] = "absent" /\ status'[t] \in Active
        \/ status[t] \in Active /\ status'[t] = "cancelled"
        \/ status[t] \in Settled /\ status'[t] \in Active
        \/ status[t] \in Active /\ status'[t] \in Active
        \/ status'[t] = status[t]
  \/ /\ status[t] \in Active /\ status'[t] \in Settled
     /\ \E e \in EventRow : events'[t] = Append(events[t], e)

LEMMA NextSeen == ASSUME TypeOK, [Next]_vars, NEW t \in Tasks PROVE Seen(t)
  <1>1. ASSUME status'[t] = status[t], events'[t] = events[t] PROVE Seen(t)
    BY <1>1 DEF Seen
  <1>2. ASSUME NEW e \in EventRow, status[t] = "judging", status'[t] \in Settled,
               events'[t] = Append(events[t], e)
        PROVE  Seen(t)
    BY <1>2 DEF Seen, Active, Settled
  <1>3. ASSUME status[t] \in Active, status'[t] \in Active, events'[t] = events[t]
        PROVE  Seen(t)
    BY <1>3 DEF Seen, Active, Settled
  <1>4. Failed(t) \in EventRow /\ \A passed \in BOOLEAN : Completed(t, passed) \in EventRow
    BY DEF TypeOK, Failed, Completed, EventRow
  <1>5. ASSUME NEW u \in Tasks, Submit(u) PROVE Seen(t)
    BY <1>1, <1>5 DEF TypeOK, Submit, Seen, Active
  <1>6. ASSUME NEW u \in Tasks, Cancel(u) PROVE Seen(t)
    BY <1>1, <1>6 DEF TypeOK, Cancel, Seen, Active, Settled
  <1>7. ASSUME NEW S \in SUBSET Tasks, ResetForRejudge(S) PROVE Seen(t)
    BY <1>1, <1>7 DEF TypeOK, ResetForRejudge, Rejudgeable, Seen, Active, Settled
  <1>8. ASSUME NEW u \in Tasks, NEW passed \in BOOLEAN, ManualScore(u, passed) PROVE Seen(t)
    BY <1>1, <1>2, <1>4, <1>8 DEF TypeOK, ManualScore, Settled
  <1>9. ASSUME NEW w \in Workers, NEW expired \in Batches, NEW taken \in Batches,
               Claim(w, expired, taken)
        PROVE  Seen(t)
    <2>1. CASE t \in expired
      BY <1>2, <1>4, <1>9, <2>1 DEF TypeOK, Claim, Stale, Settled
    <2>2. CASE t \notin expired
      BY <1>1, <1>3, <1>9, <2>2 DEF TypeOK, Claim, Stale, Active
    <2>3. QED
      BY <2>1, <2>2
  <1>10. ASSUME NEW w \in Workers, NEW u \in Tasks, Finish(w, u) PROVE Seen(t)
    <2>1. ASSUME NEW passed \in BOOLEAN, Complete(w, u, passed) PROVE Seen(t)
      BY <1>1, <1>2, <1>4, <2>1 DEF TypeOK, Complete, Holds, Settled
    <2>2. CASE Requeue(w, u)
      BY <1>1, <1>3, <2>2 DEF TypeOK, Requeue, Holds, Active
    <2>3. CASE Fail(w, u)
      BY <1>1, <1>2, <1>4, <2>3 DEF TypeOK, Fail, Holds, Settled
    <2>4. CASE Abandon(w, u)
      BY <1>1, <2>4 DEF Abandon, row
    <2>5. QED
      BY <1>10, <2>1, <2>2, <2>3, <2>4 DEF Finish
  <1>11. ASSUME NEW u \in Tasks, Expire(u) PROVE Seen(t)
    BY <1>1, <1>11 DEF Expire
  <1>12. ASSUME UNCHANGED row PROVE Seen(t)
    BY <1>1, <1>12 DEF row
  <1>13. QED
    BY <1>5, <1>6, <1>7, <1>8, <1>9, <1>10, <1>11, <1>12, NextSteps DEF Start, Crash, vars

LEMMA NextContract == TypeOK /\ ContractTypeOK' /\ [Next]_vars => Contract!Next
  <1> SUFFICES ASSUME TypeOK, ContractTypeOK', [Next]_vars PROVE Contract!Next
    OBVIOUS
  <1>1. ASSUME NEW t \in Tasks
        PROVE  \/ Contract!Ask(t) \/ Contract!Withdraw(t) \/ Contract!Reopen(t)
               \/ \E verdict \in Contract!Verdict : Contract!Decide(t, verdict)
               \/ Contract!Rest(t)
    <2>1. \A e \in EventRow : events'[t] = Append(events[t], e) =>
             VerdictOf(e) \in Contract!Verdict /\ LogOf(t)' = Append(LogOf(t), VerdictOf(e))
      BY LogAppend DEF EventRow, VerdictOf, Contract!Verdict
    <2>2. Seen(t)
      BY NextSeen
    <2>3. events'[t] = events[t] => LogOf(t)' = LogOf(t)
      BY DEF LogOf
    <2>4. /\ status[t] = "absent" => PhaseOf(t) = "unknown"
          /\ status[t] \in Active => PhaseOf(t) = "pending"
          /\ status[t] \in Settled => PhaseOf(t) = "decided"
      BY DEF PhaseOf, Active, Settled
    <2>5. /\ status'[t] \in Active => PhaseOf(t)' = "pending"
          /\ status'[t] \in Settled => PhaseOf(t)' = "decided"
          /\ status'[t] = "cancelled" => PhaseOf(t)' = "withdrawn"
          /\ status'[t] = status[t] => PhaseOf(t)' = PhaseOf(t)
      BY DEF PhaseOf, Active, Settled
    <2>6. QED
      BY <2>1, <2>2, <2>3, <2>4, <2>5 DEF Seen, Contract!Ask, Contract!Withdraw, Contract!Reopen, Contract!Decide, Contract!Rest
  <1>2. QED
    BY <1>1 DEF ContractTypeOK, Contract!Next

\* Seen from outside, a task queue with leases, crashes, retries and rejudges
\* only ever asks, decides once, withdraws and reopens.
THEOREM QueueImplementsContract == Spec => ImplementsContract
  <1>1. Init => Contract!Init
    BY DEF Init, Contract!Init, PhaseOf, LogOf, Active, Settled
  <1>2. TypeOK /\ ContractTypeOK' /\ [Next]_vars => [Contract!Next]_Contract!vars
    BY NextContract
  <1>3. QED
    BY <1>1, <1>2, ContractTypes, TypeCorrect, PTL DEF Spec, ImplementsContract, Contract!Spec
=============================================================================
