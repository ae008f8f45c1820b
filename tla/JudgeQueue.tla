----------------------------- MODULE JudgeQueue -----------------------------
(***************************************************************************)
(* The task queue of the judge module (M3).                                *)
(*                                                                         *)
(* A judge_task row is submitted by teaching, experiment or contest, is    *)
(* leased by one of several worker loops (one per backend replica), is     *)
(* executed outside any transaction and is settled by a compare-and-swap   *)
(* on the lease.  Every settling transaction also appends a row to the     *)
(* judge_event_outbox.  Workers crash, lose leases and come back late;     *)
(* teachers cancel, rejudge and score by hand at any moment.               *)
(*                                                                         *)
(* Time is abstracted to whether the lease of a row is live or expired on  *)
(* the clock of the database.  The sweep and the dequeue compare lease_until *)
(* with the worker's own clock: when ClocksAgree is FALSE a worker may      *)
(* take any lease for a stale one.                                         *)
(***************************************************************************)
EXTENDS Naturals, Sequences, FiniteSets

CONSTANTS
    Tasks,          \* judge_task rows, i.e. (tenant, source_ref, problem_ref) keys
    Manual,         \* the tasks of the manual judger (J6)
    SourceRef,      \* the source_ref of each task
    Workers,        \* worker loops
    NoTask,         \* a worker that executes nothing
    MaxRetries,     \* judge_task.max_retries
    BatchSize,      \* JUDGE_WORKER_BATCH_SIZE
    ClocksAgree,    \* worker clocks never run ahead of the database clock
    MaxReruns       \* bound on the rejudges of one task

ASSUME ManualAssumption == Manual \subseteq Tasks
ASSUME NoTaskAssumption == NoTask \notin Tasks
ASSUME RetryAssumption == MaxRetries \in Nat
ASSUME ClockAssumption == ClocksAgree \in BOOLEAN

VARIABLES
    \* columns of judge_task
    status, retry, token, lease,
    run,            \* rejudges so far; input_snapshot.rejudge is run > 0
    results,        \* judge_result rows of each task, by version
    events,         \* judge_event_outbox rows of each task, by id
    nextToken,      \* source of fresh lease tokens
    \* memory of the worker loops
    passToken,      \* lease token of the pass a worker is in
    batch,          \* leased tasks the pass has not finished yet
    copy,           \* the columns of those tasks as the dequeue returned them
    running,        \* the task whose execution (and lease renewal) has begun
    \* history
    attempts        \* leases granted to a task in its current run

row == <<status, retry, token, lease, run, results, events>>
worker == <<passToken, batch, copy, running>>
vars == <<row, nextToken, worker, attempts>>

-----------------------------------------------------------------------------
(* Values *)

Active    == {"queued", "judging"}
Settled   == {"done", "failed"}
Status    == {"absent", "cancelled"} \cup Active \cup Settled
Lease     == {"none", "live", "expired"}
NoToken   == 0
ResultRow == [run : Nat, passed : BOOLEAN]
EventRow  == [run : Nat, subject : {"completed", "failed"}, passed : BOOLEAN]
TaskCopy  == [retry : Nat, run : Nat]
NoCopy    == [retry |-> 0, run |-> 0]

\* Faults the properties are tested against stand in front of the definition
\* they replace, under the name of that definition and the fault.

Failed_WrongSubject(t) == [run |-> run[t], subject |-> "cancelled", passed |-> FALSE]

Completed(t, passed) == [run |-> run[t], subject |-> "completed", passed |-> passed]
Failed(t)            == [run |-> run[t], subject |-> "failed", passed |-> FALSE]

\* The lease columns of an expired row are taken to be empty.
Stale_OnlyUnleased(t) == status[t] = "judging" /\ lease[t] = "none" /\ t \notin Manual

\* lease_until <= stale_before, as a worker's clock sees it.
Stale(t) ==
    /\ status[t] = "judging"
    /\ \/ lease[t] = "expired"
       \/ lease[t] = "live" /\ ~ClocksAgree

\* The write is not fenced by the lease token.
Holds_AnyToken(w, t) == status[t] = "judging" /\ lease[t] = "live"

\* status = 2 AND lease_token = $token AND lease_until > now().
Holds(w, t) ==
    /\ status[t] = "judging"
    /\ token[t] = passToken[w]
    /\ lease[t] = "live"

-----------------------------------------------------------------------------
(* The calls of other modules and of teachers *)

\* SubmitJudgeTask: the first call creates the row, any other returns it as
\* it is.  A manual task skips the queue and waits for its teacher.
Submit(t) ==
    /\ status[t] = "absent"
    /\ status' = [status EXCEPT ![t] = IF t \in Manual THEN "judging" ELSE "queued"]
    /\ UNCHANGED <<retry, token, lease, run, results, events, nextToken, worker, attempts>>

\* CancelTask: only a task nobody executes.
Cancel(t) ==
    /\ status[t] = "queued"
    /\ status' = [status EXCEPT ![t] = "cancelled"]
    /\ UNCHANGED <<retry, token, lease, run, results, events, nextToken, worker, attempts>>

\* The WHERE clause of the reset forgets the status.
Rejudgeable_Pending(t) == status[t] \in Settled \cup Active

\* The WHERE clause of the reset lets a cancelled task back in.
Rejudgeable_Cancelled(t) == status[t] \in Settled \cup {"cancelled"}

\* status IN (3, 4)
Rejudgeable(t) == status[t] \in Settled

\* ResetJudgeTaskForRejudge on every task of S: back to the queue with the
\* retries of a new run; the lease columns are left as they are.
ResetForRejudge(S) ==
    /\ \A t \in S : Rejudgeable(t) /\ run[t] < MaxReruns
    /\ status' = [t \in Tasks |-> IF t \in S THEN "queued" ELSE status[t]]
    /\ retry' = [t \in Tasks |-> IF t \in S THEN 0 ELSE retry[t]]
    /\ run' = [t \in Tasks |-> IF t \in S THEN run[t] + 1 ELSE run[t]]
    /\ attempts' = [t \in Tasks |-> IF t \in S THEN 0 ELSE attempts[t]]
    /\ UNCHANGED <<token, lease, results, events, nextToken, worker>>

RejudgeTask(t) == ResetForRejudge({t})

\* RejudgeBatch: the settled tasks of one source_ref in one transaction.  A
\* task that settles after the list was read is left out, so S is any of them.
RejudgeBatch(S) ==
    /\ Cardinality(S) > 1
    /\ \A t, u \in S : SourceRef[t] = SourceRef[u]
    /\ ResetForRejudge(S)

\* ManualScore: a teacher settles a task that holds no worker lease.
ManualScore(t, passed) ==
    /\ t \in Manual
    /\ status[t] = "judging"
    /\ token[t] = NoToken /\ lease[t] = "none"
    /\ status' = [status EXCEPT ![t] = "done"]
    /\ results' = [results EXCEPT ![t] = Append(@, [run |-> run[t], passed |-> passed])]
    /\ events' = [events EXCEPT ![t] = Append(@, Completed(t, passed))]
    /\ UNCHANGED <<retry, token, lease, run, nextToken, worker, attempts>>

-----------------------------------------------------------------------------
(* The worker loop *)

\* Every pass uses the same token.
LeaseToken_Shared == 1

\* pkgcrypto.RandomToken(48), drawn once per pass.
LeaseToken == nextToken

\* Taking over a stale lease costs no retry.
RetryOnClaim_Free(t) == retry[t]

\* retry_count + CASE WHEN status = 2 THEN 1 ELSE 0 END
RetryOnClaim(t) == IF status[t] = "judging" THEN retry[t] + 1 ELSE retry[t]

\* The worker works on the row as it was before the dequeue.
CopyOf_BeforeUpdate(t) == [retry |-> retry[t], run |-> run[t]]

\* The row as the dequeue RETURNs it.
CopyOf(t) == [retry |-> RetryOnClaim(t), run |-> run[t]]

\* The first transaction of RunWorkerOnce: fail the stale tasks that have no
\* retry left (expired) and lease queued or stale ones (taken) under one
\* fresh token.  SKIP LOCKED lets a pass miss rows, so both sets are any
\* subset within the limit.
Claim(w, expired, taken) ==
    /\ batch[w] = {}
    /\ expired \cup taken # {}
    /\ \A t \in expired : Stale(t) /\ retry[t] >= MaxRetries
    /\ \A t \in taken : status[t] = "queued" \/ (Stale(t) /\ retry[t] < MaxRetries)
    /\ status' = [t \in Tasks |-> IF t \in expired THEN "failed"
                                  ELSE IF t \in taken THEN "judging" ELSE status[t]]
    /\ retry' = [t \in Tasks |-> IF t \in taken THEN RetryOnClaim(t) ELSE retry[t]]
    /\ token' = [t \in Tasks |-> IF t \in expired THEN NoToken
                                 ELSE IF t \in taken THEN LeaseToken ELSE token[t]]
    /\ lease' = [t \in Tasks |-> IF t \in expired THEN "none"
                                 ELSE IF t \in taken THEN "live" ELSE lease[t]]
    /\ events' = [t \in Tasks |-> IF t \in expired THEN Append(events[t], Failed(t))
                                  ELSE events[t]]
    /\ nextToken' = nextToken + 1
    /\ passToken' = [passToken EXCEPT ![w] = LeaseToken]
    /\ batch' = [batch EXCEPT ![w] = taken]
    /\ copy' = [copy EXCEPT ![w] = [t \in Tasks |->
                                IF t \in taken THEN CopyOf(t) ELSE NoCopy]]
    /\ attempts' = [t \in Tasks |-> IF t \in taken THEN attempts[t] + 1 ELSE attempts[t]]
    /\ UNCHANGED <<run, results, running>>

\* processTask: the leased tasks of a batch are executed one after the other.
\* Only now does the heartbeat that renews the lease of t begin.
Start(w, t) ==
    /\ running[w] = NoTask
    /\ t \in batch[w]
    /\ running' = [running EXCEPT ![w] = t]
    /\ UNCHANGED <<row, nextToken, passToken, batch, copy, attempts>>

\* The worker is through with t, whatever became of it.
Leave(w, t) ==
    /\ running[w] = t
    /\ t \in batch[w]
    /\ batch' = [batch EXCEPT ![w] = @ \ {t}]
    /\ copy' = [copy EXCEPT ![w][t] = NoCopy]
    /\ running' = [running EXCEPT ![w] = NoTask]
    /\ passToken' = passToken

\* completeTask: result, status and outbox row in one transaction.  The
\* manual judger has no executor, so a manual task never gets here.
Complete(w, t, passed) ==
    /\ Leave(w, t)
    /\ t \notin Manual
    /\ Holds(w, t)
    /\ results' = [results EXCEPT ![t] = Append(@, [run |-> copy[w][t].run, passed |-> passed])]
    /\ status' = [status EXCEPT ![t] = "done"]
    /\ token' = [token EXCEPT ![t] = NoToken]
    /\ lease' = [lease EXCEPT ![t] = "none"]
    /\ events' = [events EXCEPT ![t] = Append(@, Completed(t, passed))]
    /\ UNCHANGED <<retry, run, nextToken, attempts>>

\* retryOrFail with retries left on the worker's copy: back to the queue.
Requeue(w, t) ==
    /\ Leave(w, t)
    /\ copy[w][t].retry < MaxRetries
    /\ Holds(w, t)
    /\ status' = [status EXCEPT ![t] = "queued"]
    /\ retry' = [retry EXCEPT ![t] = @ + 1]
    /\ token' = [token EXCEPT ![t] = NoToken]
    /\ lease' = [lease EXCEPT ![t] = "none"]
    /\ UNCHANGED <<run, results, events, nextToken, attempts>>

\* retryOrFail without retries left: the failed status and its outbox row.
Fail(w, t) ==
    /\ Leave(w, t)
    /\ copy[w][t].retry >= MaxRetries
    /\ Holds(w, t)
    /\ status' = [status EXCEPT ![t] = "failed"]
    /\ token' = [token EXCEPT ![t] = NoToken]
    /\ lease' = [lease EXCEPT ![t] = "none"]
    /\ events' = [events EXCEPT ![t] = Append(@, Failed(t))]
    /\ UNCHANGED <<retry, run, results, nextToken, attempts>>

\* The heartbeat found the lease lost, the compare-and-swap matched no row,
\* or the settling transaction itself failed: nothing is written.
Abandon(w, t) ==
    /\ Leave(w, t)
    /\ UNCHANGED <<row, nextToken, attempts>>

\* The process of w dies and its successor starts with an empty memory.
Crash(w) ==
    /\ batch[w] # {}
    /\ batch' = [batch EXCEPT ![w] = {}]
    /\ copy' = [copy EXCEPT ![w] = [t \in Tasks |-> NoCopy]]
    /\ running' = [running EXCEPT ![w] = NoTask]
    /\ passToken' = [passToken EXCEPT ![w] = NoToken]
    /\ UNCHANGED <<row, nextToken, attempts>>

\* The database clock passes lease_until.
Expire(t) ==
    /\ lease[t] = "live"
    /\ lease' = [lease EXCEPT ![t] = "expired"]
    /\ UNCHANGED <<status, retry, token, run, results, events, nextToken, worker, attempts>>

-----------------------------------------------------------------------------
(* Specification *)

Init ==
    /\ status = [t \in Tasks |-> "absent"]
    /\ retry = [t \in Tasks |-> 0]
    /\ token = [t \in Tasks |-> NoToken]
    /\ lease = [t \in Tasks |-> "none"]
    /\ run = [t \in Tasks |-> 0]
    /\ results = [t \in Tasks |-> <<>>]
    /\ events = [t \in Tasks |-> <<>>]
    /\ nextToken = 1
    /\ passToken = [w \in Workers |-> NoToken]
    /\ batch = [w \in Workers |-> {}]
    /\ copy = [w \in Workers |-> [t \in Tasks |-> NoCopy]]
    /\ running = [w \in Workers |-> NoTask]
    /\ attempts = [t \in Tasks |-> 0]

Batches == {S \in SUBSET Tasks : Cardinality(S) <= BatchSize}

Finish(w, t) ==
    \/ \E passed \in BOOLEAN : Complete(w, t, passed)
    \/ Requeue(w, t)
    \/ Fail(w, t)
    \/ Abandon(w, t)

Next ==
    \/ \E t \in Tasks :
        \/ Submit(t)
        \/ Cancel(t)
        \/ RejudgeTask(t)
        \/ \E passed \in BOOLEAN : ManualScore(t, passed)
        \/ Expire(t)
    \/ \E S \in SUBSET Tasks : RejudgeBatch(S)
    \/ \E w \in Workers :
        \/ \E expired, taken \in Batches : Claim(w, expired, taken)
        \/ \E t \in Tasks : Start(w, t) \/ Finish(w, t)
        \/ Crash(w)

Spec == Init /\ [][Next]_vars

\* A lease that no running execution renews.
Unattended(t) == ~\E w \in Workers : running[w] = t /\ token[t] = passToken[w]

\* The background loop of every replica keeps making passes, an execution
\* ends (every sandbox call has a timeout) and a lease nobody renews runs out.
Fairness ==
    /\ \A t \in Tasks :
        /\ WF_vars(\E w \in Workers, expired, taken \in Batches :
                       t \in expired \cup taken /\ Claim(w, expired, taken))
        /\ WF_vars(Unattended(t) /\ Expire(t))
    /\ \A w \in Workers :
        /\ WF_vars(\E t \in Tasks : Start(w, t))
        /\ WF_vars(\E t \in Tasks : Finish(w, t))

FairSpec == Spec /\ Fairness
-----------------------------------------------------------------------------
(* Properties *)

\* The columns of a row and the memory of a worker keep their shapes.
TypeOK ==
    /\ status \in [Tasks -> Status]
    /\ retry \in [Tasks -> Nat]
    /\ token \in [Tasks -> Nat]
    /\ lease \in [Tasks -> Lease]
    /\ run \in [Tasks -> Nat]
    /\ results \in [Tasks -> Seq(ResultRow)]
    /\ events \in [Tasks -> Seq(EventRow)]
    /\ nextToken \in Nat \ {0}
    /\ passToken \in [Workers -> Nat]
    /\ batch \in [Workers -> SUBSET Tasks]
    /\ copy \in [Workers -> [Tasks -> TaskCopy]]
    /\ running \in [Workers -> Tasks \cup {NoTask}]
    /\ attempts \in [Tasks -> Nat]

\* Every run of a task that has ended left exactly one terminal event, in the
\* order of the runs, and the last one agrees with the status of the row:
\* completeTask, retryOrFail, ManualScore and the expiry sweep race for a run
\* and one of them wins; a cancelled or a pending run has no event.
OneEventPerRun ==
    \A t \in Tasks :
        /\ Len(events[t]) = run[t] + IF status[t] \in Settled THEN 1 ELSE 0
        /\ \A i \in DOMAIN events[t] : events[t][i].run = i - 1
        /\ status[t] = "done" => events[t][Len(events[t])].subject = "completed"
        /\ status[t] = "failed" => events[t][Len(events[t])].subject = "failed"

\* A completed event announces a stored result.
Announces(event, result) ==
    /\ event.subject = "completed"
    /\ event.run = result.run /\ event.passed = result.passed

\* The results a task keeps are those its completed events announced, one per
\* run and in the order of the runs: a worker that lost its lease, came back
\* after a rejudge and still holds an outcome of an earlier run cannot store it.
ResultPerCompletion ==
    \A t \in Tasks :
        /\ \A i \in DOMAIN results[t] :
              \E j \in DOMAIN events[t] : Announces(events[t][j], results[t][i])
        /\ \A j \in DOMAIN events[t] :
              events[t][j].subject = "completed" =>
                  \E i \in DOMAIN results[t] : Announces(events[t][j], results[t][i])
        /\ \A i, j \in DOMAIN results[t] : i < j => results[t][i].run < results[t][j].run

\* Two worker loops never both hold a task with the right to settle it,
\* whatever their clocks say about the lease.
OneLiveHolder ==
    \A t \in Tasks, w, v \in Workers :
        /\ t \in batch[w] /\ Holds(w, t)
        /\ t \in batch[v] /\ Holds(v, t)
        => w = v

\* A run is executed at most MaxRetries + 1 times: a crash, a lost lease and
\* a failed execution all use up a retry.
AttemptsBounded == \A t \in Tasks : attempts[t] <= MaxRetries + 1

\* The copy on which a worker decides between retrying and failing is what
\* the row says as long as the worker may still write it.
CopyIsCurrent ==
    \A w \in Workers : \A t \in batch[w] :
        Holds(w, t) => copy[w][t] = [retry |-> retry[t], run |-> run[t]]

\* The inductive strengthening of the invariants above.

\* A row carries a token exactly while it is leased, and only in judging.
LeaseShape ==
    \A t \in Tasks :
        /\ lease[t] = "none" <=> token[t] = NoToken
        /\ token[t] # NoToken => status[t] = "judging"

\* No token is handed out twice.
TokensUnique ==
    /\ \A t \in Tasks : token[t] < nextToken
    /\ \A w \in Workers : passToken[w] < nextToken
    /\ \A w, v \in Workers :
          w # v /\ passToken[w] = passToken[v] => passToken[w] = NoToken

\* A copy is current for as long as the token of its pass is on the row, even
\* if the lease has expired meanwhile.
CopyFollowsToken ==
    \A w \in Workers : \A t \in batch[w] :
        token[t] = passToken[w] /\ token[t] # NoToken
            => copy[w][t] = [retry |-> retry[t], run |-> run[t]]

\* What the retry counter says about the leases of the current run.
AttemptsCounted ==
    \A t \in Tasks :
        /\ retry[t] <= MaxRetries
        /\ attempts[t] <= retry[t] + 1
        /\ status[t] \in {"absent", "queued"} => attempts[t] <= retry[t]

\* A task in the queue or under a lease is eventually settled or cancelled,
\* although every worker may crash or lose its lease at any time.
TasksSettle ==
    \A t \in Tasks :
        (status[t] = "queued" \/ token[t] # NoToken)
            ~> status[t] \in Settled \cup {"cancelled"}

\* What callers see of a row: its phase and the verdicts of its outbox rows.
PhaseOf(t) ==
    CASE status[t] = "absent"    -> "unknown"
      [] status[t] \in Active    -> "pending"
      [] status[t] \in Settled   -> "decided"
      [] status[t] = "cancelled" -> "withdrawn"

LogOf(t) ==
    [i \in 1 .. Len(events[t]) |->
        [subject |-> events[t][i].subject, passed |-> events[t][i].passed]]

Contract == INSTANCE JudgeContract WITH
    phase <- [t \in Tasks |-> PhaseOf(t)],
    log   <- [t \in Tasks |-> LogOf(t)]

\* The queue with its workers, leases, retries and the expiry sweep keeps the
\* contract: one announced verdict per decision, none for a cancelled task.
ImplementsContract == Contract!Spec
=============================================================================
