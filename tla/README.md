# CHAIMIR verification project

TLA+ models of CHAIMIR, a teaching and contest platform for blockchain courses:
a Go modular monolith (`src/backend`) that runs as several identical replicas over
PostgreSQL, NATS JetStream, Redis, an object store and Kubernetes. Students work in
sandboxes, a judge engine scores their work, and teaching, experiments, contests and
grades build on the verdicts.

The hard part of this system is not any single request. It is that state moves through
several steps in several processes: database leases held by loops that run in every
replica, transactional outboxes, at-least-once events, handlers that read in one
transaction and write in another, and teachers who cancel, rejudge, score and penalise
at any moment. That is what the models are about.

Paths below are relative to `src/`; `M1` ... `M11` are the module numbers the
documentation (`docs/`) uses.

## 1. Inventory

| Component | State | Operations | Interacts with | Hard behaviour | Correct when |
|---|---|---|---|---|---|
| Judge task queue (M3) `backend/internal/modules/judge` | `judge_task`, `judge_result` rows; memory of the worker loops | submit, cancel, rejudge one or a source, score by hand, dequeue and sweep, renew, complete, retry, fail | called by M6, M7, M8; writes the judge outbox in the same transaction | leases that expire, late workers, clocks that disagree, crashes | one verdict and one event per run; two workers never both settle a run; every queued task settles |
| Judge outbox (M3) | `judge_event_outbox` | claim, publish, mark published or failed, exhaust | queue to event bus | crash or lost answer between publishing and marking; late publishers | a published row is in the stream; nothing stays leased for ever |
| Event bus `backend/internal/platform/eventbus` | JetStream stream, one durable consumer per subject and queue, dead letter stream | publish, deliver, handle, refuse, dead letter, confirm | every module publishes and subscribes | lost acknowledgements, slow handlers, several replicas on one consumer, poison messages | no event is skipped; order per consumer; no consumer is blocked for ever |
| Solve contests (M8) `backend/internal/modules/contest/service_solve.go` | `solve_submission`, `ladder_rank`, cheat records | submit, apply a verdict or a failure, refresh a team's rank, penalise | asks M3, consumes `judge.completed` and `judge.failed` | verdict before the row is stored, redelivery, rejudge, events out of order, projection overwritten | the ladder is the sum of what the verdicts say |
| Judge execution (M3) `service_worker.go`, `service_judgers.go` | the sandbox of an execution | create or reuse a sandbox, run, destroy | M2 | attempts of one task share a sandbox by its source_ref | attempts do not disturb each other |
| Sandbox lifecycle (M2) `backend/internal/modules/sandbox` | `sandbox` row, Kubernetes namespace, `sandbox_recycle_outbox`, start tasks in memory | create, start in phases, pause, resume, destroy, scheduled and cascading recycle, snapshot | called by M3, M4, M7, M8; publishes `sandbox.recycled`, `sandbox.failed` | starts racing recycles, state checked in one transaction and written in another, unconditional updates, crash between Kubernetes and the database | one start initialises it; what was recycled never comes back; its end is recorded; no accepted work is deleted before it is archived |
| Battle contests (M8) `service_battle*.go` | `battle_entry`, `battle_match`, ladder | enter, pair, start under a lease, settle a verdict, reconcile, finalize under a lease | M2, M3 | event and reconciliation settle the same match, start lease lost with a task submitted | ratings move once per match; every match ends; its sandbox is recycled |
| Contest lifecycle (M8) `service_contest.go` | `contest` status, snapshots | publish, start, end, freeze, archive, timed advance | M2 for recycling | teacher and clock at once; archive while verdicts arrive | the snapshot is final and complete |
| Experiments (M7) `backend/internal/modules/experiment` | instances, checkpoints, scores, `experiment_event_outbox` | start, stage, judge a checkpoint, pause, resume, finish, recycle, apply verdicts, submit and grade a report | M2, M3, M4; scores flow to M6 | request and event write the same checkpoint; status read without a lock and overwritten later; a finish that dies half-way | the score of a finished instance is the sum of its checkpoints and reports, and M6 holds it in the end |
| Teaching (M6) `backend/internal/modules/teaching` | courses, assignments, submissions, grades, `submission_judge_outbox`, `teaching_grade_event_outbox` | submit, judge, grade, override, publish | M3, M7, M11 | two outboxes, locked grades, concurrent recomputation | a locked grade does not change |
| Academic grades (M11) `backend/internal/modules/grade` | reviews, records, appeals, warnings, `grade_lock_outbox` | submit, approve, unlock, appeal, accept, compute GPA | locks M6 with authority revisions | lock and unlock deliveries out of order | the newest authority wins |
| Identity (M1) | tenants, accounts, sessions, `tenant_provision_outbox` | provision, log in, refresh, import | all | provisioning steps that fail half-way | a tenant is provisioned once |
| Simulation (M4), content (M5), admin (M9), notify (M10) | own tables | sessions and packages; versions; configuration and alerts; inbox | event consumers | redelivery | one inbox entry per event |
| Platform layer `backend/internal/platform` | transfer tasks, upload sessions, websocket rooms | loops, audit, auth, storage | all | leases of transfers, half-finished uploads | as the contracts say |
| Frontend, images, deployment, generated code | none of their own | | | | |

The machine-readable list, with the files of each component, is `components` in
`PROJECT.json`; every hazard that the code is exposed to is listed there at its line
with the property that would catch it.

## 2. Plan

The most important path of the system is "submission, queue, outbox, bus, score". It is
modelled first, one module per link, each link from its own code:

1. `JudgeQueue`, with the abstract `JudgeContract` it implements (done, proved but for
   liveness);
2. `EventBus` (done, proved but for liveness);
3. `JudgeOutbox` (done, proved but for liveness); both implement the abstract `Delivery`;
4. `SolveScoring`, which assumes of the judge what `JudgeContract` says and of the bus
   what `EventBus` guarantees with timely handlers (done, proved);
5. `BattleMatch`: start lease, verdict, reconciliation, leased finalization, and the
   archiving of the contest (done, proved but for liveness);
6. `SandboxLifecycle`: create, phased start, writes and saves, pause, resume, recycle
   (done, proved but for liveness);
7. `ExperimentScoring`: checkpoint requests racing their verdicts, reports, finished
   instances and the copy of the score in M6 (done, proved but for liveness);
8. `GradeLock` and `TeachingGrades`: lock and unlock with authority revisions, the two
   teaching outboxes;
9. `JudgeSandbox`: the fresh sandbox of a judge execution across attempts;
10. `ContestLifecycle`: publication, signup, freeze; archiving is part of `BattleMatch`;
11. `TenantProvision` and `TransferTask`;
12. `VerdictPipeline`: the composition queue, outbox, bus and consumer. Each hop already
    implements `Delivery`; what is left is their composition, from the commit of a verdict
    to the commit of its handler, which then replaces the informal assumption in 4, 5
    and 7.

Theorems planned: for each component type correctness, its main safety invariants by
an inductive strengthening that is model-checked first, and the refinement of an
abstract specification where one exists (queue, outbox and bus: done; pipeline: planned). Runs are kept
at two actors and two or three items, which is where every race listed under `hazards`
already happens. To keep the whole set quick, a module added later brings one run for
safety and at most one for liveness, and runs of one component are merged when
one instance can answer their questions together, as those of `EventBus`,
`SolveScoring` and `ExperimentScoring` do.

## 3. Models

### JudgeQueue

| TLA+ | code |
|---|---|
| `status, retry, token, lease, run, results` | columns of `judge_task` and the `judge_result` versions |
| `events` | rows of `judge_event_outbox` as the settling transactions append them |
| `passToken, batch, copy, running` | local variables of `RunWorkerOnce` and `processTask` |
| `Submit, Cancel, RejudgeTask, RejudgeBatch, ManualScore` | `SubmitJudgeTask`, `CancelTask`, `rejudgeTask`, `RejudgeBatch`, `ManualScore` |
| `Claim` | first transaction of `RunWorkerOnce`: `FailExpiredJudgeTasks` and `DequeueJudgeTasks` |
| `Start, Complete, Requeue, Fail, Abandon` | `processTask`, `completeTask`, the two branches of `retryOrFail`, a lost compare-and-swap |
| `Expire, Crash` | time passing `lease_until`; the death of a replica |

A lease is `none`, `live` or `expired` on the database clock, which the writes compare
with (`lease_until > now()`). The dequeue compares with the clock of the worker
(`staleBefore` is passed as a parameter), so with `ClocksAgree = FALSE` a worker may take
a live lease for a stale one. Renewal appears as the liberty of a live lease not to
expire. `attempts` is a history variable. The content of a verdict is reduced to
whether it passed.

`JudgeContract` is what callers may rely on: a task is unknown, pending, decided or
withdrawn, and a log of verdicts grows by one entry per decision. `Contract` in
`JudgeQueue` is its instance under the mapping `PhaseOf`, `LogOf`.

### JudgeOutbox

The rows the queue appends, on their way to the stream: `Claim` is the first transaction
of `publishPendingOutbox` (exhaust, then claim under one fresh token), `Publish` is
`bus.Publish` with an answer that may be lost after the broker stored the event, and
`MarkPublished`, `MarkFailed`, `NoMark` are the three ways the row is left. `due`
stands for `next_attempt_at <= now()`. As in the code the failure mark is tried after an
error of the publication and also after an error of the success mark. `stream` records
each stored copy with the attempt that sent it. No heartbeat renews these leases.

`Delivery` is what a hop of an event promises to the next: the sender accepts an item for
good, copies of it arrive while the sender likes, and it counts as delivered for good
only what has arrived. `Hop` in `JudgeOutbox` is its instance in which the recorded rows
are accepted, those in the stream have arrived and the published ones are settled; so a
row is never dropped, never taken back from `published`, and never published without a
copy in the stream. It is not promised that every row settles: attempts may be used up.

### EventBus

One subject and one durable consumer. `stored, floor, tries, ready` belong to the
broker (external), as `Subscribe` configures it: `MaxAckPending = 1`, `MaxDeliver = -1`,
explicit acknowledgement, `AckWait`. The retention of the stream by age and bytes
(`eventbus.go:98-99`) is left out: what is stored stays. A replica holds at most one delivery
(`PullMaxMessages(1)`, callback in sequence); its `slot` walks through the stages of
`handleMessage`. `applied` is the history of committed handlers. A handler may still be
at work when the broker's ack wait is over, and then the broker redelivers while it runs,
as it may in the code; the history variable `late` says whether that has happened, and
`InOrder`, `SingleHandler` and `DeadIsFinal` speak of the time before. `Hop` is the
instance of `Delivery` in which the messages of the stream are accepted, those handled or
dead lettered have arrived, and the acknowledged ones are settled. It makes no exception
for late handlers, and it includes `NothingSkipped`.

### SolveScoring

`task` is the judge as its contract presents it, `row` and `board` are
`solve_submission` and `ladder_rank`, `pending` the events in flight. `AskJudge` and
`StoreRow` are the two transactions of `SubmitSolve`; `ReadTask` and `ApplyCompleted`
are the read and the transaction of `HandleSolveJudgeCompleted`; `ApplyFailed` is
`HandleSolveJudgeFailed`; `Penalize` is `applyCheatPenalty`, taken as one step although it
reads and overwrites without a lock (no property speaks of the score of a penalised team
beyond its bounds). Scores are computed as the
SQL and `dynamicSolveScore` compute them, over small numbers. `handled`, `penalty` and
`solvers` are history. `VerdictApplied` is stated for a submission that was not itself
rejudged, `BoardIsSum` for teams without a deduction while nothing was rejudged, and
`ScoreByOrder` in addition while nothing was delivered twice; what happens to the others
is in section 6.

### BattleMatch

| TLA+ | code |
|---|---|
| `status, token, lease, tries, started, finalized, delta` | columns of `battle_match`; `started` is `judge_task_ref IS NOT NULL` |
| `over, phase, archToken, archLease` | `end_at <= now()` and the status and archive lease of the `contest` row |
| `board, snapshot` | `ladder_rank` and the archived `contest_ladder_snapshot` |
| `box, verdict` | the sandbox and the judge task of the match's `source_ref` (M2, M3) |
| `job, seen` | local variables of the goroutines: what they do, the claimed batch, the ratings read |
| `Enter, EndEntry` | the transaction of `SubmitBattleEntry`, split because it may commit late |
| `SearchMatches, Claim`, `Begin` ... `PassOver` | `RunMatchmakerOnce` and `executeBattleMatch`, step by step |
| `Lock, Settle` | `HandleBattleJudgeCompleted`: reading under the lock, and the writes |
| `JudgeLost` | `HandleBattleJudgeFailed` |
| `ClaimDelivery, Deliver, Confirm` | `finalizeBattleMatch` |
| `SearchArchive, ClaimArchive, Archive` | the automatic and the manual archive claim, `archiveContestSystem` |
| `Stop` | a process dies or a call fails |

An actor is any goroutine of any replica; a free actor may become a pass of the
matchmaker, an event handler, the reconciliation, a finalization or an archiving, so all
of them run against each other. A lease token is a fresh random number and is identified
with its actor; `gone` is the token of an actor that has finished. The statements that claim a batch of matches or a contest search
on a snapshot and lock afterwards, and only the locked row is looked at again
(`ClaimPendingBattleMatchesAcrossTenants`, `ClaimAutoArchiveContestsAcrossTenants`): search
and lock are separate actions. So an entry may commit between the search for active matches
and the lock of the contest, and the matchmaker may start a match of a contest that was
claimed in the meantime. `Stranded` is a match that is active in a claimed contest; the
liveness properties except it (section 6), the others hold beside it. Two locks shape the
interleavings. A settlement holds the contest row and the match row (`FOR UPDATE OF c,
m`), and `Lock` and `Settle` are separate actions so that what happens in between is
visible. An entry holds the contest row shared, through the foreign key of the rows it
inserts, so it excludes settlements and the statements that change the row
(`NoEntry`, `NoSettlement`). Ratings follow the formula of `battleScoreDelta` with the
expectation rounded to quarters and a factor of 4. A verdict is `unusable` when the code
cannot take a result from it (no replay, no winner).

Left out: the pairing of entries by role and rating, entry versions, replay objects, the
rejudge of a battle task, deductions for cheating, and the rounding of ratings (the column
is `NUMERIC(10,2)`, the recorded change is not rounded).

### SandboxLifecycle

| TLA+ | code |
|---|---|
| `row` | status, phase and code pointer of the `sandbox` row |
| `creation` | where `createSandboxContract` stands with its audit, or with undoing it |
| `ns, disk` | the namespace, and the writes its workspace volume holds |
| `starts` | the start of each replica, of which its table admits one (`scheduleSandboxStart`) |
| `calls` | another call of each replica, with the copy of the row it has read |
| `timers` | debounced saves |
| `announced` | the row of `sandbox_recycle_outbox` |
| `StartResources` ... `StartFinish` | `startSandbox`, one action per transaction or cluster operation |
| `WriteRead, Activate, WriteFile`, `SaveNow, AutoSave` | file writes, and `persistSandboxFiles` |
| `PauseRead` ... `ResumeMark` | `pauseSandboxContract`, `resumePausedSandbox` |
| `Sweep, DestroyRead, DestroyClaim` | `RunRecycleOnce`, `destroySandboxContract` |
| `LockRecycle` ... `FinishRecycle`, `RecycleFailed` | `lockRecycle`, `recycleOne`, `markRecycleFailed` |

A step that works on the cluster may succeed, fail, or fail half-way; a process may die
at any step of its calls (`Crash`). Deadlines are not counted: the sweep may take any
sandbox that is not destroyed, as any deadline may have passed. `history` is never read;
it notes which writes were answered (`accepted`), which of them before the recycle began
(`locked`), and whether one of the three steps has happened at which the code can lose them
(`rough`):

* the cleanup of a failed start removes the workspace under a running user;
* a recycle that is not the first on a current copy of the row owes no final save and
  deletes the workspace as it is;
* a workspace is made anew after the recycle began, and the next archive of this empty
  workspace replaces the one that holds the work.

`AcceptedWorkKept` says that nothing else loses work: until one of them happens, every write
answered before the recycle is on the volume or in the archive, also after the end, and
whatever number of recyclers with stale copies overlap. That a save fails, a process
dies or a second recycler appears does not end the claim.

### ExperimentScoring

| TLA+ | code |
|---|---|
| `inst` | status and score of `experiment_instance`; `scope` counts its `scope_ref` generations |
| `results, report` | `checkpoint_result`, `experiment_report` |
| `tasks` | each judging request, its M3 task and the event that ends the task |
| `calls` | the other calls of students, graders, timers and handlers, with what they read |
| `events` | `experiment.scored` rows of `experiment_event_outbox`; the revision is the index, `lost` a row whose attempts or deliveries are used up |
| `course` | `course_experiment_score` of M6 |
| `SubmitTask, StoreTask` | the two transactions of `JudgeCheckpoint` |
| `FindResult, ApplyVerdict` | `HandleJudgeCompleted` and `HandleJudgeFailed`, before and under the lock |
| `Create, Control, Rebuild, FinishControl` | `CreateInstance`, `controlInstance`, `PauseInstance`, `ResumeInstance` |
| `FinishInstance, RetryFinish, ClaimRecyclable, CourseEnds, Close` | finishing, the idle scan, the end of the course, and the status they end with |
| `Release, StartRecovery, Recover, SandboxFails` | the handlers of sandbox events and the reconciliation |
| `SubmitReport` | the transaction of the same name |
| `ReadReport, GradeReport` | `GradeReport`: reading the report, and what follows the lock of the instance |
| `LoseEvent` | an exhausted outbox row, or a dead letter |
| `UpdateCourse, Acceptable` | `HandleExperimentScored` in M6 and what it refuses |

The engines (M2, M4) are not modelled: what they answer is arbitrary, so a sandbox may
fail or disappear whenever the bound on faults allows. The delivery of events is that of
`EventBus`, reduced to what this module can notice: redelivery, a dead letter when no
result names the task, one message at a time per consumer, and any order between the
scored events, each of which may be lost. A grade that leaves the score of an ended instance
as it was is rolled back, as in the code, where the event of an unchanged instance cannot be
recorded (section 6). A second judgement of a task, which a teacher may ask of M3, is left
out. `unnoticed` is a history variable: a grader had read an older grade, and stored a new one
without an event over a report that was submitted again in between. `reopened` is a history variable: an instance that had ended and was
opened again by a late pause, resume or creation (section 6). The properties about ended
instances speak of the others.

## 4. Runs

Each run asks one question; the fields `about` in `PROJECT.json` say which. States are
distinct states of TLC.

| run | instance | checks | result |
|---|---|---|---|
| `queue_safety` | 2 tasks (one manual) of one source, 2 workers, 1 retry, batch 2, 1 rejudge, clocks disagree | `TypeOK OneEventPerRun ResultPerCompletion OneLiveHolder AttemptsBounded CopyIsCurrent ImplementsContract` | holds, 242,020 states |
| `queue_liveness` | 2 tasks, 2 workers, 1 retry, clocks agree, no rejudge | `TasksSettle` | holds, 20,073 |
| `event` | 2 replicas, 2 retries, 3 messages, the second unreadable, slow handlers | `TypeOK InOrder SingleHandler ImplementsDelivery Drains` | holds, 37,410 |
| `outbox` | 2 rows, 2 publishers, 2 attempts, batch 2, clocks disagree | `TypeOK PublishedIsStored ImplementsDelivery EventsSettle` | holds, 167,198 |
| `solve` | 3 submissions, 2 teams, 1 or 2 problems, 1 repeat, 1 rejudge, deductions | `TypeOK CreditEarned BoardIsSum VerdictApplied ScoreByOrder` | holds, 2,474,312 |
| `battle_safety` | 2 matches of the same 2 teams, 2 actors, 1 attempt, batch 2 | `TypeOK FinalLadder ArchiveFence RatingsMoveOnce` | holds, 2,237,430 |
| `battle_live` | 1 match, 2 actors, 2 attempts | `SandboxUntilVerdict MatchesEnd ContestArchived` | holds, 41,544 |
| `sandbox` | 2 replicas, 1 write, 2 calls of users, any number of sweeps and failing steps, no crash | `TypeOK Announced SingleInit AcceptedWorkKept NoReturn` | holds, about 1,278,700 |
| `sandbox_live` | 2 replicas, 1 crash or failing audit, no calls of users | `Recycled` | holds, 223,658 |
| `experiment` | 1 checkpoint, 2 requests, 2 other calls at a time, 2 calls of users, 1 fault, points 0 and 1, no report required | `TypeOK ScoreIsSum LastEventTells VerdictDue ComesToRest` | holds, 1,086,190 |
| `solve_redelivery` | the smallest instance with the repeat | `Idempotent` | violated (finding) |
| `sandbox_loss` | 1 replica, 2 writes, 2 calls | `FailedSaveKeepsNamespace` | violated (finding) |

Why the bounds are enough. Every race the code guards against is between two holders of
a row, or between one holder and a request, so two loops and two rows show it; the
second row makes batches, partial sweeps and `SKIP LOCKED` choices real. One retry and
one rejudge already give a late worker of an earlier run, an attempt after a crash and
an exhausted task. Two deliveries before the dead letter give "retry, then dead letter",
and the third message gives a successor to a poisoned one. The bounds `MaxReruns`,
`MaxRepeats`, `MaxMessages`, `MaxCalls` and `MaxFaults` stand in guards and are the only
caps on counters; `tries` saturates at `RetryMax + 1`, above which the code does not
distinguish. The two matches of `battle_safety` are between the same teams, so that a
settlement can overwrite another; with one attempt each, a start that dies exhausts its
match. The second attempt of `battle_live` is what gives a late starter a successor on
the same sandbox. The two calls of `sandbox` make a write meet a pause, a save, a resume
or a destruction while sweeps and a second start go on; its failing steps need no fault,
only crashes and failing audits do. The two requests of `experiment` are for one
checkpoint, so that a newer request overtakes an older verdict; one fault is a lost
handler, call, environment or scored event, and with two user calls there is a finish beside
a pause, a resume or a report, or a report and its grade. A report is not required, so its
points may take the score above the maximum that M6 accepts. A grader who has read an
older grade needs a third call (submit, grade, grade again): that branch of `GradeReport` is
out of the bounds of the run, and only the theorem covers it.

Symmetry permutes workers, replicas, the actors of battles, and the submissions of one
team, in runs that check no liveness. `sandbox` also has a `VIEW`, which
forgets what no later step and none of its properties looks at: the status in the copy of
a recycle that has the lock, the mark `unsaved`, and `locked` once `rough` is set.

Deadlock is not checked: each model may legitimately stop once everything is settled and
its bounds are reached.

### Fairness

* Queue and outbox: `background.Run` calls each loop on a ticker in every replica for
  ever, so a claim that stays possible for a row is made by somebody (weak fairness per
  row over all workers). Executions and `bus.Publish` have deadlines, so a worker ends
  what it began. A lease that no running execution renews expires. Nothing is assumed
  about crashes: a process may die each time.
* Bus: pulling and the ack wait are weakly fair. Handling, refusing, dead lettering and
  confirming are strongly fair: the process may stop and answers may get lost any
  number of times, but not every single time. Without that no bus could drain.
* Battles: entries end, the judge settles its tasks, a started step is finished, failed or
  given up, and a lease whose actor is gone expires (weak fairness). The loops take up a
  match or an archiving again and again, so claims, settlements, deliveries and
  archivings are strongly fair, for claims their search as well as their lock: each may fail
  any number of times, but not every time. Nothing is assumed of a start, which
  `MaxAttempts` bounds. `MatchesEnd` and `ContestArchived` except a match whose verdict is
  unusable and one that is stranded for good (section 6).
* Sandboxes: a call goes on or fails and the sweep comes round again (weak fairness);
  making the workspace accessible, archiving it and deleting the namespace are strongly
  fair, so the cluster may refuse each any number of times, but not every time. Nothing
  is assumed of starts.
* Experiments: one weak fairness condition on the disjunction of the steps that the
  platform owes (a request goes on, M3 ends its tasks, events that are not lost are
  delivered, calls and graders return, the idle scan comes). With bounded calls and faults every behaviour makes only
  finitely many other steps, so this weakest form already brings the system to rest.
* `SolveScoring` states safety only.

## 5. Proofs

The seven modules named `...Proofs` and `Sums` are checked by TLAPS for every value of the
constants, under the assumptions named in the modules they extend: bounds, scores, points
and penalties are natural numbers, the floor of a score is at least 1 and not above the
score; the matches of a contest and the submissions and problems of a solve contest are
finitely many; `NoTask` is no task, `Manual` are tasks, the sides of a match are two
teams, tokens are distinct from `none` and `gone`, the code pointer of a sandbox without an
archive is no archive, and a request has a checkpoint.

* **Queue.** The safety properties rest on four facts: `LeaseShape` (a token is on a row
  exactly while it is leased), `TokensUnique` (no two passes share a token),
  `CopyFollowsToken` (the worker's copy is current as long as its token is on the row,
  even when the lease has expired) and `AttemptsCounted`. With them a settling write that
  passes `Holds` is made by the only worker that may, on a current copy, so
  `OneEventPerRun`, `ResultPerCompletion`, `OneLiveHolder`, `AttemptsBounded` and
  `CopyIsCurrent` are inductive. `QueueImplementsContract` shows that initial states map
  to initial states and every step to a step of `JudgeContract` or a stutter.
  No clock assumption is needed.
* **Bus.** `NothingSkipped` needs `SettledBeforeAck`: a replica only reaches the stage
  from which it confirms after its message was handled or dead lettered; it holds without
  any assumption on time. `BusImplementsDelivery` adds `OfStream` (every delivery is of a
  message of the stream): a commit or a dead letter is then an `Arrive`, and the one
  confirmation that moves `floor` a `Settle` of the next message. `InOrder`,
  `SingleHandler` and `DeadIsFinal` follow from `OneDelivery`: until a handler is late, one
  replica holds the pending message, and everything applied or dead lettered is at or
  before it.
* **Outbox.** `AttemptsUnique` says that an attempt is in the hands of one publisher and
  is not in the stream before that publisher sent it; `LeaseShape` is as in the queue.
  `PublishedRowsStored`, `PublishedRowsFinal` and `CopiesLimited` follow.
  `OutboxImplementsDelivery` needs `Recorded` besides, that a row never recorded was never
  attempted: the claim of a batch, one step on many rows, is then a stutter of `Delivery`,
  and so is whatever a publisher does that has lost its lease, but for one more `Arrive`.
* **Solve contests.** `FirstVerdict` says what is known of a submission that was not
  rejudged: its one verdict, the events of that verdict still on their way, and what a
  handler has read agree. From it `VerdictApplied` and `PassIsFinal` follow, and with
  `RowCases`, which says how one step may change the rows, `BoardSum`: a step either
  leaves the passed submissions of a team alone or refreshes its ladder row in the same
  transaction. `Credited` ties the ladder to the history of solving teams, also under
  rejudges and deductions. `Ranked` says that a team found fewer solvers before it than
  there are now, so that the next one finds more (`OnePlaceEach`); `Ordered` that the best
  submission of a team is worth what its place left, which no later one can better.
  `ScoreByOrder` is the sum of these, equal to that of `BoardSum`. `Bounded` (rejudges and
  redeliveries within their limits) is needed for the types.
* **Battles.** The invariant has four parts besides the types. `LockHeld`: a settling
  actor is the only one, its match still waits for it, and the ratings it read are those
  of the ladder; `RatingsExact` follows, since the step `Settle` then computes from
  current ratings. `ArchiveInv`: a contest that left `running` has no entry on its way,
  so that no match becomes active any more that was not, and an archived one has no active
  match; `ClaimFreezes`, although matches may be active while the contest is claimed.
  `BoxInv`: who is about to recycle a sandbox does so for a terminal match, and who may
  still link the judge task has the sandbox; `SandboxesKept`. The lemma `EveryMove`
  classifies what one step can do to one match and gives `SettlementsFinal` at once.
  `LadderInv` says that every rating is the initial one plus what the matches of the team
  have moved; a settlement changes one term of that sum for each of two teams
  (`SumChange`), and the archived snapshot is the ladder of a contest in which nothing can
  settle any more, so `LadderAccounted`.
* **Sandboxes.** Two lemmas on steps carry most of it: `StatusSteps` says how one step may
  change the row (once gone, only towards the end; `failed` only to a recycle), which
  gives `NeverReturns`, and `EndStep` that the end and its event are recorded together.
  `PhaseOK` says that an open sandbox whose phase is `allocating` is still `creating`, and
  `GateOK` that a start initialises only a sandbox that has left `creating`, which happens
  once; `OneInitialisation` is the consequence. `WorkOK` strengthens `AcceptedWorkKept`
  for as many recyclers as there are replicas. `KeptOK`: until the recycle begins the volume
  holds every accepted write; afterwards it holds the work taken over, or it is gone and
  the archive holds that work; a recycler that comes to delete it finds the work in the
  archive. `CopyOK` says what the copy of a recycler that owes no final save looks like, and
  `TakenOK` that work is taken over only by a recycle.
* **Experiments.** `ScoreIsSum` is not inductive alone. `ScoreInv` adds `LastEventTells` and
  `Unscored` (an instance that has not ended and was not opened again has no score): a
  grader's stale reading of the report matters only where the score stays as it is;
  `VerdictInv` adds `StoredOK` to `VerdictDue`: a request that has not stored its
  result is not the task of any result, so its verdict cannot have been found or handled.
  The lemmas need of `SumScores` no more than that it is determined by the rows, so no
  induction over the sum is involved.

`Sums` proves what solve contests and battles need of sums over a finite set and of the
maximum of one: the fold satisfies its recursive equation whatever element is taken out
first, and changes by the difference when one term changes. An induction theorem with an
operator parameter cannot be used with the installed provers; the proofs take a minimal
subset at which the claim fails instead, which exists because strict inclusion of finite
sets is well founded.

Each strengthening was checked by TLC as an invariant before it was proved. Every safety
invariant, action property and refinement of a passing run is a theorem. What stays with
TLC is liveness (`TasksSettle`, `EventsSettle`, `Drains`, `MatchesEnd`, `ContestArchived`,
`Recycled`, `ComesToRest`), since fairness and `ENABLED` are beyond the prover. The
theorems about `NothingSkipped`, `DeadIsFinal`, `PublishedIsFinal`, `OneCopyPerAttempt`,
`SettledIsFinal`, `PassIsFinal` and `OnePlaceEach` are not part of a run; TLC checked
these formulas before they were proved, and the first and the third follow from
`ImplementsDelivery`.

## 6. Disagreements with the documentation

The runs that are expected to fail show them; `findings` in `PROJECT.json` quotes the
sentences.

1. The handler of a passed solve submission is not idempotent: a redelivery lowers its
   score (`solve_redelivery`).
2. When the final save before a recycle fails, the next pass takes the archive of an
   earlier save for it and deletes the namespace with the writes since (`sandbox_loss`).

Noticed while modelling, and kept with the hazards where they bite:

* Bus: two replicas can run the handler of one message at the same time when it outlives
  its deadline, because that deadline starts after the broker's.
* Judge: a rejudged manual task enters the workers' queue, where `docs/03-评测引擎/02-数据模型.md:74`
  says it takes no lease; it ends failed. Attempts of one task share the "fresh"
  sandbox of its source_ref.
* Solve contests: a rejudge that takes back a pass does not update the ladder
  (`docs/08-竞赛/03-接口设计.md:218`); the failed event of a run can overwrite the verdict of
  a later run; a deduction for cheating disappears with the team's next passing verdict.
* Battles: the archive claim searches for active matches and locks the contest afterwards
  without searching again, so an entry that commits in between leaves a match in a claimed
  contest. No later pass starts it and no archive lease can be completed, so the match never
  ends and the contest is never archived. The comment of the claim
  (`backend/db/queries/contest.sql:853`) and `docs/08-竞赛/02-数据模型.md:167` say that a lease is
  taken only when there is no active match, and no new match enters afterwards.
* Battles: a match whose verdict is unusable stays `running` for ever and blocks the
  archiving of its contest, where `docs/08-竞赛/02-数据模型.md:167` rules out a permanent
  `running`; a deduction changes ratings without the lock of the contest, where
  `backend/db/queries/contest.sql:500` calls their reads and writes serial.
* Sandboxes: a slow start can leave a namespace behind after its sandbox was destroyed,
  and a second recycler can set a destroyed row back to `recycling` and destroy it again. A
  recycler with a stale copy that makes the workspace anew after another one has deleted it
  archives an empty workspace and moves the code pointer to it: the work is lost.
* Experiments: a pause, resume or creation that ends late overwrites `finished` or
  `recycled`, although the state machine in `docs/07-实验/05-业务流程与状态机.md` (lines 69 to
  82) ends there; such an instance can be finished and announced again, which line 61
  excludes. A report submitted again after the finish is not announced, so M6 does not
  keep the score as pending (`docs/06-教学/03-接口设计.md:212`). A first grade that leaves the
  sum as it is, such as an explicit 0, which `docs/07-实验/03-接口设计.md:151` calls legal, fails
  and is rolled back on an ended instance: `GradeReport` overwrites the instance with the
  empty row of an update that changed nothing (`service_report.go:366`) and cannot enqueue its
  event. When a report is graded although the experiment asks for none, its points count in
  the score but not in the maximum, and M6 refuses the event (`service_grade_sources.go:91`).
  A request that is slower than
  all deliveries of its verdict, or that a handler of an older verdict overwrites, leaves
  a result that waits for ever.

## 7. Not modelled

The components with status `not_modelled` in `PROJECT.json`, with their reasons: most are
planned (section 2); the frontend, images, deployment and generated code keep no state of
their own; Kubernetes manifests, proxies, terminals, storage and audit are input and
output that the models see as operations that succeed or fail. Within the modelled
components, the choice of a judger, the execution of a judge command and its output,
progress pushes, submission limits, the frozen view of the ladder, the pairing of
battle entries, volume snapshots, quotas, the stages and groups of an experiment and the
publishing loops of the sandbox and experiment outboxes (the same code shape as the judge
outbox, which is modelled) are left out.
