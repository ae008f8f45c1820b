------------------------- MODULE ExperimentScoring -------------------------
(***************************************************************************)
(* One experiment instance (M7): its status, the results of its            *)
(* checkpoints, the report of its student, the score that is fixed when    *)
(* the instance ends, the scored events in the outbox, and the copy of the *)
(* score that teaching (M6) keeps for the grade of the course.             *)
(*                                                                         *)
(* A judging request reads the instance, submits a task to M3 and stores   *)
(* the task, in three steps; the verdict comes back as an event.  Calls    *)
(* that control or recycle the instance read it in one transaction, work   *)
(* on the engines, and most of them then overwrite its status unchecked.   *)
(* A grader reads the report before the instance is locked.  The engines   *)
(* themselves (M2, M4) are left out: what they report is any of the        *)
(* answers they can give.                                                  *)
(***************************************************************************)
EXTENDS Integers, Sequences, FiniteSets, Functions

CONSTANTS Checkpoints,     \* checkpoints of the experiment
          Tasks,           \* judging requests, one M3 task each
          CheckpointOf,    \* the checkpoint of each request
          Callers,         \* calls that control or recycle the instance
          None,            \* no task, no score, or a task that M3 gave up
          Points,          \* points of a checkpoint, and of a report
          RequireReport,   \* the experiment asks for a report
          MaxCalls,        \* bound: calls of the student and the teacher
          MaxFaults        \* bound: calls, handlers and sandboxes that fail or die

ASSUME TasksAssumption ==
    /\ CheckpointOf \in [Tasks -> Checkpoints]
    /\ None \notin Tasks \cup Points
    /\ Points \subseteq Nat /\ 0 \in Points
ASSUME BoundsAssumption ==
    RequireReport \in BOOLEAN /\ MaxCalls \in Nat /\ MaxFaults \in Nat

VARIABLES
    inst,       \* the instance row: status, score, generation of resources
    results,    \* checkpoint_result: task, points, and whether it is judged
    report,     \* the report of the student: status and points
    tasks,      \* each request: its step, its task and event, the verdict
    calls,      \* the other calls: their next step, and the scope they compare
    events,     \* scored events in the outbox; the revision is the index
    course,     \* the score that M6 holds, with its revision
    reopened,   \* history: ended, then opened again; never read
    unnoticed,  \* history: see GradeReport; never read
    left        \* bounds: the calls and the faults that may still come

history == <<reopened, unnoticed>>
vars == <<inst, results, report, tasks, calls, events, course, history, left>>

Status == {"creating", "running", "paused", "finished", "recycled", "error",
           "released"}

\* The instance has ended.
Ended == {"finished", "recycled"}

Scored_Finished == {"finished"}

\* HandleJudgeCompleted, HandleJudgeFailed and GradeReport change the score in
\* these states; before them it is not fixed.
Scored == {"finished", "recycled"}

\* canAccess aside, JudgeCheckpoint takes requests in these states.
Judgeable == {"running", "paused"}

\* validateInstanceTransition and resolveInstanceFinishAction: where a first
\* finish is allowed.
Finishable == {"running", "paused", "released"}

\* ClaimRecyclableInstances: the states that the idle scan takes.
Recyclable == {"running", "paused", "finished", "error"}

\* ListLiveInstancesByCourse: the states that hold engine resources.
Live == {"creating", "running", "paused", "released"}

\* The states in which a lost environment releases the instance.
Releasable == {"creating", "running", "paused"}

\* instanceCanReconcileSandboxFailure
Reconcilable == {"creating", "running", "paused", "error"}

\* The steps of a request, and of its task and the event that ends it.
RequestSteps == {"none", "submitted", "over"}
TaskStates == {"none", "queued", "judged", "found", "handled", "dead"}

\* Where the call of a student, a teacher or a timer stands.
CallSteps == {"none", "create", "pause", "resume", "rebuild", "close",
              "recover", "grade", "regrade"}

NoCall == [step |-> "none", scope |-> 0]

Results == [Checkpoints -> [task : Tasks \cup {None}, points : Points,
                            judged : BOOLEAN]]
Reports == [status : {"none", "submitted", "graded"}, points : Points]

\* SumScores: the points of the checkpoints, and those of a graded report.
SumScores(rs, rp) ==
    SumFunction([c \in Checkpoints |-> rs[c].points])
      + (IF rp.status = "graded" THEN rp.points ELSE 0)

Totals == {SumScores(rs, rp) : rs \in Results, rp \in Reports}

InstOK == inst \in [status : Status, score : Totals \cup {None}, scope : Nat]

ResultsOK ==
    /\ results \in Results
    /\ \A c \in Checkpoints :
         results[c].task # None => CheckpointOf[results[c].task] = c

TasksOK == tasks \in [Tasks -> [step : RequestSteps, state : TaskStates,
                                points : Points \cup {None}]]

EventsOK == events \in Seq([score : Totals, pending : BOOLEAN, lost : BOOLEAN])

CourseOK == course \in [revision : Nat, score : Totals \cup {None},
                        pending : BOOLEAN]

\* Every variable holds a value of its kind, and a checkpoint result belongs
\* to a task that was submitted for that checkpoint.
TypeOK ==
    /\ InstOK /\ ResultsOK /\ TasksOK /\ EventsOK /\ CourseOK
    /\ report \in Reports
    /\ calls \in [Callers -> [step : CallSteps, scope : Nat]]
    /\ reopened \in BOOLEAN /\ unnoticed \in BOOLEAN
    /\ left \in [calls : Nat, faults : Nat]

-----------------------------------------------------------------------------
Creator == CHOOSE a \in Callers : TRUE

\* The instance was inserted, and the call that did it starts the engines.
Init ==
    /\ inst = [status |-> "creating", score |-> None, scope |-> 0]
    /\ results = [c \in Checkpoints |->
                    [task |-> None, points |-> 0, judged |-> FALSE]]
    /\ report = [status |-> "none", points |-> 0]
    /\ tasks = [t \in Tasks |->
                  [step |-> "none", state |-> "none", points |-> None]]
    /\ calls = [a \in Callers |->
                  IF a = Creator THEN [NoCall EXCEPT !.step = "create"] ELSE NoCall]
    /\ events = <<>>
    /\ course = [revision |-> 0, score |-> None, pending |-> FALSE]
    /\ reopened = FALSE
    /\ unnoticed = FALSE
    /\ left = [calls |-> MaxCalls, faults |-> MaxFaults]

UseCall == left.calls > 0 /\ left' = [left EXCEPT !.calls = @ - 1]
UseFault == left.faults > 0 /\ left' = [left EXCEPT !.faults = @ - 1]

\* SetInstanceStatus, with the note of an instance that is opened again.
SetStatus(s) ==
    /\ inst' = [inst EXCEPT !.status = s]
    /\ reopened' = (reopened \/ (inst.status \in Ended /\ s \notin Ended))
    /\ UNCHANGED unnoticed

\* Only a recovery compares the environment it found with a later one.
Step(a, s) ==
    calls' = [calls EXCEPT ![a] =
      [step |-> s, scope |-> IF s = "recover" THEN inst.scope ELSE 0]]

Return(a) == calls' = [calls EXCEPT ![a] = NoCall]

Provisional_Present(rp) == rp.status # "none"

\* A score is provisional while a report waits for its grade.
Provisional(rp) == rp.status = "submitted"

\* enqueueExperimentEventOutbox: the event carries the score of the row and
\* whether it is provisional; its revision is its place.
Announce(score, rp) ==
    /\ events' = Append(events, [score |-> score, lost |-> FALSE,
                                 pending |-> Provisional(rp)])
    /\ unnoticed' = FALSE

\* UpdateInstanceScoreIfChanged finds a row to update.
Differs(total) == total # inst.score

\* A new sum is stored and announced if the instance has ended.
Rescore(rs, rp) ==
    LET total == SumScores(rs, rp)
    IN  IF inst.status \in Scored /\ Differs(total)
        THEN inst' = [inst EXCEPT !.score = total] /\ Announce(total, rp)
        ELSE UNCHANGED <<inst, events, unnoticed>>

-----------------------------------------------------------------------------
\* JudgeCheckpoint, up to SubmitJudgeTask: the status is read without a lock,
\* and M3 makes a task of its own for each request.  Nobody sees the task in M7
\* before it is stored, so nothing is lost by taking the two as one step.
SubmitTask(t) ==
    /\ tasks[t].step = "none" /\ inst.status \in Judgeable
    /\ tasks' = [tasks EXCEPT ![t] =
                 [@ EXCEPT !.step = "submitted", !.state = "queued"]]
    /\ UNCHANGED <<inst, results, report, calls, events, course, history,
                   left>>

\* The result that a request stores: the task has no verdict when submitted.
Submitted(t) == [task |-> t, points |-> 0, judged |-> FALSE]

\* JudgeCheckpoint, second transaction: whatever the instance is by now.
StoreTask(t) ==
    /\ tasks[t].step = "submitted"
    /\ tasks' = [tasks EXCEPT ![t].step = "over"]
    /\ results' = [results EXCEPT ![CheckpointOf[t]] = Submitted(t)]
    /\ UNCHANGED <<inst, report, calls, events, course, history, left>>

\* A request dies: its task stays unknown to M7.
RequestDies(t) ==
    /\ tasks[t].step = "submitted" /\ UseFault
    /\ tasks' = [tasks EXCEPT ![t].step = "over"]
    /\ UNCHANGED <<inst, results, report, calls, events, course, history>>

\* M3 ends a task with points, or gives it up, and its event is published.  No
\* points and giving up are stored alike: one of them stands for both.  A
\* second judgement of the task, which a teacher may ask of M3, is left out.
Judge(t) ==
    /\ tasks[t].state = "queued"
    /\ \E p \in (Points \ {0}) \cup {None} :
         tasks' = [tasks EXCEPT ![t] = [@ EXCEPT !.state = "judged",
                                                !.points = p]]
    /\ UNCHANGED <<inst, results, report, calls, events, course, history,
                   left>>

HasRow_Any(t) == TRUE

\* The row that GetCheckpointByJudgeTask finds for the task.
HasRow(t) == results[CheckpointOf[t]].task = t

\* judge.completed and judge.failed have one consumer each, which handles one
\* message at a time.
SameConsumer(t, u) == (tasks[t].points = None) <=> (tasks[u].points = None)

\* HandleJudgeCompleted, HandleJudgeFailed: the row is found by the task,
\* before the instance is locked.
FindResult(t) ==
    /\ tasks[t].state = "judged" /\ HasRow(t)
    /\ \A u \in Tasks : tasks[u].state = "found" => ~SameConsumer(t, u)
    /\ tasks' = [tasks EXCEPT ![t].state = "found"]
    /\ UNCHANGED <<inst, results, report, calls, events, course, history,
                   left>>

Verdict_AsJudged(t) == [task |-> t, judged |-> TRUE, points |-> tasks[t].points]

Verdict(t) == [task |-> t, judged |-> TRUE,
               points |-> IF tasks[t].points = None THEN 0 ELSE tasks[t].points]

\* HandleJudgeCompleted, HandleJudgeFailed: under the lock of the instance the
\* verdict is stored, and the score follows if the instance has ended.
ApplyVerdict(t) ==
    LET stored == [results EXCEPT ![CheckpointOf[t]] = Verdict(t)]
    IN  /\ tasks[t].state = "found"
        /\ tasks' = [tasks EXCEPT ![t].state = "handled"]
        /\ results' = stored
        /\ Rescore(stored, report)
        /\ UNCHANGED <<report, calls, course, reopened, left>>

\* A handler dies, or loses a deadlock with a request that stores its task, or
\* its acknowledgement is lost: the event is delivered again.
Redeliver(t) ==
    /\ tasks[t].state \in {"found", "handled"} /\ UseFault
    /\ tasks' = [tasks EXCEPT ![t].state = "judged"]
    /\ UNCHANGED <<inst, results, report, calls, events, course, history>>

\* Every delivery failed because no result has this task: a dead letter.
DeadLetter(t) ==
    /\ tasks[t].state = "judged" /\ ~HasRow(t)
    /\ tasks' = [tasks EXCEPT ![t].state = "dead"]
    /\ UNCHANGED <<inst, results, report, calls, events, course, history,
                   left>>

-----------------------------------------------------------------------------
\* UpdateInstanceResources: an error that came first is kept.
Created(s) == IF inst.status = "error" THEN "error" ELSE s

\* CreateInstance: the engines were started, or failed and were given back.
Create(a) ==
    /\ calls[a].step = "create"
    /\ \E s \in {"running", "error"} : SetStatus(Created(s))
    /\ Return(a)
    /\ UNCHANGED <<results, report, tasks, events, course, left>>

\* PauseInstance and ResumeInstance (controlInstance): the transition is
\* checked on a row read without a lock.
Control(a) ==
    /\ calls[a].step = "none" /\ UseCall
    /\ \/ inst.status = "running" /\ Step(a, "pause")
       \/ inst.status \in {"paused", "creating"} /\ Step(a, "resume")
       \/ inst.status \in {"released", "error"} /\ Step(a, "rebuild")
    /\ UNCHANGED <<inst, results, report, tasks, events, course, history>>

\* ResumeInstance on a released or failed instance: the engines are started
\* again under a new scope, or the start fails and is undone, or the undoing
\* fails as well.
Rebuild(a) ==
    /\ calls[a].step = "rebuild"
    /\ \/ /\ inst' = [inst EXCEPT !.status = Created("running"), !.scope = @ + 1]
          /\ reopened' = (reopened \/ inst.status \in Ended)
          /\ UNCHANGED unnoticed
          /\ Step(a, "resume")
       \/ UNCHANGED <<inst, history>> /\ Return(a)
       \/ SetStatus("error") /\ Return(a)
    /\ UNCHANGED <<results, report, tasks, events, course, left>>

\* controlInstance: the new status overwrites whatever the row holds by now.
FinishControl(a) ==
    /\ \/ calls[a].step = "pause" /\ SetStatus("paused")
       \/ calls[a].step = "resume" /\ SetStatus("running")
    /\ Return(a)
    /\ UNCHANGED <<results, report, tasks, events, course, left>>

\* A call fails on the engines, or its process dies.
CallDies(a) ==
    /\ calls[a].step # "none" /\ UseFault
    /\ Return(a)
    /\ UNCHANGED <<inst, results, report, tasks, events, course, history>>

-----------------------------------------------------------------------------
\* ensureTriggeredCheckpointsTerminal: M3 has ended the task of every result.
AllTerminal ==
    \A c \in Checkpoints :
      results[c].task # None => tasks[results[c].task].state # "queued"

\* FinishInstance, the transaction that fixes the score and announces it.
FinishInstance(a) ==
    LET total == SumScores(results, report)
    IN  /\ calls[a].step = "none" /\ UseCall
        /\ inst.status \in Finishable
        /\ RequireReport => report.status # "none"
        /\ AllTerminal
        /\ inst' = [inst EXCEPT !.status = "finished", !.score = total]
        /\ reopened' = FALSE
        /\ Announce(total, report)
        /\ Step(a, "close")
        /\ UNCHANGED <<results, report, tasks, course>>

\* FinishInstance again: only the recycling is taken up.
RetryFinish(a) ==
    /\ calls[a].step = "none" /\ inst.status = "finished" /\ UseCall
    /\ Step(a, "close")
    /\ UNCHANGED <<inst, results, report, tasks, events, course, history>>

\* RunRecycleOnce: an instance that was not used for long enough.
ClaimRecyclable(a) ==
    /\ calls[a].step = "none" /\ inst.status \in Recyclable
    /\ Step(a, "close")
    /\ UNCHANGED <<inst, results, report, tasks, events, course, history, left>>

\* HandleCourseEnded: the instances that still hold resources are closed.
CourseEnds(a) ==
    /\ calls[a].step = "none" /\ inst.status \in Live
    /\ Step(a, "close")
    /\ UNCHANGED <<inst, results, report, tasks, events, course, history, left>>

\* The engines are recycled: the row is overwritten, and the score is kept.
Close(a) ==
    /\ calls[a].step = "close"
    /\ SetStatus("recycled")
    /\ Return(a)
    /\ UNCHANGED <<results, report, tasks, events, course, left>>

\* HandleSandboxRecycled and reconcileReleasedInstance, under the lock: every
\* sandbox of an open instance is gone.
Release ==
    /\ inst.status \in Releasable /\ UseFault
    /\ SetStatus("released")
    /\ UNCHANGED <<results, report, tasks, calls, events, course>>

\* HandleSandboxRecycled on a finished instance takes up its recycling.
StartRecovery(a) ==
    /\ calls[a].step = "none" /\ inst.status = "finished"
    /\ Step(a, "recover")
    /\ UNCHANGED <<inst, results, report, tasks, events, course, history, left>>

\* The recovery ends under the lock, if it is still the same environment.
Recover(a) ==
    /\ calls[a].step = "recover"
    /\ IF inst.status = "finished" /\ inst.scope = calls[a].scope
       THEN SetStatus("recycled") ELSE UNCHANGED <<inst, history>>
    /\ Return(a)
    /\ UNCHANGED <<results, report, tasks, events, course, left>>

\* HandleSandboxFailed and reconcileSandboxFailure: markSandboxFailure.
SandboxFails ==
    /\ inst.status \in Reconcilable /\ UseFault
    /\ SetStatus("error")
    /\ UNCHANGED <<results, report, tasks, calls, events, course>>

-----------------------------------------------------------------------------
\* SubmitReport: a report that was graded waits for a grade again.
SubmitReport ==
    /\ inst.status \notin {"recycled", "error"} /\ UseCall
    /\ report' = [report EXCEPT !.status = "submitted"]
    /\ UNCHANGED <<inst, results, tasks, calls, events, course, history>>

\* GradeReport reads the report before it waits for the lock of the instance.
ReadReport(a) ==
    /\ calls[a].step = "none" /\ report.status # "none" /\ UseCall
    /\ Step(a, IF report.status = "graded" THEN "regrade" ELSE "grade")
    /\ UNCHANGED <<inst, results, report, tasks, events, course, history>>

\* Under the lock a grade that leaves the score of an ended instance as it was
\* is rolled back, unless the report had been read as graded: then it is stored
\* without an event, also when the report was submitted again in between.
GradeReport(a) ==
    /\ calls[a].step \in {"grade", "regrade"}
    /\ \E p \in Points :
         LET graded == [status |-> "graded", points |-> p]
             same == inst.status \in Scored /\ ~Differs(SumScores(results, graded))
         IN  \/ /\ same /\ calls[a].step = "grade"
                /\ UNCHANGED <<inst, report, events, unnoticed>>
             \/ /\ same /\ calls[a].step = "regrade"
                /\ report' = graded
                /\ unnoticed' = (unnoticed \/ report.status = "submitted")
                /\ UNCHANGED <<inst, events>>
             \/ ~same /\ report' = graded /\ Rescore(results, graded)
    /\ Return(a)
    /\ UNCHANGED <<results, tasks, course, reopened, left>>

\* experimentMaximumScore for one student: a report counts only if it is
\* required.  Points of a checkpoint and of a report have the same maximum.
MaxPoint == CHOOSE p \in Points : \A q \in Points : q <= p
MaxScore == MaxPoint * (Cardinality(Checkpoints) + IF RequireReport THEN 1 ELSE 0)

\* HandleExperimentScored (M6) refuses a score above a positive maximum, and
\* stores nothing for an experiment without one.
Acceptable(score) == MaxScore > 0 /\ score <= MaxScore

Newer_Any(r) == r # course.revision

\* HandleExperimentScored (M6): an event that is older, or was handled, is
\* dropped.
Newer(r) == r > course.revision

\* The row of an event uses up its attempts, or the event its deliveries, before
\* M6 could use it.
LoseEvent(r) ==
    /\ r \in DOMAIN events /\ ~events[r].lost /\ Newer(r) /\ UseFault
    /\ events' = [events EXCEPT ![r].lost = TRUE]
    /\ UNCHANGED <<inst, results, report, tasks, calls, course, history>>

\* The event with revision r reaches M6, in any order and any number of times.
UpdateCourse(r) ==
    /\ r \in DOMAIN events /\ ~events[r].lost
    /\ Acceptable(events[r].score) /\ Newer(r)
    /\ course' = [revision |-> r, score |-> events[r].score,
                  pending |-> events[r].pending]
    /\ UNCHANGED <<inst, results, report, tasks, calls, events, history, left>>

-----------------------------------------------------------------------------
TaskStep(t) ==
    \/ SubmitTask(t) \/ StoreTask(t) \/ RequestDies(t) \/ Judge(t)
    \/ FindResult(t) \/ ApplyVerdict(t) \/ Redeliver(t) \/ DeadLetter(t)

CallStep(a) ==
    \/ Create(a) \/ Control(a) \/ Rebuild(a) \/ FinishControl(a) \/ CallDies(a)
    \/ FinishInstance(a) \/ RetryFinish(a) \/ ClaimRecyclable(a)
    \/ CourseEnds(a) \/ Close(a) \/ StartRecovery(a) \/ Recover(a)
    \/ ReadReport(a) \/ GradeReport(a)

Next ==
    \/ \E t \in Tasks : TaskStep(t)
    \/ \E a \in Callers : CallStep(a)
    \/ Release \/ SandboxFails \/ SubmitReport
    \/ \E r \in DOMAIN events : UpdateCourse(r) \/ LoseEvent(r)

Spec == Init /\ [][Next]_vars

\* The steps that the platform owes: a request that goes on, a verdict of M3,
\* the delivery of its event, a call that returns, the scan of idle instances
\* and the delivery of the scores.  Nobody has to finish, to grade or to resume.
Owed ==
    \/ \E t \in Tasks : \/ StoreTask(t) \/ Judge(t)
                        \/ FindResult(t) \/ ApplyVerdict(t)
    \/ \E a \in Callers : \/ Create(a) \/ Rebuild(a) \/ FinishControl(a)
                          \/ ClaimRecyclable(a) \/ Close(a) \/ Recover(a)
                          \/ GradeReport(a)
    \/ \E r \in DOMAIN events : UpdateCourse(r)

FairSpec == Spec /\ WF_vars(Owed)

-----------------------------------------------------------------------------
\* A result whose task has no verdict yet.
Waiting(c) == results[c].task # None /\ ~results[c].judged

Stands == inst.status \in Ended /\ inst.score # None /\ ~reopened

\* HAZARD interleaving (service_checkpoint.go:70): once an instance has ended
\* its score is the sum of its checkpoints and its graded report, although
\* requests, verdicts, grades and the finish interleave; it may lag only
\* while a verdict is still to come or a report waits for its grade.
ScoreIsSum ==
    Stands => \/ inst.score = SumScores(results, report)
              \/ \E c \in Checkpoints : Waiting(c)
              \/ report.status = "submitted"

\* HAZARD ordering (service_report.go:370): the last event tells the score of
\* the row, whatever changed it last, and unless a report waits for its grade it
\* does not call the score provisional.  The exception is a grader who had read
\* an older grade before the report was submitted again.
LastEventTells ==
    /\ inst.score # None =>
         events # <<>> /\ events[Len(events)].score = inst.score
    /\ Stands /\ report.status # "submitted" /\ ~unnoticed =>
         ~events[Len(events)].pending

\* HAZARD protocol_sequence (service_checkpoint.go:105): the verdict a result
\* waits for was not spent before the result was stored: it is still to come,
\* unless every delivery of its event failed in the meantime.
VerdictDue ==
    \A c \in Checkpoints :
      Waiting(c) =>
        tasks[results[c].task].state \in {"queued", "judged", "found", "dead"}

\* The course holds the score, or it can never learn it: the event was lost, or
\* M6 refuses the score.
CourseSettled ==
    \/ course.score = inst.score
    \/ events[Len(events)].lost
    \/ ~Acceptable(inst.score)

\* A result waits for its verdict only if the event died before the result was
\* stored, a finished instance has given its resources back, and the course
\* holds the score of the instance as far as it can.
AtRest ==
    /\ \A c \in Checkpoints :
         Waiting(c) => tasks[results[c].task].state = "dead"
    /\ inst.status # "finished"
    /\ inst.score # None => CourseSettled

\* HAZARDS crash_recovery (service_instance.go:486), unreliable_delivery
\* (service_grade_sources.go:120): when the calls have ceased all comes to rest
\* and stays so, although calls die and events arrive before their result, in
\* any order and more than once.
ComesToRest == <>[]AtRest
=============================================================================
