----------------------- MODULE ExperimentScoringProofs -----------------------
(***************************************************************************)
(* Proofs about ExperimentScoring, for any checkpoints, requests, callers, *)
(* points and bounds.  The sum of the points is used as it stands: which   *)
(* number it is does not matter to any of the proofs.                      *)
(***************************************************************************)
EXTENDS ExperimentScoring, TLAPS

USE TasksAssumption, BoundsAssumption
USE DEF Status, Ended, Scored, RequestSteps, TaskStates, CallSteps, history

-----------------------------------------------------------------------------
(* Types: what each way to change a variable leaves behind.                *)

CallsOK == calls \in [Callers -> [step : CallSteps, scope : Nat]]
LeftOK  == left \in [calls : Nat, faults : Nat]

LEMMA SetStatusEffect ==
  ASSUME InstOK, reopened \in BOOLEAN, NEW s \in Status, SetStatus(s)
  PROVE  /\ InstOK' /\ reopened' \in BOOLEAN /\ unnoticed' = unnoticed
         /\ inst'.status = s /\ inst'.score = inst.score
         /\ reopened' = (reopened \/ (inst.status \in Ended /\ s \notin Ended))
  BY DEF InstOK, SetStatus

LEMMA StepEffect ==
  ASSUME InstOK, CallsOK, NEW a \in Callers, NEW s \in CallSteps, Step(a, s)
  PROVE  CallsOK'
  BY DEF InstOK, CallsOK, Step

LEMMA ReturnEffect ==
  ASSUME CallsOK, NEW a \in Callers, Return(a)
  PROVE  CallsOK'
  BY DEF CallsOK, Return, NoCall

LEMMA UseEffect == LeftOK /\ (UseCall \/ UseFault) => LeftOK'
  BY DEF LeftOK, UseCall, UseFault

LEMMA SumIsTotal ==
  ASSUME NEW rs \in Results, NEW rp \in Reports
  PROVE  SumScores(rs, rp) \in Totals
  BY DEF Totals

LEMMA AnnounceEffect ==
  ASSUME EventsOK, NEW score \in Totals, NEW rp \in Reports,
         Announce(score, rp)
  PROVE  /\ EventsOK'
         /\ Len(events') > 0 /\ events' # <<>>
         /\ events'[Len(events')].score = score
         /\ events'[Len(events')].pending = (rp.status = "submitted")
         /\ unnoticed' = FALSE
  BY DEF EventsOK, Announce, Provisional, Reports

LEMMA RescoreEffect ==
  ASSUME InstOK, EventsOK, unnoticed \in BOOLEAN,
         NEW rs \in Results, NEW rp \in Reports, Rescore(rs, rp)
  PROVE  /\ InstOK' /\ EventsOK' /\ unnoticed' \in BOOLEAN
         /\ inst'.status = inst.status
         /\ \/ /\ UNCHANGED <<inst, events, unnoticed>>
               /\ inst.status \in Ended => inst.score = SumScores(rs, rp)
            \/ /\ inst.status \in Ended
               /\ events' # <<>>
               /\ inst'.score = SumScores(rs, rp)
               /\ events'[Len(events')].score = inst'.score
               /\ events'[Len(events')].pending = (rp.status = "submitted")
               /\ unnoticed' = FALSE
  <1> DEFINE total == SumScores(rs, rp)
  <1>1. total \in Totals
    BY SumIsTotal
  <1>2. CASE ~(inst.status \in Ended /\ total # inst.score)
    BY <1>2 DEF Rescore, Differs, InstOK, EventsOK
  <1>3. CASE inst.status \in Ended /\ total # inst.score
    <2>1. inst' = [inst EXCEPT !.score = total] /\ Announce(total, rp)
      BY <1>3 DEF Rescore, Differs
    <2>2. InstOK' /\ inst'.status = inst.status /\ inst'.score = total
      BY <1>1, <2>1 DEF InstOK
    <2>3. QED
      BY <1>1, <1>3, <2>1, <2>2, AnnounceEffect
  <1>4. QED
    BY <1>2, <1>3

\* The row of an instance that was started again.
RebuiltRow ==
    /\ inst' = [inst EXCEPT !.status = Created("running"), !.scope = @ + 1]
    /\ reopened' = (reopened \/ inst.status \in Ended)
    /\ UNCHANGED unnoticed

TaskRecords == [step : RequestSteps, state : TaskStates,
                points : Points \cup {None}]

LEMMA TaskEffect ==
  ASSUME TasksOK, NEW t \in Tasks, NEW task \in TaskRecords,
         tasks' = [tasks EXCEPT ![t] = task]
  PROVE  TasksOK'
  BY DEF TasksOK, TaskRecords

LEMMA RebuiltEffect ==
  ASSUME InstOK, reopened \in BOOLEAN, RebuiltRow
  PROVE  InstOK' /\ reopened' \in BOOLEAN
  <1>1. Created("running") \in Status
    BY DEF Created
  <1>2. inst' = [status |-> Created("running"), score |-> inst.score,
                 scope |-> inst.scope + 1]
    BY DEF RebuiltRow, InstOK
  <1>3. QED
    BY <1>1, <1>2 DEF RebuiltRow, InstOK

LEMMA RebuildCases ==
  ASSUME NEW a \in Callers, Rebuild(a)
  PROVE  RebuiltRow \/ SetStatus("error") \/ UNCHANGED <<inst, history>>
  BY DEF Rebuild, RebuiltRow

LEMMA StoreEffect ==
  ASSUME ResultsOK, NEW t \in Tasks, NEW n \in Points, NEW j \in BOOLEAN,
         results' = [results EXCEPT ![CheckpointOf[t]] =
                       [task |-> t, points |-> n, judged |-> j]]
  PROVE  /\ ResultsOK'
         /\ results'[CheckpointOf[t]] = [task |-> t, points |-> n, judged |-> j]
         /\ \A c \in Checkpoints :
              c # CheckpointOf[t] => results'[c] = results[c]
  BY DEF ResultsOK, Results

LEMMA VerdictEffect ==
  ASSUME TasksOK, NEW t \in Tasks
  PROVE  \E n \in Points :
           Verdict(t) = [task |-> t, points |-> n, judged |-> TRUE]
  BY DEF TasksOK, Verdict

LEMMA ApplyEffect ==
  ASSUME TypeOK, NEW t \in Tasks, ApplyVerdict(t)
  PROVE  /\ ResultsOK' /\ Rescore(results', report)
         /\ results'[CheckpointOf[t]].task = t
         /\ results'[CheckpointOf[t]].judged
         /\ \A c \in Checkpoints :
              c # CheckpointOf[t] => results'[c] = results[c]
  <1>1. PICK n \in Points :
          Verdict(t) = [task |-> t, points |-> n, judged |-> TRUE]
    BY VerdictEffect DEF TypeOK
  <1>2. results' = [results EXCEPT ![CheckpointOf[t]] =
                      [task |-> t, points |-> n, judged |-> TRUE]]
    BY <1>1 DEF ApplyVerdict
  <1>3. ResultsOK' /\ results'[CheckpointOf[t]] =
                        [task |-> t, points |-> n, judged |-> TRUE]
          /\ \A c \in Checkpoints :
               c # CheckpointOf[t] => results'[c] = results[c]
    BY <1>2, StoreEffect DEF TypeOK
  <1>4. Rescore(results', report)
    BY DEF ApplyVerdict
  <1>5. /\ results'[CheckpointOf[t]].task = t
        /\ results'[CheckpointOf[t]].judged
    BY <1>3
  <1>6. QED
    BY <1>3, <1>4, <1>5

\* A grade is stored or rolled back, and the score follows, or it would not
\* change.
LEMMA GradeCases ==
  ASSUME report \in Reports, unnoticed \in BOOLEAN,
         NEW a \in Callers, GradeReport(a)
  PROVE  /\ report' \in Reports
         /\ \/ UNCHANGED <<inst, events, unnoticed, report>>
            \/ /\ UNCHANGED <<inst, events>>
               /\ inst.status \in Ended
               /\ report'.status = "graded"
               /\ SumScores(results, report') = inst.score
               /\ unnoticed' = (unnoticed \/ report.status = "submitted")
            \/ /\ Rescore(results, report')
               /\ report'.status = "graded"
               /\ \/ inst.status \notin Ended
                  \/ SumScores(results, report') # inst.score
  BY DEF GradeReport, Differs, Reports

LEMMA InitTypeOK == Init => TypeOK
  <1> SUFFICES ASSUME Init PROVE TypeOK
    OBVIOUS
  <1>1. InstOK /\ EventsOK /\ CourseOK /\ report \in Reports
    BY DEF Init, InstOK, EventsOK, CourseOK, Reports
  <1>2. ResultsOK
    BY DEF Init, ResultsOK, Results
  <1>3. TasksOK
    BY DEF Init, TasksOK
  <1>4. calls \in [Callers -> [step : CallSteps, scope : Nat]]
    BY DEF Init, NoCall
  <1>5. QED
    BY <1>1, <1>2, <1>3, <1>4 DEF Init, TypeOK

\* Every action keeps the types.
LEMMA TypeSteps == TypeOK /\ Next => TypeOK'
  <1> SUFFICES ASSUME TypeOK, Next PROVE TypeOK'
    OBVIOUS
  <1>1. ASSUME NEW t \in Tasks, SubmitTask(t) PROVE TypeOK'
    <2> DEFINE task == [tasks[t] EXCEPT !.step = "submitted",
                                !.state = "queued"]
    <2>1. tasks' = [tasks EXCEPT ![t] = task]
      BY <1>1 DEF SubmitTask
    <2>2. task \in TaskRecords
      <3>1. tasks[t] \in TaskRecords
        BY DEF TypeOK, TasksOK, TaskRecords
      <3>2. QED
        BY <3>1 DEF TaskRecords
    <2>3. TasksOK'
      BY <2>1, <2>2, TaskEffect DEF TypeOK
    <2>4. QED
      BY <1>1, <2>3, UseEffect DEF TypeOK, CallsOK, LeftOK, SubmitTask,
         InstOK, ResultsOK, EventsOK, CourseOK
  <1>2. ASSUME NEW t \in Tasks, StoreTask(t) PROVE TypeOK'
    <2>1. TasksOK'
      BY <1>2 DEF TypeOK, TasksOK, StoreTask
    <2>2. ResultsOK'
      BY <1>2, StoreEffect DEF TypeOK, StoreTask, Submitted
    <2>3. QED
      BY <1>2, <2>1, <2>2 DEF TypeOK, CallsOK, LeftOK, StoreTask,
         InstOK, EventsOK, CourseOK
  <1>3. ASSUME NEW t \in Tasks, RequestDies(t) PROVE TypeOK'
    <2>1. TasksOK'
      BY <1>3 DEF TypeOK, TasksOK, RequestDies
    <2>2. QED
      BY <1>3, <2>1, UseEffect DEF TypeOK, CallsOK, LeftOK, RequestDies,
         InstOK, ResultsOK, EventsOK, CourseOK
  <1>4. ASSUME NEW t \in Tasks, Judge(t) PROVE TypeOK'
    <2> DEFINE task(p) == [tasks[t] EXCEPT !.state = "judged", !.points = p]
    <2>1. PICK p \in Points \cup {None} :
            tasks' = [tasks EXCEPT ![t] = task(p)]
      BY <1>4 DEF Judge
    <2>2. task(p) \in TaskRecords
      <3>1. tasks[t] \in TaskRecords
        BY DEF TypeOK, TasksOK, TaskRecords
      <3>2. QED
        BY <3>1 DEF TaskRecords
    <2>3. TasksOK'
      BY <2>1, <2>2, TaskEffect DEF TypeOK
    <2>4. QED
      BY <1>4, <2>3, UseEffect DEF TypeOK, CallsOK, LeftOK, Judge,
         InstOK, ResultsOK, EventsOK, CourseOK
  <1>5. ASSUME NEW t \in Tasks, FindResult(t) PROVE TypeOK'
    <2>1. TasksOK'
      BY <1>5 DEF TypeOK, TasksOK, FindResult
    <2>2. QED
      BY <1>5, <2>1, UseEffect DEF TypeOK, CallsOK, LeftOK, FindResult,
         InstOK, ResultsOK, EventsOK, CourseOK
  <1>6. ASSUME NEW t \in Tasks, ApplyVerdict(t) PROVE TypeOK'
    <2>1. ResultsOK' /\ InstOK' /\ EventsOK' /\ unnoticed' \in BOOLEAN
      BY <1>6, ApplyEffect, RescoreEffect DEF TypeOK, ResultsOK
    <2>2. QED
      BY <1>6, <2>1 DEF TypeOK, CallsOK, LeftOK, ApplyVerdict, TasksOK, CourseOK
  <1>7. ASSUME NEW t \in Tasks, Redeliver(t) PROVE TypeOK'
    <2>1. TasksOK'
      BY <1>7 DEF TypeOK, TasksOK, Redeliver
    <2>2. QED
      BY <1>7, <2>1, UseEffect DEF TypeOK, CallsOK, LeftOK, Redeliver,
         InstOK, ResultsOK, EventsOK, CourseOK
  <1>8. ASSUME NEW t \in Tasks, DeadLetter(t) PROVE TypeOK'
    <2>1. TasksOK'
      BY <1>8 DEF TypeOK, TasksOK, DeadLetter
    <2>2. QED
      BY <1>8, <2>1, UseEffect DEF TypeOK, CallsOK, LeftOK, DeadLetter,
         InstOK, ResultsOK, EventsOK, CourseOK
  <1>9. ASSUME NEW a \in Callers, Create(a) PROVE TypeOK'
    BY <1>9, SetStatusEffect, ReturnEffect DEF TypeOK, CallsOK, LeftOK, Create, Created,
       InstOK, ResultsOK, TasksOK, EventsOK, CourseOK
  <1>10. ASSUME NEW a \in Callers, Control(a) PROVE TypeOK'
    BY <1>10, StepEffect, UseEffect DEF TypeOK, CallsOK, LeftOK, Control,
       InstOK, ResultsOK, TasksOK, EventsOK, CourseOK
  <1>11. ASSUME NEW a \in Callers, Rebuild(a) PROVE TypeOK'
    <2>1. SetStatus("error") => InstOK' /\ reopened' \in BOOLEAN
      BY SetStatusEffect DEF TypeOK
    <2>2. UNCHANGED <<inst, history>> => InstOK' /\ reopened' \in BOOLEAN
      BY DEF TypeOK, InstOK
    <2>3. InstOK' /\ reopened' \in BOOLEAN
      BY <1>11, <2>1, <2>2, RebuiltEffect, RebuildCases DEF TypeOK
    <2>6. unnoticed' = unnoticed
      BY <1>11 DEF Rebuild, SetStatus
    <2>4. CallsOK'
      BY <1>11, StepEffect, ReturnEffect DEF TypeOK, CallsOK, Rebuild
    <2>5. QED
      BY <1>11, <2>3, <2>4, <2>6 DEF TypeOK, CallsOK, LeftOK, Rebuild, ResultsOK,
         TasksOK, EventsOK, CourseOK
  <1>12. ASSUME NEW a \in Callers, FinishControl(a) PROVE TypeOK'
    BY <1>12, SetStatusEffect, ReturnEffect DEF TypeOK, CallsOK, LeftOK, FinishControl, Created,
       InstOK, ResultsOK, TasksOK, EventsOK, CourseOK
  <1>13. ASSUME NEW a \in Callers, CallDies(a) PROVE TypeOK'
    BY <1>13, ReturnEffect, UseEffect DEF TypeOK, CallsOK, LeftOK, CallDies,
       InstOK, ResultsOK, TasksOK, EventsOK, CourseOK
  <1>14. ASSUME NEW a \in Callers, FinishInstance(a) PROVE TypeOK'
    <2> DEFINE total == SumScores(results, report)
    <2>1. total \in Totals
      BY SumIsTotal DEF TypeOK, ResultsOK
    <2>2. InstOK'
      BY <1>14, <2>1 DEF TypeOK, InstOK, FinishInstance
    <2>3. EventsOK' /\ unnoticed' = FALSE
      BY <1>14, <2>1, AnnounceEffect DEF TypeOK, FinishInstance
    <2>4. CallsOK' /\ LeftOK'
      BY <1>14, StepEffect, UseEffect DEF TypeOK, CallsOK, LeftOK,
         FinishInstance
    <2>5. QED
      BY <1>14, <2>2, <2>3, <2>4 DEF TypeOK, CallsOK, LeftOK,
         FinishInstance, ResultsOK, TasksOK, CourseOK
  <1>15. ASSUME NEW a \in Callers, RetryFinish(a) PROVE TypeOK'
    BY <1>15, StepEffect, UseEffect DEF TypeOK, CallsOK, LeftOK, RetryFinish,
       InstOK, ResultsOK, TasksOK, EventsOK, CourseOK
  <1>16. ASSUME NEW a \in Callers, ClaimRecyclable(a) PROVE TypeOK'
    BY <1>16, StepEffect, UseEffect DEF TypeOK, CallsOK, LeftOK, ClaimRecyclable,
       InstOK, ResultsOK, TasksOK, EventsOK, CourseOK
  <1>17. ASSUME NEW a \in Callers, CourseEnds(a) PROVE TypeOK'
    BY <1>17, StepEffect, UseEffect DEF TypeOK, CallsOK, LeftOK, CourseEnds,
       InstOK, ResultsOK, TasksOK, EventsOK, CourseOK
  <1>18. ASSUME NEW a \in Callers, Close(a) PROVE TypeOK'
    BY <1>18, SetStatusEffect, ReturnEffect DEF TypeOK, CallsOK, LeftOK, Close, Created,
       InstOK, ResultsOK, TasksOK, EventsOK, CourseOK
  <1>19. ASSUME NEW a \in Callers, StartRecovery(a) PROVE TypeOK'
    BY <1>19, StepEffect, UseEffect DEF TypeOK, CallsOK, LeftOK, StartRecovery,
       InstOK, ResultsOK, TasksOK, EventsOK, CourseOK
  <1>20. ASSUME NEW a \in Callers, Recover(a) PROVE TypeOK'
    BY <1>20, SetStatusEffect, ReturnEffect DEF TypeOK, CallsOK, LeftOK, Recover, Created,
       InstOK, ResultsOK, TasksOK, EventsOK, CourseOK
  <1>21. ASSUME Release PROVE TypeOK'
    BY <1>21, SetStatusEffect, UseEffect DEF TypeOK, CallsOK, LeftOK, Release,
       ResultsOK, TasksOK, EventsOK, CourseOK
  <1>22. ASSUME SandboxFails PROVE TypeOK'
    BY <1>22, SetStatusEffect, UseEffect DEF TypeOK, CallsOK, LeftOK, SandboxFails,
       ResultsOK, TasksOK, EventsOK, CourseOK
  <1>23. ASSUME SubmitReport PROVE TypeOK'
    BY <1>23, UseEffect DEF TypeOK, CallsOK, LeftOK, SubmitReport, Reports,
       InstOK, ResultsOK, TasksOK, EventsOK, CourseOK
  <1>24. ASSUME NEW a \in Callers, ReadReport(a) PROVE TypeOK'
    BY <1>24, StepEffect, UseEffect DEF TypeOK, CallsOK, LeftOK, ReadReport,
       InstOK, ResultsOK, TasksOK, EventsOK, CourseOK
  <1>25. ASSUME NEW a \in Callers, GradeReport(a) PROVE TypeOK'
    <2>1. /\ report' \in Reports
          /\ \/ UNCHANGED <<inst, events>> /\ unnoticed' \in BOOLEAN
             \/ Rescore(results, report')
      BY <1>25, GradeCases DEF TypeOK
    <2>2. InstOK' /\ EventsOK' /\ unnoticed' \in BOOLEAN
      <3>1. CASE UNCHANGED <<inst, events>> /\ unnoticed' \in BOOLEAN
        BY <3>1 DEF TypeOK, InstOK, EventsOK
      <3>2. CASE Rescore(results, report')
        BY <3>2, <2>1, RescoreEffect DEF TypeOK, ResultsOK
      <3>3. QED
        BY <2>1, <3>1, <3>2
    <2>3. CallsOK'
      BY <1>25, ReturnEffect DEF TypeOK, CallsOK, GradeReport
    <2>4. QED
      BY <1>25, <2>1, <2>2, <2>3 DEF TypeOK, CallsOK, LeftOK, GradeReport,
         ResultsOK, TasksOK, CourseOK
  <1>26. ASSUME NEW r \in DOMAIN events, UpdateCourse(r) PROVE TypeOK'
    <2>1. CourseOK'
      <3> DEFINE E == [score : Totals, pending : BOOLEAN, lost : BOOLEAN]
      <3>0. events \in Seq(E) /\ r \in DOMAIN events
        BY <1>26 DEF TypeOK, EventsOK
      <3>1. r \in Nat /\ events[r] \in E
        <4> HIDE DEF E
        <4> QED
          BY <3>0
      <3>2. course' = [revision |-> r, score |-> events[r].score,
                       pending |-> events[r].pending]
        BY <1>26 DEF UpdateCourse
      <3>3. QED
        BY <3>1, <3>2 DEF CourseOK
    <2>2. QED
      BY <1>26, <2>1 DEF TypeOK, CallsOK, LeftOK, UpdateCourse,
         InstOK, ResultsOK, TasksOK, EventsOK
  <1>27. ASSUME NEW r \in DOMAIN events, LoseEvent(r) PROVE TypeOK'
    <2>1. EventsOK'
      <3> DEFINE E == [score : Totals, pending : BOOLEAN, lost : BOOLEAN]
      <3>1. events \in Seq(E) /\ r \in DOMAIN events
        BY <1>27 DEF TypeOK, EventsOK
      <3>2. r \in 1..Len(events) /\ events[r] \in E
        <4> HIDE DEF E
        <4> QED
          BY <3>1
      <3>3. [events[r] EXCEPT !.lost = TRUE] \in E
        BY <3>2
      <3>4. events' = [events EXCEPT ![r] = [events[r] EXCEPT !.lost = TRUE]]
        BY <1>27 DEF LoseEvent
      <3>5. events' \in Seq(E)
        <4> HIDE DEF E
        <4> QED
          BY <3>1, <3>2, <3>3, <3>4
      <3>6. QED
        BY <3>5 DEF EventsOK
    <2>2. QED
      BY <1>27, <2>1, UseEffect DEF TypeOK, CallsOK, LeftOK, LoseEvent,
         InstOK, ResultsOK, TasksOK, CourseOK
  <1>28. QED
    BY <1>1, <1>2, <1>3, <1>4, <1>5, <1>6, <1>7, <1>8, <1>9, <1>10, <1>11,
    <1>12, <1>13, <1>14, <1>15, <1>16, <1>17, <1>18, <1>19, <1>20, <1>21,
    <1>22, <1>23, <1>24, <1>25, <1>26, <1>27 DEF Next, TaskStep, CallStep

-----------------------------------------------------------------------------
(* The score.                                                              *)

\* An instance that has not ended has no score, unless it was reopened.
Unscored == inst.status \notin Ended /\ ~reopened => inst.score = None

ScoreInv == ScoreIsSum /\ LastEventTells /\ Unscored

\* A change of the status leaves the score as it is.
LEMMA StatusKeepsScore ==
  ASSUME TypeOK, ScoreInv, NEW s \in Status, SetStatus(s),
         UNCHANGED <<results, report, events>>
  PROVE  ScoreInv'
  <1>1. /\ inst'.status = s /\ inst'.score = inst.score
        /\ unnoticed' = unnoticed
        /\ reopened' = (reopened \/ (inst.status \in Ended /\ s \notin Ended))
    BY SetStatusEffect DEF TypeOK
  <1>2. Stands' => Stands
    BY <1>1 DEF Stands, ScoreInv, Unscored
  <1>3. SumScores(results, report)' = SumScores(results, report)
    BY DEF SumScores
  <1>4. \A c \in Checkpoints : Waiting(c)' <=> Waiting(c)
    BY DEF Waiting
  <1>5. ScoreIsSum'
    BY <1>1, <1>2, <1>3, <1>4 DEF ScoreInv, ScoreIsSum
  <1>6. LastEventTells'
    BY <1>1, <1>2 DEF ScoreInv, LastEventTells
  <1>7. Unscored'
    BY <1>1 DEF ScoreInv, Unscored, TypeOK
  <1>8. QED
    BY <1>5, <1>6, <1>7 DEF ScoreInv

\* A verdict or a grade brings the score of an ended instance up to date.
LEMMA RescoreKeepsScore ==
  ASSUME TypeOK, TypeOK', ScoreInv,
         Rescore(results', report'), UNCHANGED reopened,
         \/ report' = report
         \/ report'.status = "graded" /\ inst.status \notin Ended
         \/ report'.status = "graded" /\ SumScores(results', report') # inst.score
  PROVE  ScoreInv'
  <1>1. results' \in Results /\ report' \in Reports
    BY DEF TypeOK, ResultsOK
  <1>2. SumScores(results', report') = SumScores(results, report)'
    BY DEF SumScores
  <1>3. /\ inst'.status = inst.status
        /\ \/ /\ UNCHANGED <<inst, events, unnoticed>>
              /\ inst.status \in Ended => inst.score = SumScores(results', report')
           \/ /\ inst.status \in Ended
              /\ events' # <<>>
              /\ inst'.score = SumScores(results', report')
              /\ events'[Len(events')].score = inst'.score
              /\ events'[Len(events')].pending = (report'.status = "submitted")
              /\ unnoticed' = FALSE
    BY <1>1, RescoreEffect DEF TypeOK
  <1>4. ScoreIsSum'
    BY <1>2, <1>3 DEF ScoreIsSum, Stands
  <1>5. LastEventTells'
    <2>1. CASE UNCHANGED <<inst, events, unnoticed>>
      BY <1>3, <2>1 DEF ScoreInv, LastEventTells, Stands
    <2>2. CASE ~UNCHANGED <<inst, events, unnoticed>>
      BY <1>3, <2>2 DEF LastEventTells, Stands
    <2>3. QED
      BY <2>1, <2>2
  <1>6. Unscored'
    BY <1>3 DEF ScoreInv, Unscored
  <1>7. QED
    BY <1>4, <1>5, <1>6 DEF ScoreInv

LEMMA UntouchedScore ==
  ASSUME ScoreInv, UNCHANGED <<inst, results, report, events, history>>
  PROVE  ScoreInv'
  <1>1. SumScores(results, report)' = SumScores(results, report)
    BY DEF SumScores
  <1>2. \A c \in Checkpoints : Waiting(c)' <=> Waiting(c)
    BY DEF Waiting
  <1>3. QED
    BY <1>1, <1>2 DEF ScoreInv, ScoreIsSum, LastEventTells, Unscored, Stands

LEMMA ScoreSteps == TypeOK /\ TypeOK' /\ ScoreInv /\ Next => ScoreInv'
  <1> SUFFICES ASSUME TypeOK, TypeOK', ScoreInv, Next PROVE ScoreInv'
    OBVIOUS
  <1>1. ASSUME NEW t \in Tasks, SubmitTask(t) PROVE ScoreInv'
    BY <1>1, UntouchedScore DEF SubmitTask
  <1>2. ASSUME NEW t \in Tasks, StoreTask(t) PROVE ScoreInv'
    <2>1. results'[CheckpointOf[t]] =
            [task |-> t, points |-> 0, judged |-> FALSE]
      BY <1>2, StoreEffect DEF StoreTask, Submitted, TypeOK
    <2>2. CheckpointOf[t] \in Checkpoints /\ Waiting(CheckpointOf[t])'
      BY <2>1 DEF Waiting
    <2>3. ScoreIsSum'
      BY <2>2 DEF ScoreIsSum
    <2>4. QED
      BY <1>2, <2>3 DEF StoreTask, ScoreInv, LastEventTells, Unscored, Stands
  <1>3. ASSUME NEW t \in Tasks, RequestDies(t) PROVE ScoreInv'
    BY <1>3, UntouchedScore DEF RequestDies
  <1>4. ASSUME NEW t \in Tasks, Judge(t) PROVE ScoreInv'
    BY <1>4, UntouchedScore DEF Judge
  <1>5. ASSUME NEW t \in Tasks, FindResult(t) PROVE ScoreInv'
    BY <1>5, UntouchedScore DEF FindResult
  <1>6. ASSUME NEW t \in Tasks, ApplyVerdict(t) PROVE ScoreInv'
    <2>1. Rescore(results', report')
      BY <1>6, ApplyEffect DEF ApplyVerdict
    <2>2. QED
      BY <1>6, <2>1, RescoreKeepsScore DEF ApplyVerdict, TypeOK, ResultsOK
  <1>7. ASSUME NEW t \in Tasks, Redeliver(t) PROVE ScoreInv'
    BY <1>7, UntouchedScore DEF Redeliver
  <1>8. ASSUME NEW t \in Tasks, DeadLetter(t) PROVE ScoreInv'
    BY <1>8, UntouchedScore DEF DeadLetter
  <1>9. ASSUME NEW a \in Callers, Create(a) PROVE ScoreInv'
    BY <1>9, StatusKeepsScore DEF Create, Created
  <1>10. ASSUME NEW a \in Callers, Control(a) PROVE ScoreInv'
    BY <1>10, UntouchedScore DEF Control
  <1>11. ASSUME NEW a \in Callers, Rebuild(a) PROVE ScoreInv'
    <2>1. CASE SetStatus("error") \/ UNCHANGED <<inst, history>>
      BY <1>11, <2>1, StatusKeepsScore, UntouchedScore DEF Rebuild
    <2>2. CASE RebuiltRow
      <3>1. /\ inst'.status \in {"running", "error"}
            /\ inst'.score = inst.score
        BY <2>2 DEF RebuiltRow, TypeOK, InstOK, Created
      <3>2. ~Stands'
        BY <3>1 DEF Stands
      <3>3. QED
        BY <1>11, <2>2, <3>1, <3>2 DEF RebuiltRow, Rebuild, ScoreInv, ScoreIsSum,
           LastEventTells, Unscored, TypeOK
    <2>3. QED
      BY <1>11, <2>1, <2>2, RebuildCases
  <1>12. ASSUME NEW a \in Callers, FinishControl(a) PROVE ScoreInv'
    BY <1>12, StatusKeepsScore DEF FinishControl
  <1>13. ASSUME NEW a \in Callers, CallDies(a) PROVE ScoreInv'
    BY <1>13, UntouchedScore DEF CallDies
  <1>14. ASSUME NEW a \in Callers, FinishInstance(a) PROVE ScoreInv'
    <2> DEFINE total == SumScores(results, report)
    <2>1. total \in Totals
      BY SumIsTotal DEF TypeOK, ResultsOK
    <2>2. inst'.status = "finished" /\ inst'.score = total
      BY <1>14 DEF FinishInstance, TypeOK, InstOK
    <2>3. /\ events' # <<>> /\ events'[Len(events')].score = total
          /\ events'[Len(events')].pending = (report.status = "submitted")
      BY <1>14, <2>1, AnnounceEffect DEF FinishInstance, TypeOK
    <2>4. SumScores(results, report)' = total
      BY <1>14 DEF FinishInstance, SumScores
    <2>5. QED
      BY <1>14, <2>2, <2>3, <2>4 DEF FinishInstance, ScoreInv, ScoreIsSum,
         LastEventTells, Unscored, Stands
  <1>15. ASSUME NEW a \in Callers, RetryFinish(a) PROVE ScoreInv'
    BY <1>15, UntouchedScore DEF RetryFinish
  <1>16. ASSUME NEW a \in Callers, ClaimRecyclable(a) PROVE ScoreInv'
    BY <1>16, UntouchedScore DEF ClaimRecyclable
  <1>17. ASSUME NEW a \in Callers, CourseEnds(a) PROVE ScoreInv'
    BY <1>17, UntouchedScore DEF CourseEnds
  <1>18. ASSUME NEW a \in Callers, Close(a) PROVE ScoreInv'
    BY <1>18, StatusKeepsScore DEF Close
  <1>19. ASSUME NEW a \in Callers, StartRecovery(a) PROVE ScoreInv'
    BY <1>19, UntouchedScore DEF StartRecovery
  <1>20. ASSUME NEW a \in Callers, Recover(a) PROVE ScoreInv'
    BY <1>20, StatusKeepsScore, UntouchedScore DEF Recover
  <1>21. ASSUME Release PROVE ScoreInv'
    BY <1>21, StatusKeepsScore DEF Release
  <1>22. ASSUME SandboxFails PROVE ScoreInv'
    BY <1>22, StatusKeepsScore DEF SandboxFails
  <1>23. ASSUME SubmitReport PROVE ScoreInv'
    <2>1. report'.status = "submitted"
      BY <1>23 DEF SubmitReport, TypeOK, Reports
    <2>2. QED
      BY <1>23, <2>1 DEF SubmitReport, ScoreInv, ScoreIsSum, LastEventTells,
         Unscored, Stands
  <1>24. ASSUME NEW a \in Callers, ReadReport(a) PROVE ScoreInv'
    BY <1>24, UntouchedScore DEF ReadReport
  <1>25. ASSUME NEW a \in Callers, GradeReport(a) PROVE ScoreInv'
    <2>1. CASE UNCHANGED <<inst, events, unnoticed, report>>
      BY <1>25, <2>1, UntouchedScore DEF GradeReport
    <2>2. CASE /\ UNCHANGED <<inst, events>>
               /\ report'.status = "graded"
               /\ SumScores(results, report') = inst.score
               /\ unnoticed' = (unnoticed \/ report.status = "submitted")
      <3>1. SumScores(results, report)' = inst'.score
        BY <1>25, <2>2 DEF SumScores, GradeReport
      <3>2. ScoreIsSum'
        BY <3>1 DEF ScoreIsSum
      <3>3. LastEventTells'
        BY <1>25, <2>2 DEF GradeReport, ScoreInv, LastEventTells, Stands
      <3>4. QED
        BY <1>25, <2>2, <3>2, <3>3 DEF GradeReport, ScoreInv, Unscored
    <2>3. CASE /\ Rescore(results, report') /\ report'.status = "graded"
               /\ \/ inst.status \notin Ended
                  \/ SumScores(results, report') # inst.score
      BY <1>25, <2>3, RescoreKeepsScore DEF GradeReport
    <2>4. QED
      BY <1>25, <2>1, <2>2, <2>3, GradeCases DEF TypeOK
  <1>26. ASSUME NEW r \in DOMAIN events, UpdateCourse(r) PROVE ScoreInv'
    BY <1>26, UntouchedScore DEF UpdateCourse
  <1>27. ASSUME NEW r \in DOMAIN events, LoseEvent(r) PROVE ScoreInv'
    <2>1. /\ Len(events') = Len(events)
          /\ events # <<>> => events' # <<>>
          /\ events # <<>> =>
               /\ events'[Len(events)].score = events[Len(events)].score
               /\ events'[Len(events)].pending = events[Len(events)].pending
      BY <1>27 DEF LoseEvent, TypeOK, EventsOK
    <2>2. events # <<>>
      BY <1>27 DEF TypeOK, EventsOK
    <2>3. LastEventTells'
      BY <1>27, <2>1, <2>2 DEF LoseEvent, ScoreInv, LastEventTells, Stands
    <2>4. SumScores(results, report)' = SumScores(results, report)
      BY <1>27 DEF LoseEvent, SumScores
    <2>5. \A c \in Checkpoints : Waiting(c)' <=> Waiting(c)
      BY <1>27 DEF LoseEvent, Waiting
    <2>6. QED
      BY <1>27, <2>3, <2>4, <2>5 DEF LoseEvent, ScoreInv, ScoreIsSum, Unscored,
         Stands
  <1>28. QED
    BY <1>1, <1>2, <1>3, <1>4, <1>5, <1>6, <1>7, <1>8, <1>9, <1>10, <1>11,
    <1>12, <1>13, <1>14, <1>15, <1>16, <1>17, <1>18, <1>19, <1>20, <1>21,
    <1>22, <1>23, <1>24, <1>25, <1>26, <1>27 DEF Next, TaskStep, CallStep

-----------------------------------------------------------------------------
(* The verdicts.                                                           *)

\* A task that is not yet stored was not handled, and a stored result belongs
\* to a request that is over.
StoredOK ==
    /\ \A t \in Tasks :
         /\ tasks[t].step = "none" => tasks[t].state = "none"
         /\ tasks[t].step = "submitted"
              => tasks[t].state \in {"queued", "judged", "dead"}
    /\ \A c \in Checkpoints :
         results[c].task # None => tasks[results[c].task].step = "over"

VerdictInv == VerdictDue /\ StoredOK

LEMMA UntouchedVerdicts ==
  ASSUME VerdictInv, UNCHANGED <<results, tasks>>
  PROVE  VerdictInv'
  BY DEF VerdictInv, VerdictDue, Waiting, StoredOK

LEMMA VerdictSteps == TypeOK /\ VerdictInv /\ Next => VerdictInv'
  <1> SUFFICES ASSUME TypeOK, VerdictInv, Next PROVE VerdictInv'
    OBVIOUS
  <1>1. ASSUME NEW t \in Tasks, SubmitTask(t) PROVE VerdictInv'
    BY <1>1 DEF SubmitTask, VerdictInv, VerdictDue, StoredOK, Waiting,
       TypeOK, TasksOK, ResultsOK, Results
  <1>2. ASSUME NEW t \in Tasks, StoreTask(t) PROVE VerdictInv'
    <2>1. /\ results'[CheckpointOf[t]] =
               [task |-> t, points |-> 0, judged |-> FALSE]
          /\ \A c \in Checkpoints :
               c # CheckpointOf[t] => results'[c] = results[c]
      BY <1>2, StoreEffect DEF StoreTask, Submitted, TypeOK
    <2>2. QED
      BY <1>2, <2>1 DEF StoreTask, VerdictInv, VerdictDue, StoredOK, Waiting,
         TypeOK, TasksOK, ResultsOK, Results
  <1>3. ASSUME NEW t \in Tasks, RequestDies(t) PROVE VerdictInv'
    BY <1>3 DEF RequestDies, VerdictInv, VerdictDue, StoredOK, Waiting,
       TypeOK, TasksOK, ResultsOK, Results
  <1>4. ASSUME NEW t \in Tasks, Judge(t) PROVE VerdictInv'
    BY <1>4 DEF Judge, VerdictInv, VerdictDue, StoredOK, Waiting,
       TypeOK, TasksOK, ResultsOK, Results
  <1>5. ASSUME NEW t \in Tasks, FindResult(t) PROVE VerdictInv'
    BY <1>5 DEF FindResult, VerdictInv, VerdictDue, StoredOK, Waiting,
       TypeOK, TasksOK, ResultsOK, Results, HasRow
  <1>6. ASSUME NEW t \in Tasks, ApplyVerdict(t) PROVE VerdictInv'
    <2>1. /\ results'[CheckpointOf[t]].task = t
          /\ results'[CheckpointOf[t]].judged
          /\ \A c \in Checkpoints :
               c # CheckpointOf[t] => results'[c] = results[c]
      BY <1>6, ApplyEffect
    <2>2. \A c \in Checkpoints :
            c # CheckpointOf[t] => results[c].task # t
      BY DEF TypeOK, ResultsOK
    <2>3. QED
      BY <1>6, <2>1, <2>2 DEF ApplyVerdict, VerdictInv, VerdictDue, StoredOK,
         Waiting, TypeOK, TasksOK, ResultsOK, Results
  <1>7. ASSUME NEW t \in Tasks, Redeliver(t) PROVE VerdictInv'
    BY <1>7 DEF Redeliver, VerdictInv, VerdictDue, StoredOK, Waiting,
       TypeOK, TasksOK, ResultsOK, Results
  <1>8. ASSUME NEW t \in Tasks, DeadLetter(t) PROVE VerdictInv'
    BY <1>8 DEF DeadLetter, VerdictInv, VerdictDue, StoredOK, Waiting,
       TypeOK, TasksOK, ResultsOK, Results, HasRow
  <1>9. ASSUME NEW a \in Callers, Create(a) PROVE VerdictInv'
    BY <1>9, UntouchedVerdicts DEF Create
  <1>10. ASSUME NEW a \in Callers, Control(a) PROVE VerdictInv'
    BY <1>10, UntouchedVerdicts DEF Control
  <1>11. ASSUME NEW a \in Callers, Rebuild(a) PROVE VerdictInv'
    BY <1>11, UntouchedVerdicts DEF Rebuild
  <1>12. ASSUME NEW a \in Callers, FinishControl(a) PROVE VerdictInv'
    BY <1>12, UntouchedVerdicts DEF FinishControl
  <1>13. ASSUME NEW a \in Callers, CallDies(a) PROVE VerdictInv'
    BY <1>13, UntouchedVerdicts DEF CallDies
  <1>14. ASSUME NEW a \in Callers, FinishInstance(a) PROVE VerdictInv'
    BY <1>14, UntouchedVerdicts DEF FinishInstance
  <1>15. ASSUME NEW a \in Callers, RetryFinish(a) PROVE VerdictInv'
    BY <1>15, UntouchedVerdicts DEF RetryFinish
  <1>16. ASSUME NEW a \in Callers, ClaimRecyclable(a) PROVE VerdictInv'
    BY <1>16, UntouchedVerdicts DEF ClaimRecyclable
  <1>17. ASSUME NEW a \in Callers, CourseEnds(a) PROVE VerdictInv'
    BY <1>17, UntouchedVerdicts DEF CourseEnds
  <1>18. ASSUME NEW a \in Callers, Close(a) PROVE VerdictInv'
    BY <1>18, UntouchedVerdicts DEF Close
  <1>19. ASSUME NEW a \in Callers, StartRecovery(a) PROVE VerdictInv'
    BY <1>19, UntouchedVerdicts DEF StartRecovery
  <1>20. ASSUME NEW a \in Callers, Recover(a) PROVE VerdictInv'
    BY <1>20, UntouchedVerdicts DEF Recover
  <1>21. ASSUME Release PROVE VerdictInv'
    BY <1>21, UntouchedVerdicts DEF Release
  <1>22. ASSUME SandboxFails PROVE VerdictInv'
    BY <1>22, UntouchedVerdicts DEF SandboxFails
  <1>23. ASSUME SubmitReport PROVE VerdictInv'
    BY <1>23, UntouchedVerdicts DEF SubmitReport
  <1>24. ASSUME NEW a \in Callers, ReadReport(a) PROVE VerdictInv'
    BY <1>24, UntouchedVerdicts DEF ReadReport
  <1>25. ASSUME NEW a \in Callers, GradeReport(a) PROVE VerdictInv'
    BY <1>25, UntouchedVerdicts DEF GradeReport
  <1>26. ASSUME NEW r \in DOMAIN events, UpdateCourse(r) PROVE VerdictInv'
    BY <1>26, UntouchedVerdicts DEF UpdateCourse
  <1>27. ASSUME NEW r \in DOMAIN events, LoseEvent(r) PROVE VerdictInv'
    BY <1>27, UntouchedVerdicts DEF LoseEvent
  <1>28. QED
    BY <1>1, <1>2, <1>3, <1>4, <1>5, <1>6, <1>7, <1>8, <1>9, <1>10, <1>11,
    <1>12, <1>13, <1>14, <1>15, <1>16, <1>17, <1>18, <1>19, <1>20, <1>21,
    <1>22, <1>23, <1>24, <1>25, <1>26, <1>27 DEF Next, TaskStep, CallStep

-----------------------------------------------------------------------------
(* The invariant.                                                          *)

IInv == TypeOK /\ ScoreInv /\ VerdictInv

LEMMA InitIInv == Init => IInv
  <1> SUFFICES ASSUME Init PROVE IInv
    OBVIOUS
  <1>1. inst.score = None /\ ~Stands /\ inst.status = "creating"
    BY DEF Init, Stands
  <1>2. ScoreInv
    BY <1>1 DEF ScoreInv, ScoreIsSum, LastEventTells, Unscored
  <1>3. VerdictInv
    BY DEF Init, VerdictInv, VerdictDue, StoredOK, Waiting
  <1>4. QED
    BY <1>2, <1>3, InitTypeOK DEF IInv

LEMMA NextIInv == IInv /\ [Next]_vars => IInv'
  <1> SUFFICES ASSUME IInv, [Next]_vars PROVE IInv'
    OBVIOUS
  <1>1. CASE Next
    BY <1>1, TypeSteps, ScoreSteps, VerdictSteps DEF IInv
  <1>2. CASE UNCHANGED vars
    <2>1. TypeOK'
      BY <1>2 DEF vars, IInv, TypeOK, InstOK, ResultsOK, TasksOK, EventsOK,
         CourseOK
    <2>2. QED
      BY <1>2, <2>1, UntouchedScore, UntouchedVerdicts DEF vars, IInv
  <1>3. QED
    BY <1>1, <1>2

LEMMA SpecIInv == Spec => []IInv
  BY InitIInv, NextIInv, PTL DEF Spec

\* Every variable holds a value of its kind, and every stored result belongs
\* to a task of its checkpoint.
THEOREM TypeCorrect == Spec => []TypeOK
  <1>1. IInv => TypeOK
    BY DEF IInv
  <1>2. QED
    BY <1>1, SpecIInv, PTL

\* The score of an ended instance is the sum of its parts, except while a
\* verdict or a grade is missing: finish, verdicts and grades all sum under the
\* lock of the instance.
THEOREM EndedScoreIsSum == Spec => []ScoreIsSum
  <1>1. IInv => ScoreIsSum
    BY DEF IInv, ScoreInv
  <1>2. QED
    BY <1>1, SpecIInv, PTL

\* The last event tells the score of the row, and it calls the score
\* provisional only while a report waits for its grade: every change of the
\* score is announced in its own transaction, and a first grade that does not
\* change the score is rolled back.  The one exception is a grader who had read
\* an older grade before the report was submitted again.
THEOREM LastEventIsCurrent == Spec => []LastEventTells
  <1>1. IInv => LastEventTells
    BY DEF IInv, ScoreInv
  <1>2. QED
    BY <1>1, SpecIInv, PTL

\* No verdict is spent before the result it belongs to is stored, because a
\* handler that finds no result fails.
THEOREM VerdictNotSpent == Spec => []VerdictDue
  <1>1. IInv => VerdictDue
    BY DEF IInv, VerdictInv
  <1>2. QED
    BY <1>1, SpecIInv, PTL
=============================================================================
