----------------------- MODULE SandboxLifecycleProofs -----------------------
(***************************************************************************)
(* Proofs about SandboxLifecycle, for any replicas, any writes and any     *)
(* number of calls and faults.                                             *)
(***************************************************************************)
EXTENDS SandboxLifecycle, TLAPS

USE BoundsAssumption, NoCodeAssumption
USE DEF Status, Open, Gone, Phases, StartSteps, CallSteps, RecycleSteps

-----------------------------------------------------------------------------
(* Types: what each way to change a variable leaves behind.                *)

LEMMA SetRowEffect ==
  ASSUME RowOK, NEW phase \in Phases, NEW status \in Status,
         SetRow(phase, status)
  PROVE  /\ RowOK'
         /\ row'.phase = phase /\ row'.status = status
         /\ row'.saved = row.saved
  BY DEF RowOK, SetRow

LEMMA ArchiveEffect ==
  ASSUME RowOK, ClusterOK, HistoryOK, Archive
  PROVE  /\ RowOK' /\ HistoryOK'
         /\ row'.phase = row.phase /\ row'.status = row.status
         /\ row'.saved = disk /\ ns = "up"
         /\ history'.accepted = history.accepted
         /\ history'.locked = history.locked
         /\ history'.rough = history.rough
  BY DEF RowOK, ClusterOK, HistoryOK, Archive

LEMMA StartToEffect ==
  ASSUME StartsOK, NEW p \in Replicas, NEW step \in StartSteps,
         StartTo(p, step)
  PROVE  /\ StartsOK' /\ starts'[p] = step
         /\ \A q \in Replicas : q # p => starts'[q] = starts[q]
  BY DEF StartsOK, StartTo

LEMMA ScheduleEffect ==
  ASSUME StartsOK, NEW p \in Replicas, Schedule(p)
  PROVE  /\ StartsOK' /\ starts'[p] \in {starts[p], "resources"}
         /\ \A q \in Replicas : q # p => starts'[q] = starts[q]
  BY DEF StartsOK, Schedule

LEMMA CallToEffect ==
  ASSUME CallsOK, NEW p \in Replicas, NEW step \in CallSteps,
         CallTo(p, step),
         step \in {"ensure", "save"} => calls[p].persist
  PROVE  /\ CallsOK'
         /\ calls'[p].step = step
         /\ calls'[p].status = calls[p].status
         /\ calls'[p].phase = calls[p].phase
         /\ calls'[p].persist = calls[p].persist
         /\ \A q \in Replicas : q # p => calls'[q] = calls[q]
  BY DEF CallsOK, CallTo

LEMMA ReturnEffect ==
  ASSUME CallsOK, NEW p \in Replicas, Return(p)
  PROVE  /\ CallsOK'
         /\ calls'[p].step = "none"
         /\ \A q \in Replicas : q # p => calls'[q] = calls[q]
  BY DEF CallsOK, Return, NoCall

LEMMA CopyEffect ==
  ASSUME CallsOK, RowOK, NEW p \in Replicas, NEW step \in {"claim", "lock"},
         TakeCopy(p, step)
  PROVE  /\ CallsOK'
         /\ calls'[p].step = step
         /\ calls'[p].status = row.status
         /\ calls'[p].phase = row.phase
         /\ calls'[p].persist = Persists(row)
         /\ \A q \in Replicas : q # p => calls'[q] = calls[q]
  BY DEF CallsOK, RowOK, TakeCopy, Copy, Persists

LEMMA SpendEffect == LeftOK /\ (SpendCall \/ SpendFault) => LeftOK'
  BY DEF LeftOK, SpendCall, SpendFault

LEMMA BeginRecycleEffect ==
  ASSUME HistoryOK, NEW c, c.persist \in BOOLEAN, BeginRecycle(c)
  PROVE  /\ HistoryOK'
         /\ history'.accepted = history.accepted
         /\ history'.locked = (IF row.status \in Gone THEN history.locked
                                                      ELSE history.accepted)
         /\ history.rough => history'.rough
         /\ ~history'.rough => c.persist \/ First(c)
  BY DEF HistoryOK, BeginRecycle, First

LEMMA NoteAnewEffect ==
  ASSUME HistoryOK, NoteAnew
  PROVE  /\ HistoryOK'
         /\ history'.accepted = history.accepted
         /\ history'.locked = history.locked
         /\ history.rough => history'.rough
         /\ ~history'.rough => ~MadeAnew
  BY DEF HistoryOK, NoteAnew, MadeAnew

LEMMA DisturbEffect == HistoryOK /\ Disturb => HistoryOK'
  BY DEF HistoryOK, Disturb

LEMMA ClusterEffect ==
  ASSUME ClusterOK,
         Provision \/ ProvisionFails \/ RemoveNamespace \/ StopCompute
  PROVE  ClusterOK'
  BY DEF ClusterOK, Provision, ProvisionFails, RemoveNamespace, StopCompute

LEMMA TransitionEffect ==
  ASSUME RowOK, NEW phase \in Phases, NEW status \in Status,
         Transition(phase, status)
  PROVE  /\ RowOK'
         /\ row' = row \/ /\ <<row.status, status>> \in Transitions
                          /\ row'.status = status /\ row'.phase = phase
                          /\ row'.saved = row.saved
  <1>1. CASE <<row.status, status>> \in Transitions
    BY <1>1, SetRowEffect DEF Transition
  <1>2. CASE <<row.status, status>> \notin Transitions
    BY <1>2 DEF Transition, RowOK
  <1>3. QED
    BY <1>1, <1>2

LEMMA MarkStartupFailedEffect ==
  ASSUME RowOK, MarkStartupFailed
  PROVE  /\ RowOK'
         /\ row' = row \/ /\ row.status \notin Gone \cup {"failed"}
                          /\ row'.status = "failed" /\ row'.phase = row.phase
                          /\ row'.saved = row.saved
  <1>1. CASE row.status \in OwnedByRecycle \cup {"failed"}
    BY <1>1 DEF MarkStartupFailed, RowOK
  <1>2. CASE row.status \notin OwnedByRecycle \cup {"failed"}
    BY <1>2, SetRowEffect DEF MarkStartupFailed, OwnedByRecycle, RowOK
  <1>3. QED
    BY <1>1, <1>2

LEMMA AdvanceEffect ==
  ASSUME RowOK, StartsOK, NEW p \in Replicas, NEW expected,
         NEW phase \in Phases, NEW status \in Status,
         NEW next \in StartSteps, Advance(p, expected, phase, status, next)
  PROVE  /\ RowOK' /\ StartsOK'
         /\ \A q \in Replicas : q # p => starts'[q] = starts[q]
         /\ \/ /\ row.status \in expected /\ starts'[p] = next
               /\ row'.status = status /\ row'.phase = phase
               /\ row'.saved = row.saved
            \/ row' = row /\ starts'[p] = "none"
  <1>1. CASE row.status \in expected
    BY <1>1, SetRowEffect, StartToEffect DEF Advance
  <1>2. CASE row.status \notin expected
    BY <1>2, StartToEffect DEF Advance, RowOK
  <1>3. QED
    BY <1>1, <1>2

LEMMA InitTypeOK == Init => TypeOK
  <1> SUFFICES ASSUME Init PROVE TypeOK
    OBVIOUS
  <1>1. RowOK /\ ClusterOK
    BY DEF Init, RowOK, ClusterOK
  <1>2. StartsOK /\ CallsOK
    BY DEF Init, StartsOK, CallsOK, NoCall
  <1>3. HistoryOK /\ LeftOK
    BY DEF Init, HistoryOK, LeftOK
  <1>4. QED
    BY <1>1, <1>2, <1>3 DEF Init, TypeOK

LEMMA NextTypeOK == TypeOK /\ [Next]_vars => TypeOK'
  <1> SUFFICES ASSUME TypeOK, [Next]_vars PROVE TypeOK'
    OBVIOUS
  <1> USE DEF TypeOK
  <1>1. CASE AuditFails
    BY <1>1, SpendEffect
      DEF AuditFails, cluster, CallsOK, ClusterOK, HistoryOK, RowOK, StartsOK
  <1>2. CASE RefuseNamespace
    BY <1>2, ClusterEffect, DisturbEffect
      DEF RefuseNamespace, cluster, CallsOK, ClusterOK, HistoryOK, LeftOK,
          RowOK, StartsOK
  <1>3. CASE RefuseRow
    BY <1>3, SetRowEffect
      DEF RefuseRow, cluster, CallsOK, ClusterOK, HistoryOK, LeftOK, RowOK,
          StartsOK
  <1>4. CASE MarkIdle
    BY <1>4, SetRowEffect
      DEF MarkIdle, cluster, CallsOK, ClusterOK, HistoryOK, LeftOK, RowOK,
          StartsOK
  <1>5. ASSUME NEW p \in Replicas, Audited(p) PROVE TypeOK'
    BY <1>5, ScheduleEffect
      DEF Audited, cluster, CallsOK, ClusterOK, HistoryOK, LeftOK, RowOK
  <1>6. ASSUME NEW p \in Replicas, StartResources(p) \/ StartTools(p)
        PROVE  TypeOK'
    BY <1>6, StartToEffect, ClusterEffect, NoteAnewEffect
      DEF StartResources, StartTools, CallsOK, LeftOK, RowOK
  <1>7. ASSUME NEW p \in Replicas, StartCleanup(p) PROVE TypeOK'
    BY <1>7, StartToEffect, ClusterEffect, DisturbEffect
      DEF StartCleanup, cluster, CallsOK, ClusterOK, HistoryOK, LeftOK, RowOK
  <1>8. ASSUME NEW p \in Replicas, StartMark(p) PROVE TypeOK'
    BY <1>8, MarkStartupFailedEffect, StartToEffect
      DEF StartMark, cluster, CallsOK, ClusterOK, HistoryOK, LeftOK, RowOK
  <1>9. ASSUME NEW p \in Replicas, StartReady(p) PROVE TypeOK'
    BY <1>9, AdvanceEffect
      DEF StartReady, Unstarted, cluster, CallsOK, ClusterOK, HistoryOK,
          LeftOK
  <1>10. ASSUME NEW p \in Replicas, StartInit(p) PROVE TypeOK'
    BY <1>10, AdvanceEffect
      DEF StartInit, cluster, CallsOK, ClusterOK, HistoryOK, LeftOK
  <1>11. ASSUME NEW p \in Replicas, StartInitialise(p) PROVE TypeOK'
    BY <1>11, StartToEffect
      DEF StartInitialise, cluster, CallsOK, ClusterOK, HistoryOK, LeftOK,
          RowOK
  <1>12. ASSUME NEW p \in Replicas, StartFinish(p) PROVE TypeOK'
    BY <1>12, AdvanceEffect
      DEF StartFinish, cluster, CallsOK, ClusterOK, HistoryOK, LeftOK
  <1>13. ASSUME NEW p \in Replicas, Info(p) PROVE TypeOK'
    BY <1>13, CallToEffect, SpendEffect
      DEF Info, At, cluster, CallsOK, ClusterOK, HistoryOK, RowOK, StartsOK
  <1>14. ASSUME NEW p \in Replicas, WriteRead(p) PROVE TypeOK'
    BY <1>14, CallToEffect, SpendEffect
      DEF WriteRead, At, Usable, cluster, CallsOK, ClusterOK, HistoryOK,
          RowOK, StartsOK
  <1>15. ASSUME NEW p \in Replicas, PauseRead(p) PROVE TypeOK'
    BY <1>15, CallToEffect, SpendEffect
      DEF PauseRead, At, Transitions, cluster, CallsOK, ClusterOK, HistoryOK,
          RowOK, StartsOK
  <1>16. ASSUME NEW p \in Replicas, ResumeRead(p) PROVE TypeOK'
    BY <1>16, CallToEffect, SpendEffect
      DEF ResumeRead, At, cluster, CallsOK, ClusterOK, HistoryOK, RowOK,
          StartsOK
  <1>17. ASSUME NEW p \in Replicas, Sweep(p) PROVE TypeOK'
    BY <1>17, CopyEffect
      DEF Sweep, SweepRead, At, cluster, ClusterOK, HistoryOK, LeftOK, RowOK,
          StartsOK
  <1>18. ASSUME NEW p \in Replicas, DestroyRead(p) PROVE TypeOK'
    BY <1>18, SpendEffect, CopyEffect
      DEF DestroyRead, At, Transitions, cluster, ClusterOK, HistoryOK, RowOK,
          StartsOK
  <1>19. ASSUME NEW p \in Replicas, InfoSchedules(p) PROVE TypeOK'
    BY <1>19, ReturnEffect, ScheduleEffect
      DEF InfoSchedules, At, cluster, ClusterOK, HistoryOK, LeftOK, RowOK
  <1>20. ASSUME NEW p \in Replicas, Activate(p) PROVE TypeOK'
    BY <1>20, SetRowEffect, CallToEffect, ReturnEffect
      DEF Activate, At, Activatable, cluster, CallsOK, ClusterOK, HistoryOK,
          LeftOK, RowOK, StartsOK
  <1>21. ASSUME NEW p \in Replicas, WriteFile(p) PROVE TypeOK'
    <2>1. PICK w \in Writes \ history.accepted :
            /\ disk' = disk \cup {w}
            /\ history' = [history EXCEPT !.accepted = @ \cup {w}]
      BY <1>21 DEF WriteFile
    <2>2. ClusterOK' /\ HistoryOK'
      BY <1>21, <2>1 DEF WriteFile, ClusterOK, HistoryOK
    <2>3. CallsOK'
      BY <1>21, ReturnEffect DEF WriteFile
    <2>4. QED
      BY <1>21, <2>2, <2>3 DEF WriteFile, LeftOK, RowOK, StartsOK
  <1>22. ASSUME NEW p \in Replicas, WriteFails(p) PROVE TypeOK'
    BY <1>22, ReturnEffect
      DEF WriteFails, At, cluster, ClusterOK, HistoryOK, LeftOK, RowOK,
          StartsOK
  <1>23. ASSUME NEW p \in Replicas, SaveNow(p) PROVE TypeOK'
    BY <1>23, ReturnEffect, ArchiveEffect
      DEF SaveNow, At, cluster, ClusterOK, LeftOK, StartsOK
  <1>24. ASSUME NEW p \in Replicas, PauseSave(p) PROVE TypeOK'
    BY <1>24, CallToEffect, ReturnEffect, ArchiveEffect
      DEF PauseSave, At, cluster, CallsOK, ClusterOK, HistoryOK, LeftOK,
          RowOK, StartsOK
  <1>25. ASSUME NEW p \in Replicas, PauseStop(p) PROVE TypeOK'
    BY <1>25, CallToEffect, ReturnEffect, ClusterEffect
      DEF PauseStop, At, cluster, CallsOK, ClusterOK, HistoryOK, LeftOK,
          RowOK, StartsOK
  <1>26. ASSUME NEW p \in Replicas, PauseMark(p) PROVE TypeOK'
    BY <1>26, TransitionEffect, ReturnEffect
      DEF PauseMark, At, cluster, ClusterOK, HistoryOK, LeftOK, RowOK,
          StartsOK
  <1>27. ASSUME NEW p \in Replicas, ResumeResources(p) PROVE TypeOK'
    BY <1>27, CallToEffect, ReturnEffect, ClusterEffect, NoteAnewEffect
      DEF ResumeResources, At, CallsOK, LeftOK, RowOK, StartsOK
  <1>28. ASSUME NEW p \in Replicas, ResumeFailed(p) PROVE TypeOK'
    BY <1>28, MarkStartupFailedEffect, ReturnEffect
      DEF ResumeFailed, At, cluster, ClusterOK, HistoryOK, LeftOK, RowOK,
          StartsOK
  <1>29. ASSUME NEW p \in Replicas, ResumeMark(p) PROVE TypeOK'
    BY <1>29, TransitionEffect, ReturnEffect
      DEF ResumeMark, At, cluster, ClusterOK, HistoryOK, LeftOK, RowOK,
          StartsOK
  <1>30. ASSUME NEW p \in Replicas, DestroyClaim(p) PROVE TypeOK'
    BY <1>30, SetRowEffect, CallToEffect, BeginRecycleEffect
      DEF DestroyClaim, At, cluster, CallsOK, ClusterOK, LeftOK, RowOK,
          StartsOK
  <1>31. ASSUME NEW p \in Replicas, LockRecycle(p) PROVE TypeOK'
    BY <1>31, CallToEffect, BeginRecycleEffect, SetRowEffect
      DEF LockRecycle, At, AfterLock, LockRow, cluster, CallsOK, ClusterOK,
          LeftOK, RowOK, StartsOK
  <1>32. ASSUME NEW p \in Replicas, RelockRecycle(p) PROVE TypeOK'
    BY <1>32, CallToEffect, SetRowEffect
      DEF RelockRecycle, At, AfterLock, LockRow, cluster, CallsOK, ClusterOK,
          HistoryOK, LeftOK, RowOK, StartsOK
  <1>33. ASSUME NEW p \in Replicas, EnsureAccess(p) PROVE TypeOK'
    BY <1>33, CallToEffect, ClusterEffect, NoteAnewEffect
      DEF EnsureAccess, At, CallsOK, LeftOK, RowOK, StartsOK
  <1>34. ASSUME NEW p \in Replicas, SaveFinal(p) PROVE TypeOK'
    BY <1>34, CallToEffect, ArchiveEffect
      DEF SaveFinal, At, cluster, CallsOK, ClusterOK, LeftOK, StartsOK
  <1>35. ASSUME NEW p \in Replicas, SaveFails(p) PROVE TypeOK'
    <2>1. ClusterOK'
      BY <1>35, ClusterEffect DEF SaveFails, cluster, ClusterOK
    <2>2. CallsOK'
      BY <1>35, CallToEffect DEF SaveFails
    <2>3. HistoryOK'
      BY <1>35 DEF SaveFails, MadeAnew, HistoryOK
    <2>4. QED
      BY <1>35, <2>1, <2>2, <2>3 DEF SaveFails, LeftOK, RowOK, StartsOK
  <1>36. ASSUME NEW p \in Replicas, DeleteNamespace(p) PROVE TypeOK'
    BY <1>36, CallToEffect, ClusterEffect
      DEF DeleteNamespace, At, CallsOK, HistoryOK, LeftOK, RowOK, StartsOK
  <1>37. ASSUME NEW p \in Replicas, DeleteFails(p) PROVE TypeOK'
    BY <1>37, CallToEffect, ClusterEffect
      DEF DeleteFails, At, cluster, CallsOK, ClusterOK, HistoryOK, LeftOK,
          RowOK, StartsOK
  <1>38. ASSUME NEW p \in Replicas, RecycleFailed(p) PROVE TypeOK'
    BY <1>38, SetRowEffect, ReturnEffect
      DEF RecycleFailed, At, cluster, CallsOK, ClusterOK, HistoryOK, LeftOK,
          RowOK, StartsOK
  <1>39. ASSUME NEW p \in Replicas, FinishRecycle(p) PROVE TypeOK'
    BY <1>39, SetRowEffect, ReturnEffect
      DEF FinishRecycle, At, cluster, CallsOK, ClusterOK, HistoryOK,
          LeftOK, RowOK, StartsOK
  <1>40. ASSUME NEW p \in Replicas, AutoSave(p) PROVE TypeOK'
    BY <1>40, ArchiveEffect
      DEF AutoSave, cluster, CallsOK, ClusterOK, HistoryOK, LeftOK, RowOK,
          StartsOK
  <1>41. ASSUME NEW p \in Replicas, Crash(p) PROVE TypeOK'
    BY <1>41, StartToEffect, ReturnEffect, SpendEffect
      DEF Crash, cluster, ClusterOK, HistoryOK, RowOK
  <1>42. CASE UNCHANGED vars
    BY <1>42 DEF vars, cluster, RowOK, ClusterOK, StartsOK, CallsOK, HistoryOK,
       LeftOK
  <1>43. QED
    BY <1>1, <1>2, <1>3, <1>4, <1>5, <1>6, <1>7, <1>8, <1>9, <1>10, <1>11,
       <1>12, <1>13, <1>14, <1>15, <1>16, <1>17, <1>18, <1>19, <1>20, <1>21,
       <1>22, <1>23, <1>24, <1>25, <1>26, <1>27, <1>28, <1>29, <1>30, <1>31,
       <1>32, <1>33, <1>34, <1>35, <1>36, <1>37, <1>38, <1>39, <1>40, <1>41,
       <1>42 DEF Next, Start, Begin,
       Continue

-----------------------------------------------------------------------------
(* The status of the row: it never becomes "creating" again, and what the  *)
(* recycle or a failure has ended is not opened again.                     *)

\* Only a sandbox in creation has nothing allocated.
PhaseOK ==
    row.status \in Open /\ row.phase = "allocating" => row.status = "creating"

StatusStep ==
    /\ PhaseOK'
    /\ row'.status = "creating" => row.status = "creating"
    /\ row.status \in Gone => row'.status \in Gone
    /\ row.status = "failed" => row'.status \in Gone \cup {"failed"}

EndStep ==
    /\ row'.status = "destroyed"
          => row.status = "destroyed" \/ announced' \/ creation' = "refused"
    /\ announced => announced'
    /\ announced' => announced \/ row'.status = "destroyed"
    /\ creation = "refused" => creation' = "refused"

LEMMA StatusSteps ==
  ASSUME TypeOK, PhaseOK, [Next]_vars
  PROVE  StatusStep /\ EndStep
  <1> USE DEF TypeOK, PhaseOK, StatusStep, EndStep
  <1>1. CASE RefuseRow
    BY <1>1, SetRowEffect DEF RefuseRow
  <1>2. CASE MarkIdle
    BY <1>2, SetRowEffect DEF MarkIdle, RowOK
  <1>3. ASSUME NEW p \in Replicas, StartMark(p)
         PROVE  StatusStep /\ EndStep
    BY <1>3, MarkStartupFailedEffect DEF StartMark, RowOK
  <1>4. ASSUME NEW p \in Replicas, StartReady(p)
         PROVE  StatusStep /\ EndStep
    BY <1>4, AdvanceEffect DEF StartReady, Unstarted
  <1>5. ASSUME NEW p \in Replicas, StartInit(p)
         PROVE  StatusStep /\ EndStep
    BY <1>5, AdvanceEffect DEF StartInit
  <1>6. ASSUME NEW p \in Replicas, StartFinish(p)
         PROVE  StatusStep /\ EndStep
    BY <1>6, AdvanceEffect DEF StartFinish
  <1>7. ASSUME NEW p \in Replicas, Activate(p)
         PROVE  StatusStep /\ EndStep
    BY <1>7, SetRowEffect DEF Activate, Activatable, RowOK
  <1>8. ASSUME NEW p \in Replicas, SaveNow(p)
         PROVE  StatusStep /\ EndStep
    BY <1>8, ArchiveEffect DEF SaveNow
  <1>9. ASSUME NEW p \in Replicas, AutoSave(p)
         PROVE  StatusStep /\ EndStep
    BY <1>9, ArchiveEffect DEF AutoSave
  <1>10. ASSUME NEW p \in Replicas, PauseSave(p)
         PROVE  StatusStep /\ EndStep
    BY <1>10, ArchiveEffect DEF PauseSave
  <1>11. ASSUME NEW p \in Replicas, PauseMark(p)
         PROVE  StatusStep /\ EndStep
    BY <1>11, TransitionEffect DEF PauseMark, Transitions, RowOK
  <1>12. ASSUME NEW p \in Replicas, ResumeFailed(p)
         PROVE  StatusStep /\ EndStep
    BY <1>12, MarkStartupFailedEffect DEF ResumeFailed, RowOK
  <1>13. ASSUME NEW p \in Replicas, ResumeMark(p)
         PROVE  StatusStep /\ EndStep
    BY <1>13, TransitionEffect DEF ResumeMark, Transitions, RowOK
  <1>14. ASSUME NEW p \in Replicas, DestroyClaim(p)
         PROVE  StatusStep /\ EndStep
    BY <1>14, SetRowEffect DEF DestroyClaim, RowOK, CallsOK
  <1>15. ASSUME NEW p \in Replicas, LockRecycle(p)
         PROVE  StatusStep /\ EndStep
    BY <1>15, SetRowEffect DEF LockRecycle, LockRow, RowOK, CallsOK
  <1>16. ASSUME NEW p \in Replicas, RelockRecycle(p)
         PROVE  StatusStep /\ EndStep
    BY <1>16, SetRowEffect DEF RelockRecycle, LockRow, RowOK, CallsOK
  <1>17. ASSUME NEW p \in Replicas, SaveFinal(p)
         PROVE  StatusStep /\ EndStep
    BY <1>17, ArchiveEffect DEF SaveFinal
  <1>18. ASSUME NEW p \in Replicas, RecycleFailed(p)
         PROVE  StatusStep /\ EndStep
    BY <1>18, SetRowEffect DEF RecycleFailed, RowOK, CallsOK
  <1>19. ASSUME NEW p \in Replicas, FinishRecycle(p)
         PROVE  StatusStep /\ EndStep
    BY <1>19, SetRowEffect DEF FinishRecycle, RowOK, CallsOK
  <1>20. CASE AuditFails \/ RefuseNamespace
    BY <1>20 DEF AuditFails, RefuseNamespace, SweepRead
  <1>21. ASSUME NEW p \in Replicas,
                Audited(p) \/ StartResources(p) \/ StartCleanup(p)
                \/ StartTools(p) \/ StartInitialise(p) \/ Info(p)
                \/ WriteRead(p) \/ PauseRead(p) \/ ResumeRead(p) \/ Sweep(p)
                \/ DestroyRead(p) \/ InfoSchedules(p) \/ WriteFile(p)
                \/ WriteFails(p) \/ PauseStop(p) \/ ResumeResources(p)
                \/ EnsureAccess(p) \/ SaveFails(p) \/ DeleteNamespace(p)
                \/ DeleteFails(p) \/ Crash(p)
         PROVE  StatusStep /\ EndStep
    BY <1>21
      DEF Audited, StartResources, StartTools, StartCleanup, StartInitialise,
          Info, WriteRead, PauseRead, ResumeRead, Sweep, DestroyRead,
          InfoSchedules,
          WriteFile, WriteFails, PauseStop, ResumeResources, EnsureAccess,
          SaveFails, DeleteNamespace, DeleteFails, Crash, SweepRead
  <1>22. CASE UNCHANGED vars
    BY <1>22 DEF vars, SweepRead
  <1>23. QED
    BY <1>1, <1>2, <1>3, <1>4, <1>5, <1>6, <1>7, <1>8, <1>9, <1>10, <1>11,
       <1>12, <1>13, <1>14, <1>15, <1>16, <1>17, <1>18, <1>19, <1>20, <1>21,
       <1>22
       DEF Next, Start, Begin, Continue

-----------------------------------------------------------------------------
(* The gate of the initialisation.                                         *)

GateOK == \A p \in Replicas : Initialises(p) => row.status # "creating"

\* A start passes the gate only by taking the sandbox out of creation.
GateStep ==
    \/ \A p \in Replicas : Initialises(p)' => Initialises(p)
    \/ /\ row.status = "creating" /\ row'.status # "creating"
       /\ \E p \in Replicas : \A q \in Replicas \ {p} :
             Initialises(q)' => Initialises(q)

LEMMA GateSteps ==
  ASSUME TypeOK, [Next]_vars
  PROVE  GateStep
  <1> USE DEF TypeOK, Initialises, GateStep
  <1>1. ASSUME NEW p \in Replicas, Audited(p) PROVE GateStep
    BY <1>1, ScheduleEffect DEF Audited
  <1>2. ASSUME NEW p \in Replicas, InfoSchedules(p) PROVE GateStep
    BY <1>2, ScheduleEffect DEF InfoSchedules
  <1>3. ASSUME NEW p \in Replicas, StartResources(p) \/ StartTools(p)
        PROVE  GateStep
    BY <1>3, StartToEffect DEF StartResources, StartTools
  <1>4. ASSUME NEW p \in Replicas, StartCleanup(p) PROVE GateStep
    BY <1>4, StartToEffect DEF StartCleanup
  <1>5. ASSUME NEW p \in Replicas, StartMark(p) PROVE GateStep
    BY <1>5, StartToEffect DEF StartMark
  <1>6. ASSUME NEW p \in Replicas, StartReady(p) PROVE GateStep
    BY <1>6, AdvanceEffect DEF StartReady, Unstarted
  <1>7. ASSUME NEW p \in Replicas, StartInit(p) PROVE GateStep
    BY <1>7, AdvanceEffect DEF StartInit
  <1>8. ASSUME NEW p \in Replicas, StartInitialise(p) PROVE GateStep
    BY <1>8, StartToEffect DEF StartInitialise
  <1>9. ASSUME NEW p \in Replicas, StartFinish(p) PROVE GateStep
    BY <1>9, AdvanceEffect DEF StartFinish
  <1>10. ASSUME NEW p \in Replicas, Crash(p) PROVE GateStep
    BY <1>10, StartToEffect DEF Crash
  <1>11. CASE AuditFails \/ RefuseNamespace \/ RefuseRow \/ MarkIdle
    BY <1>11 DEF AuditFails, RefuseNamespace, RefuseRow, MarkIdle, SweepRead
  <1>12. ASSUME NEW p \in Replicas,
                Info(p) \/ WriteRead(p) \/ PauseRead(p) \/ ResumeRead(p)
                \/ Sweep(p) \/ DestroyRead(p) \/ Activate(p) \/ WriteFile(p)
                \/ WriteFails(p) \/ SaveNow(p) \/ PauseSave(p)
                \/ PauseStop(p) \/ PauseMark(p) \/ ResumeResources(p)
                \/ ResumeFailed(p) \/ ResumeMark(p) \/ DestroyClaim(p)
                \/ LockRecycle(p) \/ RelockRecycle(p) \/ EnsureAccess(p)
                \/ SaveFinal(p) \/ SaveFails(p) \/ DeleteNamespace(p)
                \/ DeleteFails(p) \/ RecycleFailed(p) \/ FinishRecycle(p)
                \/ AutoSave(p)
         PROVE  GateStep
    BY <1>12
      DEF Info, WriteRead, PauseRead, ResumeRead, Sweep, DestroyRead,
          Activate, WriteFile, WriteFails, SaveNow, PauseSave, PauseStop,
          PauseMark, ResumeResources, ResumeFailed, ResumeMark, DestroyClaim,
          LockRecycle, RelockRecycle, EnsureAccess, SaveFinal, SaveFails,
          DeleteNamespace, DeleteFails, RecycleFailed, FinishRecycle, AutoSave,
          SweepRead
  <1>13. CASE UNCHANGED vars
    BY <1>13 DEF vars, SweepRead
  <1>14. QED
    BY <1>1, <1>2, <1>3, <1>4, <1>5, <1>6, <1>7, <1>8, <1>9, <1>10, <1>11,
       <1>12, <1>13
       DEF Next, Start, Begin, Continue

-----------------------------------------------------------------------------
(* The work of the users.  A recycler has begun once it has locked the row.*)

Begun(p) ==
    calls[p].step \in {"relock", "ensure", "save", "delete", "finish",
                      "failed"}
Writing(p)   == calls[p].step \in {"activate", "write"}
Beginning(p) == calls[p].step \in {"claim", "lock"}

\* Nothing is written before the sandbox has left its creation.
FreshOK ==
    row.status = "creating"
      => history.accepted = {} /\ \A p \in Replicas : ~Writing(p)

\* What a copy says that owes no final save, or that was read while the sandbox
\* was being recycled.
CopyOK(p) ==
    Beginning(p) =>
      /\ ~calls[p].persist => \/ calls[p].status \in {"failed", "recycling"}
                             \/ calls[p].phase = "allocating"
      /\ calls[p].status = "recycling" => row.status \in Gone

\* Work is taken over only by a recycle, and none begins without the row.
TakenOK ==
    /\ \A p \in Replicas : Begun(p) => row.status \in Gone
    /\ row.status \notin Gone => history.locked = {}

\* The volume keeps the accepted writes, and the archive those that a recycle
\* has taken over before any recycler deletes the volume.
KeptOK ==
    /\ row.status \notin Gone => history.accepted \subseteq disk
    /\ \/ history.locked \subseteq disk
       \/ ns = "none" /\ history.locked \subseteq Archived
    /\ \A p \in Replicas :
          calls[p].step = "delete" => history.locked \subseteq Archived
    /\ \A p \in Replicas :
          Begun(p) /\ ~calls[p].persist => history.locked = {}

WorkOK ==
    /\ FreshOK
    /\ \A p \in Replicas : CopyOK(p)
    /\ history.locked \subseteq history.accepted
    /\ TakenOK
    /\ ~history.rough => KeptOK

\* A step that neither writes, nor begins a recycle, nor deletes.
PlainCall(p) ==
    /\ Begun(p)' => Begun(p) /\ calls'[p].persist = calls[p].persist
    /\ calls'[p].step = "delete"
          => \/ calls[p].step = "delete"
             \/ Begun(p) /\ ~calls[p].persist
             \/ row'.saved = disk /\ ns = "up"
    /\ Writing(p)' => Writing(p) \/ row'.status # "creating"
    /\ Beginning(p)' =>
         \/ /\ Beginning(p)
            /\ calls'[p] = calls[p]
         \/ /\ calls'[p].status = row.status
            /\ ~calls'[p].persist => \/ row.status \in {"failed", "recycling"}
                                    \/ row.phase = "allocating"
            /\ calls'[p].phase = row.phase /\ row' = row

Plain ==
    /\ row'.saved = row.saved \/ (row'.saved = disk /\ ns = "up")
    /\ history'.accepted = history.accepted
    /\ history'.locked = history.locked
    /\ history.rough => history'.rough
    /\ ~history'.rough => disk \subseteq disk'
    /\ ~history'.rough /\ ns = "none" => ns' = "none" \/ history.locked = {}
    /\ \A p \in Replicas : PlainCall(p)

Special(p) ==
    \/ WriteFile(p) \/ DestroyClaim(p) \/ LockRecycle(p)
    \/ DeleteNamespace(p) \/ DeleteFails(p)

LEMMA PlainSteps ==
  ASSUME TypeOK, WorkOK, [Next]_vars
  PROVE  Plain \/ \E p \in Replicas : Special(p)
  <1> USE DEF TypeOK, Plain, PlainCall, Begun, Writing, Beginning
  <1>1. CASE AuditFails
    BY <1>1 DEF AuditFails, cluster
  <1>2. CASE RefuseNamespace
    BY <1>2 DEF RefuseNamespace, Disturb, RemoveNamespace, cluster, HistoryOK
  <1>3. CASE RefuseRow
    BY <1>3, SetRowEffect DEF RefuseRow, cluster, RowOK
  <1>4. CASE MarkIdle
    BY <1>4, SetRowEffect DEF MarkIdle, cluster, RowOK
  <1>5. ASSUME NEW p \in Replicas, Audited(p) PROVE Plain
    BY <1>5 DEF Audited, cluster
  <1>6. ASSUME NEW p \in Replicas, StartResources(p) \/ StartTools(p)
        PROVE  Plain
    BY <1>6, NoteAnewEffect
      DEF StartResources, StartTools, Provision, ProvisionFails, MadeAnew
  <1>7. ASSUME NEW p \in Replicas, StartCleanup(p) PROVE Plain
    BY <1>7 DEF StartCleanup, Disturb, RemoveNamespace, cluster, HistoryOK
  <1>8. ASSUME NEW p \in Replicas, StartMark(p) PROVE Plain
    BY <1>8, MarkStartupFailedEffect DEF StartMark, cluster, RowOK
  <1>9. ASSUME NEW p \in Replicas, StartReady(p) PROVE Plain
    BY <1>9, AdvanceEffect DEF StartReady, Unstarted, cluster, RowOK
  <1>10. ASSUME NEW p \in Replicas, StartInit(p) PROVE Plain
    BY <1>10, AdvanceEffect DEF StartInit, cluster, RowOK
  <1>11. ASSUME NEW p \in Replicas, StartInitialise(p) PROVE Plain
    BY <1>11 DEF StartInitialise, cluster
  <1>12. ASSUME NEW p \in Replicas, StartFinish(p) PROVE Plain
    BY <1>12, AdvanceEffect DEF StartFinish, cluster, RowOK
  <1>13. ASSUME NEW p \in Replicas, Info(p) PROVE Plain
    BY <1>13, CallToEffect DEF Info, At, cluster
  <1>14. ASSUME NEW p \in Replicas, WriteRead(p) PROVE Plain
    BY <1>14, CallToEffect DEF WriteRead, At, Usable, cluster
  <1>15. ASSUME NEW p \in Replicas, PauseRead(p) PROVE Plain
    BY <1>15, CallToEffect DEF PauseRead, At, Transitions, cluster
  <1>16. ASSUME NEW p \in Replicas, ResumeRead(p) PROVE Plain
    BY <1>16, CallToEffect DEF ResumeRead, At, cluster
  <1>17. ASSUME NEW p \in Replicas, Sweep(p) PROVE Plain
    <2>1. ~calls'[p].persist => \/ row.status \in {"failed", "recycling"}
                               \/ row.phase = "allocating"
      BY <1>17, CopyEffect DEF Sweep, SweepRead, Persists
    <2>2. QED
      BY <1>17, <2>1, CopyEffect DEF Sweep, SweepRead, At, cluster
  <1>18. ASSUME NEW p \in Replicas, DestroyRead(p) PROVE Plain
    <2>1. ~calls'[p].persist => \/ row.status \in {"failed", "recycling"}
                               \/ row.phase = "allocating"
      BY <1>18, CopyEffect DEF DestroyRead, Persists
    <2>2. QED
      BY <1>18, <2>1, CopyEffect DEF DestroyRead, At, cluster
  <1>19. ASSUME NEW p \in Replicas, InfoSchedules(p) PROVE Plain
    BY <1>19, ReturnEffect DEF InfoSchedules, At, cluster
  <1>20. ASSUME NEW p \in Replicas, Activate(p) PROVE Plain
    BY <1>20, SetRowEffect, CallToEffect, ReturnEffect
      DEF Activate, At, Activatable, cluster, RowOK
  <1>21. ASSUME NEW p \in Replicas, WriteFails(p) PROVE Plain
    BY <1>21, ReturnEffect DEF WriteFails, At, cluster
  <1>22. ASSUME NEW p \in Replicas, SaveNow(p) PROVE Plain
    BY <1>22, ReturnEffect, ArchiveEffect DEF SaveNow, At, cluster
  <1>23. ASSUME NEW p \in Replicas, PauseSave(p) PROVE Plain
    BY <1>23, CallToEffect, ReturnEffect, ArchiveEffect
      DEF PauseSave, At, cluster
  <1>24. ASSUME NEW p \in Replicas, PauseStop(p) PROVE Plain
    BY <1>24, CallToEffect, ReturnEffect
      DEF PauseStop, StopCompute, At, cluster
  <1>25. ASSUME NEW p \in Replicas, PauseMark(p) PROVE Plain
    BY <1>25, TransitionEffect, ReturnEffect DEF PauseMark, At, cluster, RowOK
  <1>26. ASSUME NEW p \in Replicas, ResumeResources(p) PROVE Plain
    BY <1>26, CallToEffect, ReturnEffect, NoteAnewEffect
      DEF ResumeResources, Provision, ProvisionFails, StopCompute, MadeAnew, At
  <1>27. ASSUME NEW p \in Replicas, ResumeFailed(p) PROVE Plain
    BY <1>27, MarkStartupFailedEffect, ReturnEffect
      DEF ResumeFailed, At, cluster, RowOK
  <1>28. ASSUME NEW p \in Replicas, ResumeMark(p) PROVE Plain
    BY <1>28, TransitionEffect, ReturnEffect DEF ResumeMark, At, cluster, RowOK
  <1>29. ASSUME NEW p \in Replicas, RelockRecycle(p) PROVE Plain
    BY <1>29, CallToEffect, SetRowEffect
      DEF RelockRecycle, At, LockRow, AfterLock, cluster, RowOK, CallsOK
  <1>30. ASSUME NEW p \in Replicas, EnsureAccess(p) PROVE Plain
    <2>1. calls[p].persist
      BY <1>30 DEF EnsureAccess, At, CallsOK
    <2>2. QED
      BY <1>30, <2>1, CallToEffect, NoteAnewEffect
        DEF EnsureAccess, At, Provision, MadeAnew
  <1>31. ASSUME NEW p \in Replicas, SaveFinal(p) PROVE Plain
    BY <1>31, CallToEffect, ArchiveEffect DEF SaveFinal, At, cluster
  <1>32. ASSUME NEW p \in Replicas, SaveFails(p) PROVE Plain
    <2>1. /\ history'.accepted = history.accepted
          /\ history'.locked = history.locked
          /\ history.rough => history'.rough
          /\ ~history'.rough => ~MadeAnew
      BY <1>32 DEF SaveFails, MadeAnew, HistoryOK
    <2>2. row' = row /\ disk' = disk
      BY <1>32 DEF SaveFails, ProvisionFails, cluster
    <2>3. ~history'.rough /\ ns = "none" => ns' = "none" \/ history.locked = {}
      BY <2>1 DEF MadeAnew
    <2>4. \A q \in Replicas : PlainCall(q)
      BY <1>32, <2>2, CallToEffect DEF SaveFails, At
    <2>5. QED
      BY <2>1, <2>2, <2>3, <2>4
  <1>33. ASSUME NEW p \in Replicas, RecycleFailed(p) PROVE Plain
    BY <1>33, SetRowEffect, ReturnEffect
      DEF RecycleFailed, At, cluster, RowOK, CallsOK
  <1>34. ASSUME NEW p \in Replicas, FinishRecycle(p) PROVE Plain
    BY <1>34, SetRowEffect, ReturnEffect
      DEF FinishRecycle, At, cluster, RowOK, CallsOK
  <1>35. ASSUME NEW p \in Replicas, AutoSave(p) PROVE Plain
    BY <1>35, ArchiveEffect DEF AutoSave, cluster
  <1>36. ASSUME NEW p \in Replicas, Crash(p) PROVE Plain
    BY <1>36, ReturnEffect DEF Crash, cluster
  <1>37. CASE UNCHANGED vars
    BY <1>37 DEF vars, cluster
  <1>38. QED
    BY <1>1, <1>2, <1>3, <1>4, <1>5, <1>6, <1>7, <1>8, <1>9, <1>10, <1>11,
       <1>12, <1>13, <1>14, <1>15, <1>16, <1>17, <1>18, <1>19, <1>20, <1>21,
       <1>22, <1>23, <1>24, <1>25, <1>26, <1>27, <1>28, <1>29, <1>30, <1>31,
       <1>32, <1>33, <1>34, <1>35, <1>36, <1>37
       DEF Next, Start, Begin, Continue, Special

LEMMA PlainWork ==
  ASSUME TypeOK, TypeOK', WorkOK, StatusStep, Plain
  PROVE  WorkOK'
  <1>1. FreshOK'
    BY DEF WorkOK, FreshOK, StatusStep, Plain, PlainCall
  <1>2. ASSUME NEW p \in Replicas, Beginning(p)' PROVE CopyOK(p)'
    <2>1. CASE Beginning(p) /\ calls'[p] = calls[p]
      BY <2>1 DEF WorkOK, CopyOK, Beginning, StatusStep
    <2>2. CASE /\ calls'[p].status = row.status
               /\ ~calls'[p].persist => \/ row.status \in {"failed", "recycling"}
                                       \/ row.phase = "allocating"
               /\ calls'[p].phase = row.phase /\ row' = row
      BY <2>2 DEF CopyOK
    <2>3. QED
      BY <1>2, <2>1, <2>2 DEF Plain, PlainCall
  <1>3. history'.locked \subseteq history'.accepted
    BY DEF WorkOK, Plain
  <1>4. TakenOK'
    BY DEF WorkOK, TakenOK, StatusStep, Plain, PlainCall
  <1>5. ASSUME ~history'.rough PROVE KeptOK'
    <2>1. KeptOK /\ disk \subseteq disk'
      BY <1>5 DEF WorkOK, Plain
    <2>2. row'.status \notin Gone => history'.accepted \subseteq disk'
      BY <2>1 DEF KeptOK, StatusStep, Plain
    <2>3. \/ history'.locked \subseteq disk'
          \/ ns' = "none" /\ history'.locked \subseteq Archived'
      <3>1. CASE history.locked \subseteq disk
        BY <2>1, <3>1 DEF Plain
      <3>2. CASE ns = "none" /\ history.locked \subseteq Archived
        BY <1>5, <3>2 DEF Plain, Archived
      <3>3. QED
        BY <2>1, <3>1, <3>2 DEF KeptOK
    <2>4. ASSUME NEW p \in Replicas, calls'[p].step = "delete"
          PROVE  history'.locked \subseteq Archived'
      <3>1. CASE row'.saved = disk /\ ns = "up"
        <4>1. history.locked \subseteq disk
          BY <2>1, <3>1 DEF KeptOK
        <4>2. QED
          BY <3>1, <4>1 DEF Plain, Archived, TypeOK, ClusterOK
      <3>2. CASE calls[p].step = "delete" /\ row'.saved = row.saved
        BY <2>1, <3>2 DEF KeptOK, Plain, Archived
      <3>3. CASE Begun(p) /\ ~calls[p].persist
        BY <2>1, <3>3 DEF KeptOK, Plain
      <3>4. QED
        BY <2>4, <3>1, <3>2, <3>3 DEF Plain, PlainCall
    <2>5. \A p \in Replicas :
            Begun(p)' /\ ~calls'[p].persist => history'.locked = {}
      BY <2>1 DEF KeptOK, Plain, PlainCall
    <2>6. QED
      BY <2>2, <2>3, <2>4, <2>5 DEF KeptOK
  <1>6. QED
    BY <1>1, <1>2, <1>3, <1>4, <1>5 DEF WorkOK, CopyOK

LEMMA WriteWork ==
  ASSUME TypeOK, WorkOK, NEW p \in Replicas, WriteFile(p)
  PROVE  WorkOK'
  <1>1. PICK w \in Writes \ history.accepted :
          /\ disk' = disk \cup {w}
          /\ history' = [history EXCEPT !.accepted = @ \cup {w}]
    BY DEF WriteFile
  <1>2. /\ history'.accepted = history.accepted \cup {w}
        /\ history'.locked = history.locked
        /\ history'.rough = history.rough
    BY <1>1 DEF TypeOK, HistoryOK
  <1>3. /\ calls[p].step = "write" /\ calls'[p].step = "none"
        /\ \A q \in Replicas : q # p => calls'[q] = calls[q]
    BY ReturnEffect DEF WriteFile, At, TypeOK
  <1>4. row' = row /\ ns' = ns
    BY DEF WriteFile
  <1>5. FreshOK'
    BY <1>3, <1>4 DEF WorkOK, FreshOK, Writing
  <1>6. \A q \in Replicas : CopyOK(q)'
    BY <1>3, <1>4 DEF WorkOK, CopyOK, Beginning
  <1>7. history'.locked \subseteq history'.accepted
    BY <1>2 DEF WorkOK
  <1>8. TakenOK'
    BY <1>2, <1>3, <1>4 DEF WorkOK, TakenOK, Begun
  <1>9. ASSUME ~history'.rough PROVE KeptOK'
    BY <1>1, <1>2, <1>3, <1>4, <1>9
      DEF WorkOK, KeptOK, Begun, Archived
  <1>10. QED
    BY <1>5, <1>6, <1>7, <1>8, <1>9 DEF WorkOK

\* Both ways to begin a recycle.
LEMMA BeginWork ==
  ASSUME TypeOK, PhaseOK, WorkOK, StatusStep, NEW p \in Replicas,
         Beginning(p), BeginRecycle(calls[p]),
         row'.status \in Gone, row'.saved = row.saved,
         disk' = disk, ns' = ns, calls'[p].persist = calls[p].persist,
         \/ calls'[p].step \in {"relock", "ensure"}
         \/ calls'[p].step = "delete" /\ ~calls[p].persist,
         \A q \in Replicas : q # p => calls'[q] = calls[q]
  PROVE  WorkOK'
  <1>1. /\ history'.accepted = history.accepted
        /\ history'.locked = (IF row.status \in Gone THEN history.locked
                                                     ELSE history.accepted)
        /\ history.rough => history'.rough
        /\ ~history'.rough => calls[p].persist \/ First(calls[p])
    BY BeginRecycleEffect DEF TypeOK, CallsOK
  <1>2. FreshOK'
    BY <1>1 DEF WorkOK, FreshOK, Writing, StatusStep
  <1>3. \A q \in Replicas : CopyOK(q)'
    BY DEF WorkOK, CopyOK, Beginning
  <1>4. history'.locked \subseteq history'.accepted
    BY <1>1 DEF WorkOK
  <1>5. TakenOK'
    BY DEF TakenOK
  <1>6. ASSUME ~history'.rough PROVE KeptOK'
    <2>1. KeptOK
      BY <1>1, <1>6 DEF WorkOK
    <2>2. \/ history'.locked \subseteq disk'
          \/ ns' = "none" /\ history'.locked \subseteq Archived'
      BY <1>1, <2>1 DEF KeptOK, Archived
    <2>3. ASSUME ~calls[p].persist PROVE history'.locked = {}
      <3>1. First(calls[p])
        BY <1>1, <1>6, <2>3
      <3>2. row.phase = "allocating" /\ row.status \in Open
        BY <2>3, <3>1 DEF WorkOK, CopyOK, First
      <3>3. row.status = "creating"
        BY <3>2 DEF PhaseOK
      <3>4. QED
        BY <1>1, <3>3 DEF WorkOK, FreshOK
    <2>4. ASSUME NEW q \in Replicas, q # p, Begun(q)'
          PROVE  history'.locked = history.locked /\ Begun(q)
      BY <1>1, <2>4 DEF WorkOK, TakenOK, Begun
    <2>5. ASSUME NEW q \in Replicas, calls'[q].step = "delete"
          PROVE  history'.locked \subseteq Archived'
      <3>1. CASE q = p
        BY <2>3, <2>5, <3>1
      <3>2. CASE q # p
        BY <2>1, <2>4, <2>5, <3>2 DEF KeptOK, Begun, Archived
      <3>3. QED
        BY <3>1, <3>2
    <2>6. ASSUME NEW q \in Replicas, Begun(q)', ~calls'[q].persist
          PROVE  history'.locked = {}
      <3>1. CASE q = p
        BY <2>3, <2>6, <3>1
      <3>2. CASE q # p
        BY <2>1, <2>4, <2>6, <3>2 DEF KeptOK
      <3>3. QED
        BY <3>1, <3>2
    <2>7. QED
      BY <2>2, <2>5, <2>6 DEF KeptOK
  <1>7. QED
    BY <1>2, <1>3, <1>4, <1>5, <1>6 DEF WorkOK

LEMMA DeleteWork ==
  ASSUME TypeOK, WorkOK, NEW p \in Replicas,
         DeleteNamespace(p) \/ DeleteFails(p)
  PROVE  WorkOK'
  <1>1. /\ calls[p].step = "delete" /\ calls'[p].step \in {"finish", "failed"}
        /\ calls'[p].persist = calls[p].persist
        /\ \A q \in Replicas : q # p => calls'[q] = calls[q]
    BY CallToEffect DEF DeleteNamespace, DeleteFails, At, TypeOK
  <1>2. row' = row /\ history' = history
    BY DEF DeleteNamespace, DeleteFails
  <1>3. ns' = "none" \/ (ns' = ns /\ disk' = disk)
    BY DEF DeleteNamespace, DeleteFails, RemoveNamespace, cluster
  <1>4. FreshOK' /\ (\A q \in Replicas : CopyOK(q)') /\ TakenOK'
    BY <1>1, <1>2
      DEF WorkOK, FreshOK, CopyOK, TakenOK, Writing, Beginning, Begun
  <1>5. ASSUME ~history'.rough PROVE KeptOK'
    <2>1. KeptOK /\ Begun(p) /\ row'.status \in Gone
      BY <1>1, <1>2, <1>5 DEF WorkOK, TakenOK, Begun
    <2>2. history'.locked \subseteq Archived'
      BY <1>1, <1>2, <2>1 DEF KeptOK, Archived
    <2>3. \/ history'.locked \subseteq disk'
          \/ ns' = "none" /\ history'.locked \subseteq Archived'
      BY <1>2, <1>3, <2>1, <2>2 DEF KeptOK, Archived
    <2>4. \A q \in Replicas :
            Begun(q)' /\ ~calls'[q].persist => history'.locked = {}
      BY <1>1, <1>2, <2>1 DEF KeptOK, Begun
    <2>5. QED
      BY <2>1, <2>2, <2>3, <2>4 DEF KeptOK
  <1>6. QED
    BY <1>2, <1>4, <1>5 DEF WorkOK

LEMMA WorkSteps ==
  ASSUME TypeOK, TypeOK', PhaseOK, WorkOK, StatusStep, [Next]_vars
  PROVE  WorkOK'
  <1>1. CASE Plain
    BY <1>1, PlainWork
  <1>2. ASSUME NEW p \in Replicas, WriteFile(p) PROVE WorkOK'
    BY <1>2, WriteWork
  <1>3. ASSUME NEW p \in Replicas, DestroyClaim(p) PROVE WorkOK'
    <2>1. /\ calls[p].step = "claim" /\ calls'[p].step = "relock"
          /\ calls'[p].persist = calls[p].persist
          /\ \A q \in Replicas : q # p => calls'[q] = calls[q]
      BY <1>3, CallToEffect DEF DestroyClaim, At, TypeOK
    <2>2. /\ row'.status \in Gone /\ row'.saved = row.saved
          /\ disk' = disk /\ ns' = ns
      BY <1>3, SetRowEffect DEF DestroyClaim, cluster, TypeOK, CallsOK
    <2>3. QED
      BY <1>3, <2>1, <2>2, BeginWork DEF DestroyClaim, Beginning
  <1>4. ASSUME NEW p \in Replicas, LockRecycle(p) PROVE WorkOK'
    <2>1. /\ calls[p].step = "lock" /\ Beginning(p)
          /\ disk' = disk /\ ns' = ns
      BY <1>4 DEF LockRecycle, At, cluster, Beginning
    <2>2. /\ \/ calls'[p].step = "ensure"
             \/ calls'[p].step = "delete" /\ ~calls[p].persist
          /\ calls'[p].persist = calls[p].persist
          /\ \A q \in Replicas : q # p => calls'[q] = calls[q]
      BY <1>4, CallToEffect DEF LockRecycle, AfterLock, TypeOK
    <2>3. row'.status \in Gone /\ row'.saved = row.saved
      <3>1. CASE calls[p].status = "recycling"
        BY <1>4, <2>1, <3>1 DEF LockRecycle, LockRow, WorkOK, CopyOK
      <3>2. CASE calls[p].status # "recycling"
        BY <1>4, <3>2, SetRowEffect
          DEF LockRecycle, LockRow, TypeOK, CallsOK
      <3>3. QED
        BY <3>1, <3>2
    <2>4. QED
      BY <1>4, <2>1, <2>2, <2>3, BeginWork DEF LockRecycle
  <1>5. ASSUME NEW p \in Replicas, DeleteNamespace(p) \/ DeleteFails(p)
        PROVE  WorkOK'
    BY <1>5, DeleteWork
  <1>6. QED
    BY <1>1, <1>2, <1>3, <1>4, <1>5, PlainSteps DEF Special

-----------------------------------------------------------------------------
(* The inductive invariant and the theorems.                               *)

IInv == TypeOK /\ PhaseOK /\ Announced /\ GateOK /\ SingleInit /\ WorkOK

LEMMA InitIInv == Init => IInv
  <1> SUFFICES ASSUME Init PROVE IInv
    OBVIOUS
  <1>1. TypeOK
    BY InitTypeOK
  <1>2. \A p \in Replicas : ~Initialises(p)
    BY DEF Init, Initialises
  <1>3. PhaseOK /\ Announced /\ GateOK /\ SingleInit
    BY <1>2 DEF Init, PhaseOK, Announced, GateOK, SingleInit
  <1>4. \A p \in Replicas : calls[p].step = "none"
    BY DEF Init, NoCall
  <1>5. FreshOK /\ (\A p \in Replicas : CopyOK(p)) /\ TakenOK /\ KeptOK
    BY <1>4 DEF Init, FreshOK, Writing, CopyOK, Beginning, TakenOK, KeptOK, Begun
  <1>6. WorkOK
    BY <1>5 DEF Init, WorkOK
  <1>7. QED
    BY <1>1, <1>3, <1>6 DEF IInv

LEMMA NextIInv == IInv /\ [Next]_vars => IInv'
  <1> SUFFICES ASSUME IInv, [Next]_vars PROVE IInv'
    OBVIOUS
  <1>1. TypeOK' /\ StatusStep /\ EndStep /\ GateStep
    BY NextTypeOK, StatusSteps, GateSteps DEF IInv
  <1>2. PhaseOK'
    BY <1>1 DEF StatusStep
  <1>3. Announced'
    BY <1>1 DEF IInv, Announced, StatusStep, EndStep
  <1>4. GateOK'
    BY <1>1 DEF IInv, GateOK, GateStep, StatusStep
  <1>5. SingleInit'
    BY <1>1 DEF IInv, GateOK, GateStep, SingleInit
  <1>6. WorkOK'
    BY <1>1, WorkSteps DEF IInv
  <1>7. QED
    BY <1>1, <1>2, <1>3, <1>4, <1>5, <1>6 DEF IInv

LEMMA SpecIInv == Spec => []IInv
  <1>1. QED
    BY InitIInv, NextIInv, PTL DEF Spec

\* Every variable keeps its type, and a call makes a final save only when its
\* copy owes one.
THEOREM TypeCorrect == Spec => []TypeOK
  <1>1. IInv => TypeOK
    BY DEF IInv
  <1>2. QED
    BY <1>1, SpecIInv, PTL

\* No start, user or timer that has read a sandbox before its recycle or its
\* failure brings it back: advanceStartupState, markStartupFailed,
\* MarkSandboxActive and the checked transitions all look again.
THEOREM NeverReturns == Spec => NoReturn
  <1>1. IInv /\ [Next]_vars
          => [/\ row.status \in Gone => row'.status \in Gone
              /\ row.status = "failed"
                   => row'.status \in Gone \cup {"failed"}]_vars
    BY StatusSteps DEF IInv, StatusStep
  <1>2. QED
    BY <1>1, SpecIInv, PTL DEF Spec, NoReturn

\* Every destroyed sandbox has its recycled event recorded, unless its
\* creation was refused, and a recorded end is not undone.
THEOREM EndsAnnounced == Spec => []Announced
  <1>1. IInv => Announced
    BY DEF IInv
  <1>2. QED
    BY <1>1, SpecIInv, PTL

\* advanceStartupState lets one start of a sandbox pass its gate, however many
\* replicas have scheduled one.
THEOREM OneInitialisation == Spec => []SingleInit
  <1>1. IInv => SingleInit
    BY DEF IInv
  <1>2. QED
    BY <1>1, SpecIInv, PTL

\* However many recyclers overlap, and whatever starts, pauses, saves and writes
\* go on beside them, the work that was accepted before the recycle began is on
\* the volume or in the archive at every moment, until one of the three steps of
\* "rough" is taken: a cleanup of a failed start or refused creation removes a
\* workspace in use, a recycle other than the first owes no final save, or a
\* workspace is made anew after the recycle began.
THEOREM WorkSurvivesRecycle == Spec => []AcceptedWorkKept
  <1>1. IInv => AcceptedWorkKept
    BY DEF IInv, WorkOK, KeptOK, AcceptedWorkKept
  <1>2. QED
    BY <1>1, SpecIInv, PTL
=============================================================================
