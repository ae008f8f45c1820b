-------------------------- MODULE SandboxLifecycle --------------------------
(***************************************************************************)
(* One sandbox of the sandbox engine (M2): its row, its Kubernetes         *)
(* namespace with the workspace volume, the archived code, and the calls   *)
(* that the replicas of the backend run on it at the same time: starts,    *)
(* scheduled and requested recycles, pause, resume, and file writes.       *)
(*                                                                         *)
(* Every call reads the row in one transaction, works on the cluster, and  *)
(* writes the row in another.  Some of these writes lock and check the row *)
(* again and some overwrite it, so a call carries the copy it has read.    *)
(* Volume snapshots are left out: snapshot_enabled is false.               *)
(***************************************************************************)
EXTENDS Integers

CONSTANTS Replicas,      \* replicas of the backend
          Writes,        \* the file writes that users make
          NoCode,        \* the code pointer of a row that was never archived
          MaxCalls,      \* bound: calls of users, and requests to destroy
          MaxFaults      \* bound: crashes and failing audits

ASSUME BoundsAssumption == MaxCalls \in Nat /\ MaxFaults \in Nat
ASSUME NoCodeAssumption == \A code \in SUBSET Writes : code # NoCode

VARIABLES
    row,        \* the sandbox row: status, phase and archived code
    init,       \* the sandbox has assets, code or a script to apply
    creation,   \* the creating call: "audit", "cleanup", "done", "refused"
    ns,         \* the namespace: "none", "up", or "stopped" (volume only)
    disk,       \* the writes that the workspace volume holds
    starts,     \* the start of each replica: its next step
    calls,      \* the other call of each replica: its next step and copy
    timers,     \* replicas holding a debounced save
    announced,  \* the outbox holds a recycled event
    history,    \* accepted, locked, rough, unsaved (see Init); never read
    left        \* bounds: the calls and the faults that may still come

cluster == <<ns, disk>>
vars == <<row, init, creation, ns, disk, starts, calls, timers, announced,
          history, left>>

Open   == {"creating", "ready", "running", "idle", "paused"}
Gone   == {"recycling", "destroyed"}
Status == Open \cup Gone \cup {"failed"}
Phases == {"allocating", "ready", "initializing", "fully"}

\* validateStateTransition: the pairs of states a checked change may take.
Transitions ==
    {<<s, s>> : s \in Status}
      \cup ({"creating"} \X {"ready", "recycling", "failed"})
      \cup ({"ready"} \X {"running", "paused", "recycling", "failed"})
      \cup ({"running"} \X {"idle", "paused", "recycling", "failed"})
      \cup ({"idle"} \X {"running", "paused", "recycling", "failed"})
      \cup ({"paused"} \X {"running", "recycling"})
      \cup ({"failed"} \X {"recycling"})
      \cup ({"recycling"} \X {"destroyed", "failed"})

\* sandboxExecAllowed: the workspace is open to its user.
Usable(r) == r.phase \in {"ready", "fully"}
                /\ r.status \in {"ready", "running", "idle"}

StartSteps == {"none", "resources", "cleanup", "mark", "bootstrapped",
               "ready", "initializing", "applied", "initialised"}

RecycleSteps == {"claim", "relock", "lock", "ensure", "save", "delete",
                 "finish", "failed"}

CallSteps == {"none", "info", "activate", "write", "pauseSave", "pauseStop",
              "pauseMark", "resume", "resumeFailed", "resumeMark"}
                \cup RecycleSteps

NoCall == [step |-> "none", status |-> "destroyed", phase |-> "allocating",
           persist |-> FALSE]

\* Faults the properties are tested against stand in front of the definition
\* they replace, under the name of that definition and the fault.

Persists_OnceSaved(r) == r.status # "failed" /\ r.saved # NoCode

\* shouldPersistBeforeRecycle, evaluated on the copy that the caller has read.
Persists(r) ==
    /\ r.status # "failed"
    /\ ~(r.status = "recycling" /\ r.saved # NoCode)
    /\ r.phase # "allocating" \/ r.saved # NoCode

OwnedByRecycle_None == {}

\* startupStateOwnedByRecycle: a start leaves these sandboxes alone.
OwnedByRecycle == Gone

Unstarted_OrReady == {"creating", "ready"}

\* The states that the first step of a start expects.
Unstarted == {"creating"}

Activatable_Any == Status

\* The states in which MarkSandboxActive finds its row.
Activatable == {"ready", "running", "idle"}

Retried_Failed == {"failed"}

\* ListRecycleCandidates takes these states whatever their deadlines are.
Retried == {"recycling", "failed"}

\* The copy of the row that a recycle works with.
Copy(step, r) == [step |-> step, status |-> r.status, phase |-> r.phase,
                  persist |-> Persists(r)]

RowOK == row \in [status : Status, phase : Phases,
                  saved : {NoCode} \cup SUBSET Writes]

ClusterOK ==
    /\ ns \in {"none", "up", "stopped"}
    /\ disk \in SUBSET Writes
    /\ ns = "none" => disk = {}

StartsOK == starts \in [Replicas -> StartSteps]

\* A final save is made by the calls that owe one, and by no other.
CallsOK ==
    /\ calls \in [Replicas -> [step : CallSteps, status : Status,
                              phase : Phases, persist : BOOLEAN]]
    /\ \A p \in Replicas :
          calls[p].step \in {"ensure", "save"} => calls[p].persist

HistoryOK ==
    history \in [accepted : SUBSET Writes, locked : SUBSET Writes,
                rough : BOOLEAN, unsaved : BOOLEAN]

LeftOK == left \in [calls : 0 .. MaxCalls, faults : 0 .. MaxFaults]

TypeOK ==
    /\ RowOK /\ ClusterOK /\ StartsOK /\ CallsOK /\ HistoryOK /\ LeftOK
    /\ init \in BOOLEAN
    /\ creation \in {"audit", "cleanup", "erase", "done", "refused"}
    /\ timers \in SUBSET Replicas
    /\ announced \in BOOLEAN

\* The creating transaction has committed and its audit is still to come.
\* history: the writes that were answered with success; those of them that were
\* when the recycle began; "rough", one of the three steps at which work can be
\* lost: a cleanup removes a workspace in use, a recycle other than the first
\* owes no final save, or a workspace is made anew after the recycle began; and
\* whether a final save failed and none has succeeded since.
Init ==
    /\ row = [status |-> "creating", phase |-> "allocating", saved |-> NoCode]
    /\ init \in BOOLEAN
    /\ creation = "audit"
    /\ ns = "none"
    /\ disk = {}
    /\ starts = [p \in Replicas |-> "none"]
    /\ calls = [p \in Replicas |-> NoCall]
    /\ timers = {}
    /\ announced = FALSE
    /\ history = [accepted |-> {}, locked |-> {}, rough |-> FALSE,
                  unsaved |-> FALSE]
    /\ left = [calls |-> MaxCalls, faults |-> MaxFaults]

SetRow(phase, status) == row' = [row EXCEPT !.phase = phase, !.status = status]

\* A checked change of state under the row lock, or none.
Transition(phase, status) ==
    IF <<row.status, status>> \in Transitions
    THEN SetRow(phase, status)
    ELSE UNCHANGED row

MarkStartupFailed ==
    IF row.status \in OwnedByRecycle \cup {"failed"}
    THEN UNCHANGED row
    ELSE SetRow(row.phase, "failed")

\* Two bounds: a call that only users make, and a fault.
SpendCall  == left.calls > 0 /\ left' = [left EXCEPT !.calls = @ - 1]
SpendFault == left.faults > 0 /\ left' = [left EXCEPT !.faults = @ - 1]

StartTo(p, step) == starts' = [starts EXCEPT ![p] = step]
CallTo(p, step)  == calls' = [calls EXCEPT ![p].step = step]
Return(p)        == calls' = [calls EXCEPT ![p] = NoCall]
TakeCopy(p, step) == calls' = [calls EXCEPT ![p] = Copy(step, row)]
At(p, step)      == calls[p].step = step

\* CreateSandboxResources is idempotent: it keeps a volume that is there.
Provision == ns' = "up" /\ disk' = disk
\* It fails half way: some of the objects are there.
ProvisionFails ==
    /\ ns' \in CASE ns = "none"    -> {"none", "stopped", "up"}
                 [] ns = "stopped" -> {"stopped", "up"}
                 [] ns = "up"      -> {"up"}
    /\ disk' = disk
RemoveNamespace == ns' = "none" /\ disk' = {}
StopCompute == ns' = (IF ns = "up" THEN "stopped" ELSE ns) /\ disk' = disk

\* history: a workspace is made anew while or after it is recycled, and the next
\* archive of it will replace the one that holds the work.
MadeAnew == ns = "none" /\ ns' # "none" /\ history.locked # {}
NoteAnew == history' = [history EXCEPT !.rough = @ \/ MadeAnew]

\* persistSandboxFiles archives the volume and moves the code pointer, under
\* the row lock and whatever the status is.
Archive ==
    /\ ns = "up"
    /\ row' = [row EXCEPT !.saved = disk]
    /\ history' = [history EXCEPT !.unsaved = FALSE]

\* history: a namespace in use is removed, but not by a recycle.
Disturb == history' = [history EXCEPT !.rough = @ \/ disk # {}]

(***************************************************************************)
(* Creation.                                                               *)
(***************************************************************************)
\* scheduleSandboxStart: at most one start of the sandbox in a process.
Schedule(p) ==
    starts' = [starts EXCEPT ![p] = IF @ = "none" THEN "resources" ELSE @]

Audited(p) ==
    /\ creation = "audit"
    /\ creation' = "done"
    /\ Schedule(p)
    /\ UNCHANGED <<row, init, cluster, calls, timers, announced, history,
                   left>>

AuditFails ==
    /\ creation = "audit"
    /\ creation' = "cleanup"
    /\ SpendFault
    /\ UNCHANGED <<row, init, cluster, starts, calls, timers, announced,
                   history>>

\* cleanupCreatedSandboxAfterAuditFailure: an error here is only logged.
RefuseNamespace ==
    /\ creation = "cleanup"
    /\ creation' = "erase"
    /\ \/ RemoveNamespace /\ Disturb
       \/ UNCHANGED <<cluster, history>>
    /\ UNCHANGED <<row, init, starts, calls, timers, announced, left>>

RefuseRow ==
    /\ creation = "erase"
    /\ creation' = "refused"
    /\ SetRow("allocating", "destroyed")
    /\ UNCHANGED <<init, cluster, starts, calls, timers, announced, history,
                   left>>

(***************************************************************************)
(* The start: startSandbox.                                                *)
(***************************************************************************)
\* info: a reader that finds the sandbox in creation schedules its start.
Info(p) ==
    /\ At(p, "none")
    /\ row.status = "creating"
    /\ CallTo(p, "info")
    /\ SpendCall
    /\ UNCHANGED <<row, init, creation, cluster, starts, timers, announced,
                   history>>

InfoSchedules(p) ==
    /\ At(p, "info")
    /\ Schedule(p)
    /\ Return(p)
    /\ UNCHANGED <<row, init, creation, cluster, timers, announced, history,
                   left>>

\* CreateSandboxResources and cleanWorkspaceBeforeAccess.
StartResources(p) ==
    /\ starts[p] = "resources"
    /\ \/ Provision /\ StartTo(p, "bootstrapped")
       \/ ProvisionFails /\ StartTo(p, "cleanup")
    /\ NoteAnew
    /\ UNCHANGED <<row, init, creation, calls, timers, announced, left>>

\* cleanupAfterStartFailure: an error here is only logged.
StartCleanup(p) ==
    /\ starts[p] = "cleanup"
    /\ \/ RemoveNamespace /\ Disturb
       \/ UNCHANGED <<cluster, history>>
    /\ StartTo(p, "mark")
    /\ UNCHANGED <<row, init, creation, calls, timers, announced, left>>

StartMark(p) ==
    /\ starts[p] = "mark"
    /\ MarkStartupFailed
    /\ StartTo(p, "none")
    /\ UNCHANGED <<init, creation, cluster, calls, timers, announced, history,
                   left>>

\* advanceStartupState: the start goes on only from the status it expects.
Advance(p, expected, phase, status, next) ==
    IF row.status \in expected
    THEN SetRow(phase, status) /\ StartTo(p, next)
    ELSE UNCHANGED row /\ StartTo(p, "none")

StartReady(p) ==
    /\ starts[p] = "bootstrapped"
    /\ IF init
       THEN Advance(p, Unstarted, "initializing", "ready", "ready")
       ELSE Advance(p, Unstarted, "ready", "ready", "none")
    /\ UNCHANGED <<init, creation, cluster, calls, timers, announced, history,
                   left>>

StartInit(p) ==
    /\ starts[p] = "ready"
    /\ Advance(p, {"ready"}, "initializing", "running", "initializing")
    /\ UNCHANGED <<init, creation, cluster, calls, timers, announced, history,
                   left>>

\* The assets, the code and the script are applied in the running pods.
StartInitialise(p) ==
    /\ starts[p] = "initializing"
    /\ \/ ns = "up" /\ StartTo(p, "applied")
       \/ StartTo(p, "mark")
    /\ UNCHANGED <<row, init, creation, cluster, calls, timers, announced,
                   history, left>>

\* CreateSandboxResources again, now with the tools.
StartTools(p) ==
    /\ starts[p] = "applied"
    /\ \/ Provision /\ StartTo(p, "initialised")
       \/ ProvisionFails /\ StartTo(p, "mark")
    /\ NoteAnew
    /\ UNCHANGED <<row, init, creation, calls, timers, announced, left>>

StartFinish(p) ==
    /\ starts[p] = "initialised"
    /\ Advance(p, {"running"}, "fully", "running", "none")
    /\ UNCHANGED <<init, creation, cluster, calls, timers, announced, history,
                   left>>

(***************************************************************************)
(* File writes and saves.                                                  *)
(***************************************************************************)
WriteRead(p) ==
    /\ At(p, "none")
    /\ Usable(row)
    /\ history.accepted # Writes
    /\ CallTo(p, "activate")
    /\ SpendCall
    /\ UNCHANGED <<row, init, creation, cluster, starts, timers, announced,
                   history>>

\* MarkSandboxActive checks the status again in its own statement.
Activate(p) ==
    /\ At(p, "activate")
    /\ IF row.status \in Activatable
       THEN SetRow(row.phase, "running") /\ CallTo(p, "write")
       ELSE UNCHANGED row /\ Return(p)
    /\ UNCHANGED <<init, creation, cluster, starts, timers, announced, history,
                   left>>

\* PutSandboxFile: the second transaction does not look at the status.
WriteFile(p) ==
    /\ At(p, "write")
    /\ ns = "up"
    /\ \E w \in Writes \ history.accepted :
          /\ disk' = disk \cup {w}
          /\ history' = [history EXCEPT !.accepted = @ \cup {w}]
    /\ timers' = timers \cup {p}
    /\ Return(p)
    /\ UNCHANGED <<row, init, creation, ns, starts, announced, left>>

\* The write is refused, or its transaction fails when the file is there.
WriteFails(p) ==
    /\ At(p, "write")
    /\ \/ UNCHANGED cluster
       \/ /\ ns = "up" /\ ns' = ns
          /\ \E w \in Writes \ history.accepted : disk' = disk \cup {w}
    /\ Return(p)
    /\ UNCHANGED <<row, init, creation, starts, timers, announced, history,
                   left>>

\* SaveSandboxFiles, asked for by the user.
SaveNow(p) ==
    /\ At(p, "write")
    /\ Archive
    /\ timers' = timers \ {p}
    /\ Return(p)
    /\ UNCHANGED <<init, creation, cluster, starts, announced, left>>

\* The debounced save: a failure is recorded and not tried again.
AutoSave(p) ==
    /\ p \in timers
    /\ timers' = timers \ {p}
    /\ \/ Archive
       \/ UNCHANGED <<row, history>>
    /\ UNCHANGED <<init, creation, cluster, starts, calls, announced, left>>

(***************************************************************************)
(* Pause and resume.                                                       *)
(***************************************************************************)
PauseRead(p) ==
    /\ At(p, "none")
    /\ <<row.status, "paused">> \in Transitions
    /\ row.status # "paused"
    /\ CallTo(p, "pauseSave")
    /\ SpendCall
    /\ UNCHANGED <<row, init, creation, cluster, starts, timers, announced,
                   history>>

PauseSave(p) ==
    /\ At(p, "pauseSave")
    /\ timers' = timers \ {p}
    /\ \/ Archive /\ CallTo(p, "pauseStop")
       \/ UNCHANGED <<row, history>> /\ Return(p)
    /\ UNCHANGED <<init, creation, cluster, starts, announced, left>>

PauseStop(p) ==
    /\ At(p, "pauseStop")
    /\ \/ StopCompute /\ CallTo(p, "pauseMark")
       \/ (StopCompute \/ UNCHANGED cluster) /\ Return(p)
    /\ UNCHANGED <<row, init, creation, starts, timers, announced, history,
                   left>>

PauseMark(p) ==
    /\ At(p, "pauseMark")
    /\ Transition("ready", "paused")
    /\ Return(p)
    /\ UNCHANGED <<init, creation, cluster, starts, timers, announced, history,
                   left>>

ResumeRead(p) ==
    /\ At(p, "none")
    /\ CallTo(p, IF row.status = "paused" THEN "resume" ELSE "resumeMark")
    /\ SpendCall
    /\ UNCHANGED <<row, init, creation, cluster, starts, timers, announced,
                   history>>

\* resumePausedSandbox; only the tools may fail without failing the sandbox.
ResumeResources(p) ==
    /\ At(p, "resume")
    /\ \/ Provision /\ (CallTo(p, "resumeMark") \/ Return(p))
       \/ (ProvisionFails \/ StopCompute) /\ CallTo(p, "resumeFailed")
    /\ NoteAnew
    /\ UNCHANGED <<row, init, creation, starts, timers, announced, left>>

ResumeFailed(p) ==
    /\ At(p, "resumeFailed")
    /\ MarkStartupFailed
    /\ Return(p)
    /\ UNCHANGED <<init, creation, cluster, starts, timers, announced, history,
                   left>>

ResumeMark(p) ==
    /\ At(p, "resumeMark")
    /\ Transition("ready", "running")
    /\ Return(p)
    /\ UNCHANGED <<init, creation, cluster, starts, timers, announced, history,
                   left>>

(***************************************************************************)
(* Recycling.                                                              *)
(***************************************************************************)
MarkIdle ==
    /\ row.status = "running"
    /\ SetRow(row.phase, "idle")
    /\ UNCHANGED <<init, creation, cluster, starts, calls, timers, announced,
                   history, left>>

\* ListRecycleCandidates: the deadline of an open sandbox may have passed.
SweepRead(p, candidates) ==
    /\ At(p, "none")
    /\ row.status \in candidates
    /\ TakeCopy(p, "lock")
    /\ UNCHANGED <<row, init, creation, cluster, starts, timers, announced,
                   history, left>>

Sweep(p)      == SweepRead(p, Status \ {"destroyed"})
\* A sandbox that is recycling or has failed is a candidate in every round.
SweepAgain(p) == SweepRead(p, Retried)

\* DestroySandbox reads and checks the row, then writes it, without a lock.
DestroyRead(p) ==
    /\ At(p, "none")
    /\ <<row.status, "recycling">> \in Transitions
    /\ TakeCopy(p, "claim")
    /\ SpendCall
    /\ UNCHANGED <<row, init, creation, cluster, starts, timers, announced,
                   history>>

\* The first recycle of an open sandbox, with a copy that is not yet stale.
First(c) == c.status \in Open /\ c.status = row.status /\ c.phase = row.phase

\* history: the first recycle takes the work over; another one that owes no
\* final save deletes the workspace as it is.
BeginRecycle(c) ==
    history' = [history EXCEPT
      !.locked = IF row.status \in Gone THEN @ ELSE history.accepted,
      !.rough  = @ \/ ~(c.persist \/ First(c))]

DestroyClaim(p) ==
    /\ At(p, "claim")
    /\ SetRow(calls[p].phase, "recycling")
    /\ BeginRecycle(calls[p])
    /\ CallTo(p, "relock")
    /\ UNCHANGED <<init, creation, cluster, starts, timers, announced, left>>

AfterLock_Always(c) == "ensure"

\* A final save comes first when the copy owes one.
AfterLock(c) == IF c.persist THEN "ensure" ELSE "delete"

\* lockRecycle writes the row without looking at it, unless the copy already
\* says that the sandbox is recycling.
LockRow(c) ==
    IF c.status = "recycling"
    THEN UNCHANGED row
    ELSE SetRow(c.phase, "recycling")

LockRecycle(p) ==
    /\ At(p, "lock")
    /\ LockRow(calls[p])
    /\ BeginRecycle(calls[p])
    /\ CallTo(p, AfterLock(calls[p]))
    /\ UNCHANGED <<init, creation, cluster, starts, timers, announced, left>>

\* The same step of a requested recycle, which has claimed the row before.
RelockRecycle(p) ==
    /\ At(p, "relock")
    /\ LockRow(calls[p])
    /\ CallTo(p, AfterLock(calls[p]))
    /\ UNCHANGED <<init, creation, cluster, starts, timers, announced, history,
                   left>>

EnsureAccess(p) ==
    /\ At(p, "ensure")
    /\ Provision
    /\ CallTo(p, "save")
    /\ NoteAnew
    /\ UNCHANGED <<row, init, creation, starts, timers, announced, left>>

SaveFinal(p) ==
    /\ At(p, "save")
    /\ Archive
    /\ timers' = timers \ {p}
    /\ CallTo(p, "delete")
    /\ UNCHANGED <<init, creation, cluster, starts, announced, left>>

\* The workspace cannot be reached or archived.
SaveFails(p) ==
    /\ \/ At(p, "ensure") /\ ProvisionFails
       \/ At(p, "save") /\ UNCHANGED cluster
    /\ history' = [history EXCEPT !.unsaved = TRUE, !.rough = @ \/ MadeAnew]
    /\ CallTo(p, "failed")
    /\ UNCHANGED <<row, init, creation, starts, timers, announced, left>>

DeleteNamespace(p) ==
    /\ At(p, "delete")
    /\ RemoveNamespace
    /\ CallTo(p, "finish")
    /\ UNCHANGED <<row, init, creation, starts, timers, announced, history,
                   left>>

DeleteFails(p) ==
    /\ At(p, "delete")
    /\ RemoveNamespace \/ UNCHANGED cluster
    /\ CallTo(p, "failed")
    /\ UNCHANGED <<row, init, creation, starts, timers, announced, history,
                   left>>

\* markRecycleFailed
RecycleFailed(p) ==
    /\ At(p, "failed")
    /\ SetRow(calls[p].phase, "recycling")
    /\ Return(p)
    /\ UNCHANGED <<init, creation, cluster, starts, timers, announced, history,
                   left>>

\* The final state and the recycled event (CreateSandboxRecycleOutbox) are one
\* transaction.
FinishRecycle(p) ==
    /\ At(p, "finish")
    /\ SetRow(calls[p].phase, "destroyed")
    /\ announced' = TRUE
    /\ Return(p)
    /\ UNCHANGED <<init, creation, cluster, starts, timers, history, left>>

\* The process dies: its calls, its start and its timers are gone.
Crash(p) ==
    /\ StartTo(p, "none")
    /\ Return(p)
    /\ timers' = timers \ {p}
    /\ SpendFault
    /\ UNCHANGED <<row, init, creation, cluster, announced, history>>

Start(p) ==
    \/ StartResources(p) \/ StartCleanup(p) \/ StartMark(p) \/ StartReady(p)
    \/ StartInit(p) \/ StartInitialise(p) \/ StartTools(p) \/ StartFinish(p)

Begin(p) ==
    \/ Info(p) \/ WriteRead(p) \/ PauseRead(p) \/ ResumeRead(p)
    \/ Sweep(p) \/ DestroyRead(p)

Continue(p) ==
    \/ InfoSchedules(p) \/ Activate(p) \/ WriteFile(p) \/ WriteFails(p)
    \/ SaveNow(p) \/ PauseSave(p) \/ PauseStop(p) \/ PauseMark(p)
    \/ ResumeResources(p) \/ ResumeFailed(p) \/ ResumeMark(p)
    \/ DestroyClaim(p) \/ LockRecycle(p) \/ RelockRecycle(p) \/ EnsureAccess(p)
    \/ SaveFinal(p) \/ SaveFails(p) \/ DeleteNamespace(p) \/ DeleteFails(p)
    \/ RecycleFailed(p) \/ FinishRecycle(p)

Next ==
    \/ AuditFails \/ RefuseNamespace \/ RefuseRow \/ MarkIdle
    \/ \E p \in Replicas :
          Audited(p) \/ Start(p) \/ Begin(p) \/ Continue(p) \/ AutoSave(p)
             \/ Crash(p)

Spec == Init /\ [][Next]_vars

\* Every call ends, the sweep comes round again, and the cluster does not
\* refuse the same step of a recycle for ever, however often it may fail.
Fairness ==
    /\ \A p \in Replicas : WF_vars(Continue(p))
    /\ WF_vars(\E p \in Replicas : SweepAgain(p))
    /\ SF_vars(\E p \in Replicas : EnsureAccess(p))
    /\ SF_vars(\E p \in Replicas : SaveFinal(p))
    /\ SF_vars(\E p \in Replicas : DeleteNamespace(p))

FairSpec == Spec /\ Fairness

(***************************************************************************)
(* Properties.                                                             *)
(***************************************************************************)
\* Once a recycle has taken a sandbox over, no start, user or timer brings it
\* back, although each of them may have read the row before.
NoReturn ==
    [][/\ row.status \in Gone => row'.status \in Gone
       /\ row.status = "failed" => row'.status \in Gone \cup {"failed"}]_vars

\* The source of a sandbox hears of its end, and of no end that is undone: the
\* event is recorded for every destroyed sandbox whose creation succeeded, and
\* a sandbox with a recorded event is never in use again.
Announced ==
    /\ row.status = "destroyed" => announced \/ creation = "refused"
    /\ announced => row.status \in Gone

\* Replicas may all start a sandbox, but only one of them applies its assets,
\* code and script, which are not known to be repeatable.
Initialises(p) ==
    starts[p] \in {"ready", "initializing", "applied", "initialised"}

SingleInit ==
    \A p, q \in Replicas : Initialises(p) /\ Initialises(q) => p = q

Archived == IF row.saved = NoCode THEN {} ELSE row.saved

\* HAZARD interleaving (service_recycle.go:104): every write that was answered
\* before the recycle began is on the volume or in the archive, now and after the
\* sandbox is gone, although pauses, saves, writes, starts and any number of
\* recyclers with stale copies go on beside each other.  The property ends where
\* the code loses work in one of three ways: see rough in Init.
AcceptedWorkKept ==
    ~history.rough => \/ history.locked \subseteq disk
                      \/ history.locked \subseteq Archived

\* A sandbox that is being recycled or has failed is destroyed in the end,
\* although every step may fail, every process may die, and two replicas may
\* recycle it at once.
Recycled == row.status \in {"recycling", "failed"} ~> row.status = "destroyed"

\* docs/02, architecture 5.2.1: when the final save before a recycle fails, the
\* namespace must not be deleted.  Here only when it holds work that the
\* archive does not: shouldPersistBeforeRecycle takes the archive of an earlier
\* save for that of the failed one.
FailedSaveKeepsNamespace ==
    [][\A p \in Replicas :
          DeleteNamespace(p) /\ history.unsaved
             => disk \subseteq Archived]_vars
=============================================================================
