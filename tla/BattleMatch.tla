---------------------------- MODULE BattleMatch ----------------------------
(***************************************************************************)
(* Matches of a battle contest (M8).                                       *)
(*                                                                         *)
(* A submitted entry creates matches.  The matchmaker loop of some replica *)
(* claims them under a lease, creates a sandbox (M2), prepares it, submits *)
(* a judge task (M3) and hands the match over to it.  The verdict arrives  *)
(* by event or is found by the reconciliation; settling moves the ratings. *)
(* A settled match is finalized under a lease of its own: the sandbox is   *)
(* recycled.  When the contest is over and no match is active it is        *)
(* archived with its final ladder, again under a lease.                    *)
(*                                                                         *)
(* The statements that claim a batch of matches, or a contest, search on a *)
(* snapshot and lock afterwards; both halves are actions of their own.     *)
(*                                                                         *)
(* Actors are the goroutines that do this: passes of the loops of all      *)
(* replicas, event handlers, requests.  A lease token is random and never  *)
(* used twice, so it is identified with the actor that drew it, and is     *)
(* "gone" once that actor has finished or died.                            *)
(***************************************************************************)
EXTENDS Integers, FiniteSets, FiniteSetsExt

CONSTANTS
    Matches,        \* battle_match rows of one contest
    Teams,
    Sides,          \* the teams [a |-> ..., b |-> ...] of each match
    Actors,
    None,           \* no match
    MaxAttempts,    \* ASYNC_OUTBOX_MAX_ATTEMPTS
    BatchSize,      \* MatchmakerBatchSize
    Initial         \* CONTEST_BATTLE_ELO_INITIAL_SCORE

ASSUME FiniteAssumption == IsFiniteSet(Matches)
ASSUME SidesAssumption == Sides \in [Matches -> [a : Teams, b : Teams]]
ASSUME DistinctAssumption == \A m \in Matches : Sides[m].a # Sides[m].b
ASSUME NoneAssumption == None \notin Matches
ASSUME TokenAssumption == {"none", "gone"} \cap Actors = {}
ASSUME NumberAssumption == MaxAttempts \in Nat /\ Initial \in Int

VARIABLES
    \* columns of battle_match
    status, token, lease, tries,
    started,        \* judge_task_ref is set
    finalized,      \* finalized_at is set
    delta,          \* score_delta of side a
    \* the contest row and its ladder
    over,           \* end_at has passed
    phase, archToken, archLease,
    board,          \* ladder_rank
    snapshot,       \* contest_ladder_snapshot of the archived status
    \* M2 and M3, by the source_ref of the match
    box,            \* its sandbox exists
    verdict,        \* its judge task
    \* the actors
    job,
    seen            \* the ratings a settling transaction has read

match == <<status, token, lease, tries, started, finalized, delta>>
contest == <<over, phase, archToken, archLease, board, snapshot>>
engines == <<box, verdict>>
vars == <<match, contest, engines, job, seen>>

-----------------------------------------------------------------------------
(* Values *)

Status   == {"none", "entering", "pending", "running", "done", "failed"}
Active   == {"pending", "running"}
Terminal == {"done", "failed"}
Lease    == {"none", "live", "expired"}
Token    == Actors \cup {"none", "gone"}
Outcome  == {"a", "b", "draw"}

\* "unusable" is a verdict from which the contest cannot take a result: no
\* replay, or no winner among its details.
Verdict == {"none", "judging", "unusable", "lost"} \cup Outcome

Job == [do : {"idle", "search", "start", "settle", "deliver", "archive"},
        todo : SUBSET Matches,     \* claimed and not begun
        on : Matches \cup {None},
        at : {"", "create", "submit", "link", "recycle", "confirm", "claim"}]

Idle == [do |-> "idle", todo |-> {}, on |-> None, at |-> ""]
Doing(do, m, at) == [do |-> do, todo |-> {}, on |-> m, at |-> at]

NoRatings == [t \in Teams |-> 0]

\* battleScoreDelta over small numbers: the expected result of a side is 1, 2
\* or 3 quarters, the result itself 0, 2 or 4 quarters, and the factor is 4.
Expected(ra, rb) == IF ra < rb THEN 1 ELSE IF ra = rb THEN 2 ELSE 3
Points(outcome)  == CASE outcome = "a" -> 4 [] outcome = "draw" -> 2 [] outcome = "b" -> 0
ScoreDelta(outcome, ra, rb) == Points(outcome) - Expected(ra, rb)

\* applyBattleRankDelta for both sides, from the ratings that were read.  The
\* column of a rating is NUMERIC(10,2); that each write rounds is left out.
Rated(ratings, read, m, d) ==
    [ratings EXCEPT ![Sides[m].a] = read[Sides[m].a] + d, ![Sides[m].b] = read[Sides[m].b] - d]

-----------------------------------------------------------------------------
(* The conditions of the statements *)

\* Faults the properties are tested against stand in front of the definition
\* they replace, under the name of that definition and the fault.

\* StartBattleMatch, FailBattleMatchStart and RenewBattleMatchStartLease.
Holds(a, m) == status[m] = "running" /\ ~ started[m] /\ token[m] = a /\ lease[m] = "live"

Open_WhenClaimed == phase \in {"running", "ended"}

\* The contest still takes results: it has not been claimed for archiving.
Open == phase = "running" \/ (phase = "ended" /\ archToken = "none")

Stale_Never(m) == FALSE

\* A start lease that ran out before a judge task was linked.
Stale(m) == status[m] = "running" /\ ~ started[m] /\ lease[m] = "expired"

Startable_Unlimited(m) == status[m] = "pending" \/ Stale(m)

\* What the row of a match must say for a start.
Startable(m) == tries[m] < MaxAttempts /\ (status[m] = "pending" \/ Stale(m))

Exhausted == {m \in Matches : Stale(m) /\ tries[m] >= MaxAttempts}

NoneActive == \A m \in Matches : status[m] \notin Active

Unlocked_PerMatch(m) == \A a \in Actors : ~ (job[a].do = "settle" /\ job[a].on = m)

\* The settling transaction holds the contest row exclusively, and an entry
\* holds it shared through the foreign key of the rows it inserts.
NoSettlement == \A a \in Actors : job[a].do # "settle"
NoEntry == \A m \in Matches : status[m] # "entering"

\* FOR UPDATE OF c, m: one settling transaction of the contest at a time.
Unlocked(m) == NoSettlement

\* The match waits for its judge task.
Awaits(m) == started[m] /\ status[m] = "running"

Archivable_Once == (phase = "running" /\ over) \/ (phase = "ended" /\ archToken = "none")

\* The claims of both ways to archive; a lease that ran out is claimed again.
Archivable == (phase = "running" /\ over) \/ (phase = "ended" /\ archLease # "live")

-----------------------------------------------------------------------------
Init ==
    /\ status = [m \in Matches |-> "none"]
    /\ token = [m \in Matches |-> "none"]
    /\ lease = [m \in Matches |-> "none"]
    /\ tries = [m \in Matches |-> 0]
    /\ started = [m \in Matches |-> FALSE]
    /\ finalized = [m \in Matches |-> FALSE]
    /\ delta = [m \in Matches |-> 0]
    /\ over = FALSE
    /\ phase = "running"
    /\ archToken = "none"
    /\ archLease = "none"
    /\ board = [t \in Teams |-> Initial]
    /\ snapshot = [t \in Teams |-> Initial]
    /\ box = [m \in Matches |-> FALSE]
    /\ verdict = [m \in Matches |-> "none"]
    /\ job = [a \in Actors |-> Idle]
    /\ seen = [a \in Actors |-> NoRatings]

-----------------------------------------------------------------------------
(* Entries and time *)

\* The transaction of SubmitBattleEntry inserts a match while the contest runs;
Enter(m) ==
    /\ status[m] = "none" /\ phase = "running" /\ ~ over /\ NoSettlement
    /\ status' = [status EXCEPT ![m] = "entering"]
    /\ UNCHANGED <<token, lease, tries, started, finalized, delta, contest, engines, job, seen>>

\* the row becomes visible when the transaction commits, which may be later
\* than the end of the contest, or it is rolled back.
EndEntry(m) ==
    /\ status[m] = "entering"
    /\ \E s \in {"pending", "none"} : status' = [status EXCEPT ![m] = s]
    /\ UNCHANGED <<token, lease, tries, started, finalized, delta, contest, engines, job, seen>>

TimeUp ==
    /\ ~ over
    /\ over' = TRUE
    /\ UNCHANGED <<match, phase, archToken, archLease, board, snapshot, engines, job, seen>>

\* AdvanceContestStatusesOnce or a teacher ends the contest.
End ==
    /\ phase = "running" /\ over /\ NoSettlement /\ NoEntry
    /\ phase' = "ended"
    /\ UNCHANGED <<match, over, archToken, archLease, board, snapshot, engines, job, seen>>

Expire(m) ==
    /\ lease[m] = "live"
    /\ lease' = [lease EXCEPT ![m] = "expired"]
    /\ UNCHANGED <<status, token, tries, started, finalized, delta, contest, engines, job, seen>>

ExpireArchive ==
    /\ archLease = "live"
    /\ archLease' = "expired"
    /\ UNCHANGED <<match, over, phase, archToken, board, snapshot, engines, job, seen>>

-----------------------------------------------------------------------------
(* The judge (M3) *)

JudgeEnds(m) ==
    /\ verdict[m] = "judging"
    /\ \E v \in Outcome \cup {"unusable", "lost"} : verdict' = [verdict EXCEPT ![m] = v]
    /\ UNCHANGED <<match, contest, box, job, seen>>

-----------------------------------------------------------------------------
(* The matchmaker *)

\* What an actor leaves behind: tokens nobody holds any more.
Orphaned(a) == [m \in Matches |-> IF token[m] = a THEN "gone" ELSE token[m]]
Becomes(a, j) == job' = [job EXCEPT ![a] = j]
NextInBatch(a) == Becomes(a, [job[a] EXCEPT !.on = None, !.at = ""])

\* First transaction of RunMatchmakerOnce: ClaimPendingBattleMatches searches on
\* a snapshot for matches of a contest that takes results,
SearchMatches(a, batch) ==
    /\ job[a] = Idle
    /\ \A m \in batch : Open /\ Startable(m)
    /\ Cardinality(batch) <= BatchSize /\ batch \cup Exhausted # {}
    /\ Becomes(a, [do |-> "search", todo |-> batch, on |-> None, at |-> ""])
    /\ UNCHANGED <<match, contest, engines, seen>>

\* and locks those that still may be started, without a second look at the
\* contest; they are claimed under one fresh token, and what used up its attempts
\* has failed.
Claim(a, batch) ==
    /\ job[a].do = "search"
    /\ batch = {m \in job[a].todo : Startable(m)}
    /\ status' = [m \in Matches |-> IF m \in Exhausted THEN "failed"
                                    ELSE IF m \in batch THEN "running" ELSE status[m]]
    /\ token' = [m \in Matches |-> IF m \in Exhausted THEN "none"
                                   ELSE IF m \in batch THEN a ELSE token[m]]
    /\ lease' = [m \in Matches |-> IF m \in Exhausted THEN "none"
                                   ELSE IF m \in batch THEN "live" ELSE lease[m]]
    /\ tries' = [m \in Matches |-> IF m \in batch THEN tries[m] + 1 ELSE tries[m]]
    /\ IF batch = {} THEN Becomes(a, Idle)
       ELSE Becomes(a, [do |-> "start", todo |-> batch, on |-> None, at |-> ""])
    /\ UNCHANGED <<started, finalized, delta, contest, engines, seen>>

Starting(a, at) == job[a].do = "start" /\ job[a].at = at

\* executeBattleMatch takes the next match of the batch.
Begin(a) ==
    /\ Starting(a, "")
    /\ \E m \in job[a].todo :
        Becomes(a, [job[a] EXCEPT !.todo = job[a].todo \ {m}, !.on = m, !.at = "create"])
    /\ UNCHANGED <<match, contest, engines, seen>>

PassOver(a) ==
    /\ Starting(a, "") /\ job[a].todo = {}
    /\ Becomes(a, Idle)
    /\ token' = Orphaned(a)
    /\ UNCHANGED <<status, lease, tries, started, finalized, delta, contest, engines, seen>>

\* CreateSandbox finds or creates the sandbox of the source_ref, and both
\* artifacts are restored into it.
CreateSandbox(a) ==
    /\ Starting(a, "create")
    /\ box' = [box EXCEPT ![job[a].on] = TRUE]
    /\ Becomes(a, [job[a] EXCEPT !.at = "submit"])
    /\ UNCHANGED <<match, contest, verdict, seen>>

\* SubmitJudgeTask returns the task of the source_ref if there is one.
SubmitTask(m) ==
    verdict' = [verdict EXCEPT ![m] = IF verdict[m] = "none" THEN "judging" ELSE verdict[m]]

Submit(a) ==
    /\ Starting(a, "submit")
    /\ SubmitTask(job[a].on)
    /\ Becomes(a, [job[a] EXCEPT !.at = "link"])
    /\ UNCHANGED <<match, contest, box, seen>>

\* StartBattleMatch: the match waits for its judge task from now on.
Link(a) ==
    /\ Starting(a, "link")
    /\ LET m == job[a].on IN
        IF Holds(a, m)
        THEN /\ started' = [started EXCEPT ![m] = TRUE]
             /\ token' = [token EXCEPT ![m] = "none"]
             /\ lease' = [lease EXCEPT ![m] = "none"]
        ELSE UNCHANGED <<started, token, lease>>
    /\ NextInBatch(a)
    /\ UNCHANGED <<status, tries, finalized, delta, contest, engines, seen>>

\* markBattleFailed: only the holder of the lease fails the match.
Mark(a, m) ==
    IF Holds(a, m)
    THEN /\ status' = [status EXCEPT ![m] = "failed"]
         /\ token' = [token EXCEPT ![m] = "none"]
         /\ lease' = [lease EXCEPT ![m] = "none"]
    ELSE UNCHANGED <<status, token, lease>>

\* The configuration is invalid or no sandbox is to be had.
CreateFails(a) ==
    /\ Starting(a, "create")
    /\ \E up \in BOOLEAN : box' = [box EXCEPT ![job[a].on] = @ \/ up]
    /\ Mark(a, job[a].on)
    /\ NextInBatch(a)
    /\ UNCHANGED <<tries, started, finalized, delta, contest, verdict, seen>>

MayRecycle_Always(a, m) == TRUE

\* Whoever has lost the lease leaves the sandbox of the source_ref alone.
MayRecycle(a, m) == Holds(a, m)

\* The sandbox cannot be prepared or the judge refuses the task.
StartFails(a) ==
    /\ Starting(a, "submit")
    /\ Mark(a, job[a].on)
    /\ IF MayRecycle(a, job[a].on) THEN Becomes(a, [job[a] EXCEPT !.at = "recycle"]) ELSE NextInBatch(a)
    /\ UNCHANGED <<tries, started, finalized, delta, contest, engines, seen>>

Recycle(a) ==
    /\ Starting(a, "recycle")
    /\ box' = [box EXCEPT ![job[a].on] = FALSE]
    /\ NextInBatch(a)
    /\ UNCHANGED <<match, contest, verdict, seen>>

\* A transaction or a call fails, or the heartbeat cancels the start: the match
\* is left as it is.
GiveUp(a) ==
    /\ job[a].do = "start" /\ job[a].on # None
    /\ NextInBatch(a)
    /\ UNCHANGED <<match, contest, engines, seen>>

-----------------------------------------------------------------------------
(* Settlement *)

\* HandleBattleJudgeCompleted, by event or by reconciliation: lock contest and
\* match by the judge task and read the ratings,
Lock(a, m) ==
    /\ job[a] = Idle
    /\ Unlocked(m) /\ NoEntry
    /\ Awaits(m) /\ verdict[m] \in Outcome
    /\ Becomes(a, Doing("settle", m, ""))
    /\ seen' = [seen EXCEPT ![a] = board]
    /\ UNCHANGED <<match, contest, engines>>

\* then store the result and move both ratings.
Settle(a) ==
    /\ job[a].do = "settle" /\ Open
    /\ LET m == job[a].on
           d == ScoreDelta(verdict[m], seen[a][Sides[m].a], seen[a][Sides[m].b])
       IN  /\ status' = [status EXCEPT ![m] = "done"]
           /\ token' = [token EXCEPT ![m] = "none"]
           /\ lease' = [lease EXCEPT ![m] = "none"]
           /\ delta' = [delta EXCEPT ![m] = d]
           /\ board' = Rated(board, seen[a], m, d)
    /\ Becomes(a, Idle)
    /\ seen' = [seen EXCEPT ![a] = NoRatings]
    /\ UNCHANGED <<tries, started, finalized, over, phase, archToken, archLease, snapshot, engines>>

\* HandleBattleJudgeFailed.
JudgeLost(m) ==
    /\ NoSettlement /\ NoEntry /\ Open
    /\ Awaits(m) /\ verdict[m] = "lost"
    /\ status' = [status EXCEPT ![m] = "failed"]
    /\ token' = [token EXCEPT ![m] = "none"]
    /\ lease' = [lease EXCEPT ![m] = "none"]
    /\ UNCHANGED <<tries, started, finalized, delta, contest, engines, job, seen>>

-----------------------------------------------------------------------------
(* Finalization *)

\* ClaimBattleMatchFinalization, after a settlement or by reconciliation.
ClaimDelivery(a, m) ==
    /\ job[a] = Idle
    /\ status[m] \in Terminal /\ ~ finalized[m] /\ (token[m] = "none" \/ lease[m] = "expired")
    /\ token' = [token EXCEPT ![m] = a]
    /\ lease' = [lease EXCEPT ![m] = "live"]
    /\ Becomes(a, Doing("deliver", m, "recycle"))
    /\ UNCHANGED <<status, tries, started, finalized, delta, contest, engines, seen>>

\* RecycleByScopeRef; the push of the ladder and the audit are repeatable.
Deliver(a) ==
    /\ job[a].do = "deliver" /\ job[a].at = "recycle"
    /\ box' = [box EXCEPT ![job[a].on] = FALSE]
    /\ Becomes(a, [job[a] EXCEPT !.at = "confirm"])
    /\ UNCHANGED <<match, contest, verdict, seen>>

\* CompleteBattleMatchFinalization.
Delivers(a, m) ==
    status[m] \in Terminal /\ ~ finalized[m] /\ token[m] = a /\ lease[m] = "live"

Confirm(a) ==
    /\ job[a].do = "deliver" /\ job[a].at = "confirm"
    /\ LET m == job[a].on IN
        IF Delivers(a, m)
        THEN /\ finalized' = [finalized EXCEPT ![m] = TRUE]
             /\ token' = [token EXCEPT ![m] = "none"]
             /\ lease' = [lease EXCEPT ![m] = "none"]
        ELSE /\ token' = Orphaned(a)
             /\ UNCHANGED <<finalized, lease>>
    /\ Becomes(a, Idle)
    /\ UNCHANGED <<status, tries, started, delta, contest, engines, seen>>

-----------------------------------------------------------------------------
(* Archiving *)

\* ClaimAutoArchiveContestsAcrossTenants and ClaimManualArchiveContest search
\* on a snapshot for active matches, which does not show entries on their way,
SearchArchive(a) ==
    /\ job[a] = Idle
    /\ Archivable /\ NoneActive
    /\ Becomes(a, Doing("archive", None, "claim"))
    /\ UNCHANGED <<match, contest, engines, seen>>

Claiming(a) == job[a].do = "archive" /\ job[a].at = "claim"

\* The contest row is free, and its own columns still allow the archiving.
Claims == Archivable /\ NoSettlement /\ NoEntry

\* and lock and update the contest without searching again.  A row that
\* somebody else has locked is skipped.
ClaimArchive(a) ==
    /\ Claiming(a)
    /\ IF Claims
       THEN /\ phase' = "ended" /\ archToken' = a /\ archLease' = "live"
            /\ Becomes(a, Doing("archive", None, ""))
       ELSE Becomes(a, Idle) /\ UNCHANGED <<phase, archToken, archLease>>
    /\ UNCHANGED <<match, over, board, snapshot, engines, seen>>

\* CompleteAutoArchiveContest.
Archives(a) == phase = "ended" /\ archToken = a /\ archLease = "live" /\ NoneActive

\* The transaction of archiveContestSystem: snapshot and archived status, or
\* neither when the lease is lost or a match is active.
Archive(a) ==
    /\ job[a].do = "archive" /\ job[a].at = "" /\ NoSettlement
    /\ IF Archives(a)
       THEN phase' = "archived" /\ snapshot' = board /\ archToken' = "none" /\ archLease' = "none"
       ELSE /\ archToken' = IF archToken = a THEN "gone" ELSE archToken
            /\ UNCHANGED <<phase, snapshot, archLease>>
    /\ Becomes(a, Idle)
    /\ UNCHANGED <<match, over, board, engines, seen>>

-----------------------------------------------------------------------------
\* The process dies, or a call of a settlement, a delivery or an archiving
\* fails: transactions are rolled back and leases stay in the rows.
Stop(a) ==
    /\ job[a].do # "idle"
    /\ Becomes(a, Idle)
    /\ token' = Orphaned(a)
    /\ archToken' = IF archToken = a THEN "gone" ELSE archToken
    /\ seen' = [seen EXCEPT ![a] = NoRatings]
    /\ UNCHANGED <<status, lease, tries, started, finalized, delta, over, phase, archLease, board,
                   snapshot, engines>>

Start(a) == Begin(a) \/ CreateSandbox(a) \/ Submit(a) \/ Link(a) \/ CreateFails(a)
            \/ StartFails(a) \/ Recycle(a) \/ GiveUp(a) \/ PassOver(a)

Next ==
    \/ TimeUp \/ End \/ ExpireArchive
    \/ \E m \in Matches :
        Enter(m) \/ EndEntry(m) \/ Expire(m) \/ JudgeEnds(m) \/ JudgeLost(m)
    \/ \E a \in Actors :
        \/ Start(a) \/ Settle(a) \/ Deliver(a) \/ Confirm(a)
        \/ SearchArchive(a) \/ ClaimArchive(a) \/ Archive(a) \/ Stop(a)
        \/ \E batch \in SUBSET Matches : SearchMatches(a, batch) \/ Claim(a, batch)
        \/ \E m \in Matches : Lock(a, m) \/ ClaimDelivery(a, m)

Spec == Init /\ [][Next]_vars

(***************************************************************************)
(* Fairness.  The loops tick for ever in every replica and their calls     *)
(* have deadlines; a lease whose actor is gone runs out; the judge settles *)
(* its tasks.  What the loops take up they take up again after a failure:  *)
(* a settlement, a delivery and an archiving may fail any number of times, *)
(* but not every time.  Actions of one match that exclude one another for  *)
(* good share a condition.                                                 *)
(***************************************************************************)
TakeUp(m) ==
    \/ JudgeLost(m)
    \/ \E a \in Actors : Lock(a, m) \/ ClaimDelivery(a, m)
    \/ \E a \in Actors, batch \in SUBSET Matches : m \in batch \cup Exhausted /\ Claim(a, batch)

\* A pass of the matchmaker whose search finds m.
Finds(m) ==
    \E a \in Actors, batch \in SUBSET Matches : m \in batch \cup Exhausted /\ SearchMatches(a, batch)

Fairness ==
    /\ \A m \in Matches :
        /\ WF_vars(EndEntry(m)) /\ WF_vars(JudgeEnds(m))
        /\ WF_vars(token[m] = "gone" /\ Expire(m))
        /\ SF_vars(TakeUp(m))
        /\ SF_vars(\E a \in Actors : job[a].on = m /\ (Settle(a) \/ (Delivers(a, m) /\ Deliver(a))))
        /\ SF_vars(Finds(m) \/ \E a \in Actors : job[a].on = m /\ Delivers(a, m) /\ Confirm(a))
    /\ \A a \in Actors :
        /\ WF_vars(Start(a))
        /\ WF_vars(\/ Deliver(a) \/ Confirm(a) \/ ClaimArchive(a) \/ Archive(a)
                   \/ \E batch \in SUBSET Matches : Claim(a, batch))
    /\ WF_vars(archToken = "gone" /\ ExpireArchive)
    /\ SF_vars(\E a \in Actors : SearchArchive(a))
    /\ SF_vars(\E a \in Actors : Claims /\ ClaimArchive(a))
    /\ SF_vars(\E a \in Actors : Archives(a) /\ Archive(a))

FairSpec == Spec /\ Fairness

-----------------------------------------------------------------------------
(* Properties *)

\* The rows, the engines and the actors keep their shapes, and no match is
\* started more than MaxAttempts times.
TypeOK ==
    /\ status \in [Matches -> Status]
    /\ token \in [Matches -> Token] /\ archToken \in Token
    /\ lease \in [Matches -> Lease] /\ archLease \in Lease
    /\ tries \in [Matches -> 0 .. MaxAttempts]
    /\ started \in [Matches -> BOOLEAN] /\ finalized \in [Matches -> BOOLEAN]
    /\ delta \in [Matches -> -3 .. 3]
    /\ over \in BOOLEAN /\ phase \in {"running", "ended", "archived"}
    /\ board \in [Teams -> Int] /\ snapshot \in [Teams -> Int]
    /\ box \in [Matches -> BOOLEAN] /\ verdict \in [Matches -> Verdict]
    /\ job \in [Actors -> Job]
    /\ seen \in [Actors -> [Teams -> Int]]

\* Ratings move exactly when a match is decided, for that match only, by the
\* standard formula from the ratings of that moment: nothing is settled twice
\* and no settlement overwrites another.
RatingsMoveOnce ==
    [][\/ board' = board /\ \A m \in Matches : status'[m] = "done" => status[m] = "done"
       \/ \E m \in Matches :
            /\ status[m] = "running" /\ status'[m] = "done"
            /\ \A n \in Matches \ {m} : status'[n] = status[n]
            /\ delta'[m] = ScoreDelta(verdict[m], board[Sides[m].a], board[Sides[m].b])
            /\ board' = Rated(board, board, m, delta'[m])]_vars

\* While a match waits for its verdict its sandbox is there: nobody who lost
\* the lease recycles it.
SandboxUntilVerdict ==
    \A m \in Matches :
        status[m] = "running" /\ started[m] /\ verdict[m] = "judging" => box[m]

\* A settled match is never started, settled or failed again, and keeps its
\* score change.
SettledIsFinal ==
    [][\A m \in Matches : status[m] \in Terminal =>
            status'[m] = status[m] /\ delta'[m] = delta[m] /\ tries'[m] = tries[m]]_vars

\* A contest that was claimed for archiving is frozen: a settlement that comes
\* later, whatever it had read, does not move the ladder, and no match becomes
\* active that was not.  One that was found pending before may still be started.
ArchiveFence ==
    [][archToken # "none" =>
        /\ board' = board
        /\ \A m \in Matches :
            status'[m] \in Active \cup {"entering"} => status[m] \in Active]_vars

\* A contest is archived only when every match has ended, even if matches became
\* active while it was being claimed, and the archived ladder accounts for them
\* all: a team has the rating it began with and the score changes of its settled
\* matches.
Change(t, m) == IF Sides[m].a = t THEN delta[m] ELSE IF Sides[m].b = t THEN - delta[m] ELSE 0
FinalLadder ==
    phase = "archived" =>
        /\ \A m \in Matches : status[m] \notin Active
        /\ \A t \in Teams :
            snapshot[t] = Initial + SumFunction([m \in Matches |-> Change(t, m)])

\* An entry that commits between the search and the lock of the archive claim
\* leaves a match that nobody may start or settle any more, against the comment
\* of the claim (contest.sql:853) and docs/08, 02-数据模型, 5.2.
Stranded(m) == archToken # "none" /\ status[m] \in Active

\* Every match the contest accepted is settled and its resources are given
\* back, unless its verdict is unusable or it is stranded for good.
MatchesEnd ==
    \A m \in Matches :
        status[m] = "pending" ~>
            finalized[m] \/ verdict[m] = "unusable" \/ []Stranded(m)

\* A contest whose time is over is archived, unless it has such a match.
ContestArchived ==
    over ~> \/ phase = "archived"
            \/ \E m \in Matches : verdict[m] = "unusable" \/ []Stranded(m)
=============================================================================
