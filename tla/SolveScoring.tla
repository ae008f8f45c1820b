---------------------------- MODULE SolveScoring ----------------------------
(***************************************************************************)
(* Scoring of a solve contest (M8) from the verdicts of the judge (M3).    *)
(*                                                                         *)
(* SubmitSolve asks M3 for a verdict and then stores its submission row, in *)
(* two transactions of two modules.  The verdict comes back as an event of *)
(* one of two subjects, each with a durable consumer of its own; the       *)
(* handler of a completed event reads the task from M3, and then scores    *)
(* the submission and refreshes the team's row of the ladder in one        *)
(* transaction.  Events are delivered at least once, in no order across    *)
(* the two subjects, and end in the dead letters when their handler keeps  *)
(* failing.  Each consumer handles one event at a time: this is EventBus   *)
(* with timely handlers.  M3 is reduced to what its contract promises      *)
(* (JudgeContract); a teacher may rejudge.                                 *)
(***************************************************************************)
EXTENDS Integers, FiniteSets, FiniteSetsExt

CONSTANTS
    Submissions,    \* solve_submission ids
    TeamOf,         \* the team of each submission
    Assignments,    \* the ways to spread the submissions over contest problems
    Score,          \* contest_problem.score
    MinScore,       \* dynamic_score.min_score
    Decay,          \* dynamic_score.decay_per_solve
    Partial,        \* scaled score of a submission that does not pass
    Penalties,      \* scores a cheat record may take off
    MaxReruns,      \* bound on the rejudges, of all the tasks together
    MaxRepeats      \* bound on the deliveries after a handler committed, of all events

ASSUME ScoreAssumption ==
    Score \in Nat /\ MinScore \in 1 .. Score /\ Decay \in Nat \ {0} /\ Partial \in 0 .. Score
ASSUME BoundAssumption == Penalties \subseteq Nat /\ MaxReruns \in Nat /\ MaxRepeats \in Nat

VARIABLES
    ProblemOf,  \* the contest problem of each submission, one of Assignments
    task,       \* M3: judge_task and its latest judge_result
    row,        \* solve_submission
    board,      \* ladder_rank of each team
    pending,    \* events not yet consumed, with the deliveries that committed
    reading,    \* the completed event being handled and the verdict read for it
    dropped,    \* submissions an event of which went to the dead letters
    handled,    \* history: the deliveries handled for each submission, as <<run, repeats>>
    penalty,    \* history: what cheat records took off the score of each team
    solvers     \* history: the teams that solved a problem, before anyone else did

vars == <<ProblemOf, task, row, board, pending, reading, dropped, handled, penalty,
          solvers>>

-----------------------------------------------------------------------------
(* Values *)

Teams    == {TeamOf[s] : s \in Submissions}
Problems == UNION {{f[s] : s \in Submissions} : f \in Assignments}

\* A contest has finitely many problems and submissions.
ASSUME FiniteAssumption == IsFiniteSet(Submissions) /\ IsFiniteSet(Problems)

Subjects == {"completed", "failed"}
Event    == [sub : Submissions, run : Nat, subject : Subjects, repeats : Nat]
NoEvent  == [sub |-> "none"]
NoRow    == [exists |-> FALSE, passed |-> FALSE, score |-> 0]
NoTask   == [phase |-> "unknown", run |-> 0, passed |-> FALSE]

Larger(x, y) == IF x > y THEN x ELSE y

\* Faults the properties are tested against stand in front of the definition
\* they replace, under the name of that definition and the fault.

Passed_Judged(t, p, rows) ==
    {s \in Submissions : TeamOf[s] = t /\ ProblemOf[s] = p /\ rows[s].exists}

Passed(t, p, rows) ==
    {s \in Submissions : TeamOf[s] = t /\ ProblemOf[s] = p /\ rows[s].passed}

SolvedTeams_Submissions(p) == {s \in Submissions : ProblemOf[s] = p /\ row[s].passed}

\* CountProblemSolvedTeams
SolvedTeams(p) == {t \in Teams : Passed(t, p, row) # {}}

DynamicScore_Unclamped(p) == Score - Cardinality(SolvedTeams(p)) * Decay

\* dynamicSolveScore: every team that has solved the problem takes off Decay,
\* down to MinScore.
DynamicScore(p) == Larger(MinScore, Score - Cardinality(SolvedTeams(p)) * Decay)

Best(t, p, rows) == Max({rows[s].score : s \in Passed(t, p, rows)})

\* SumTeamSolvedScore: the best passed submission of each problem.
TeamScore(t, rows) ==
    LET solved == {p \in Problems : Passed(t, p, rows) # {}}
    IN  [score  |-> SumFunction([p \in solved |-> Best(t, p, rows)]),
         solved |-> Cardinality(solved)]

Refreshed_Before(t, rows) == [board EXCEPT ![t] = TeamScore(t, row)]

\* refreshTeamRank
Refreshed(t, rows) == [board EXCEPT ![t] = TeamScore(t, rows)]

Handleable_Missing(s) == TRUE

\* The handlers of an unknown submission fail (ErrContestSubmissionNotFound).
Handleable(s) == row[s].exists

-----------------------------------------------------------------------------
(* Submissions and verdicts *)

\* SubmitSolve asks for a verdict; the task starts before the row is stored.
AskJudge(s) ==
    /\ task[s].phase = "unknown"
    /\ task' = [task EXCEPT ![s].phase = "pending"]
    /\ UNCHANGED <<ProblemOf, row, board, pending, reading, dropped, handled, penalty, solvers>>

\* SubmitSolve stores the row, unless the process stops in between.  The task
\* it got was created for this submission, so the answer holds no verdict yet.
StoreRow(s) ==
    /\ task[s].phase # "unknown" /\ ~row[s].exists
    /\ row' = [row EXCEPT ![s] = [exists |-> TRUE, passed |-> FALSE, score |-> 0]]
    /\ UNCHANGED <<ProblemOf, task, board, pending, reading, dropped, handled, penalty, solvers>>

\* M3 decides, with a result or without one, and announces it.
Decide(s, subject, passed) ==
    /\ task[s].phase = "pending"
    /\ subject = "failed" => ~passed
    /\ task' = [task EXCEPT ![s].phase = IF subject = "completed" THEN "done" ELSE "failed",
                            ![s].passed = IF subject = "completed" THEN passed ELSE @]
    /\ pending' = pending \cup
                    {[sub |-> s, run |-> task[s].run, subject |-> subject, repeats |-> 0]}
    /\ UNCHANGED <<ProblemOf, row, board, reading, dropped, handled, penalty, solvers>>

Rejudge(s) ==
    /\ task[s].phase \in {"done", "failed"}
    /\ SumFunction([u \in Submissions |-> task[u].run]) < MaxReruns
    /\ task' = [task EXCEPT ![s].phase = "pending", ![s].run = @ + 1]
    /\ UNCHANGED <<ProblemOf, row, board, pending, reading, dropped, handled, penalty, solvers>>

\* CreateCheatRecord with a deduction; bounded to one of them for each team.
\* applyCheatPenalty reads and overwrites the row without a lock; it is one step
\* here, and of the score of a team with a deduction only its bounds are stated.
Penalize(t, amount) ==
    /\ penalty[t] = 0
    /\ board' = [board EXCEPT ![t].score = Larger(0, @ - amount)]
    /\ penalty' = [penalty EXCEPT ![t] = @ + board[t].score - board'[t].score]
    /\ UNCHANGED <<ProblemOf, task, row, pending, reading, dropped, handled, solvers>>

-----------------------------------------------------------------------------
(* The consumers *)

\* Deliveries of an event whose handler had committed before.
Repeated ==
    {e \in pending : e.repeats > 0}
        \cup UNION {{[sub |-> s, run |-> h[1], repeats |-> h[2]] : h \in {g \in handled[s] : g[2] > 0}}
                    : s \in Submissions}

\* The handler of event e has committed.  It is delivered again when the push
\* of the leaderboard failed or the acknowledgement was lost.
Consume(e, again) ==
    /\ again => Cardinality(Repeated) < MaxRepeats
    /\ pending' = (pending \ {e}) \cup
                    (IF again THEN {[e EXCEPT !.repeats = @ + 1]} ELSE {})
    /\ handled' = [handled EXCEPT ![e.sub] = @ \cup {<<e.run, e.repeats>>}]

\* HandleSolveJudgeCompleted reads the task and its latest result.
ReadTask(e) ==
    /\ reading = NoEvent
    /\ e.subject = "completed"
    /\ reading' = [event |-> e, passed |-> task[e.sub].passed]
    /\ UNCHANGED <<ProblemOf, task, row, board, pending, dropped, handled, penalty, solvers>>

\* Its transaction.
ApplyCompleted(again) ==
    /\ reading # NoEvent
    /\ LET e == reading.event
           s == e.sub
           score == IF reading.passed THEN DynamicScore(ProblemOf[s]) ELSE Partial
       IN  /\ Handleable(s)
           /\ row' = [row EXCEPT ![s].passed = reading.passed, ![s].score = score]
           /\ board' = IF reading.passed THEN Refreshed(TeamOf[s], row') ELSE board
           /\ solvers' = IF reading.passed
                         THEN [solvers EXCEPT ![ProblemOf[s]] =
                                [t \in Teams |-> IF t = TeamOf[s] /\ @[t] = -1
                                                 THEN Cardinality({u \in Teams : @[u] # -1})
                                                 ELSE @[t]]]
                         ELSE solvers
           /\ Consume(e, again)
    /\ reading' = NoEvent
    /\ UNCHANGED <<ProblemOf, task, dropped, penalty>>

\* The transaction fails or the process stops; the event is delivered again.
GiveUp ==
    /\ reading # NoEvent
    /\ reading' = NoEvent
    /\ UNCHANGED <<ProblemOf, task, row, board, pending, dropped, handled, penalty, solvers>>

\* HandleSolveJudgeFailed
ApplyFailed(e, again) ==
    /\ e.subject = "failed"
    /\ Handleable(e.sub)
    /\ row' = [row EXCEPT ![e.sub].passed = FALSE, ![e.sub].score = 0]
    /\ Consume(e, again)
    /\ UNCHANGED <<ProblemOf, task, board, reading, dropped, penalty, solvers>>

\* The retries of the consumer are used up.
DeadLetter(e) ==
    /\ reading # NoEvent => reading.event # e
    /\ pending' = pending \ {e}
    /\ dropped' = dropped \cup {e.sub}
    /\ UNCHANGED <<ProblemOf, task, row, board, reading, handled, penalty, solvers>>

-----------------------------------------------------------------------------
(* Specification *)

Init ==
    /\ ProblemOf \in Assignments
    /\ task = [s \in Submissions |-> NoTask]
    /\ row = [s \in Submissions |-> NoRow]
    /\ board = [t \in Teams |-> [score |-> 0, solved |-> 0]]
    /\ pending = {}
    /\ reading = NoEvent
    /\ dropped = {}
    /\ handled = [s \in Submissions |-> {}]
    /\ penalty = [t \in Teams |-> 0]
    /\ solvers = [p \in Problems |-> [t \in Teams |-> -1]]

Next ==
    \/ \E s \in Submissions :
        \/ AskJudge(s)
        \/ StoreRow(s)
        \/ \E subject \in Subjects, passed \in BOOLEAN : Decide(s, subject, passed)
        \/ Rejudge(s)
    \/ \E t \in Teams, amount \in Penalties : Penalize(t, amount)
    \/ \E e \in pending :
        \/ ReadTask(e)
        \/ \E again \in BOOLEAN : ApplyFailed(e, again)
        \/ DeadLetter(e)
    \/ \E again \in BOOLEAN : ApplyCompleted(again)
    \/ GiveUp

Spec == Init /\ [][Next]_vars
-----------------------------------------------------------------------------
(* Properties *)

\* Submissions all of whose verdicts have been consumed.
Settled(s) ==
    /\ row[s].exists /\ s \notin dropped
    /\ task[s].phase \in {"done", "failed"}
    /\ \A e \in pending : e.sub # s

\* The rows have their types; a passed submission is worth at least MinScore,
\* however many teams solved its problem, and none is worth more than Score.
\* UpdateSolveSubmissionResult and CreateOrUpdateLadderRank write what
\* dynamicSolveScore and SumTeamSolvedScore return.
TypeOK ==
    /\ ProblemOf \in Assignments
    /\ task \in [Submissions -> [phase : {"unknown", "pending", "done", "failed"},
                                  run : 0 .. MaxReruns, passed : BOOLEAN]]
    /\ row \in [Submissions -> [exists : BOOLEAN, passed : BOOLEAN, score : 0 .. Score]]
    /\ \A s \in Submissions : row[s].passed => row[s].exists /\ row[s].score >= MinScore
    /\ board \in [Teams -> [score : 0 .. Score * Cardinality(Problems),
                             solved : 0 .. Cardinality(Problems)]]
    /\ pending \subseteq Event
    /\ reading # NoEvent => reading.event \in pending /\ reading.passed \in BOOLEAN
    /\ dropped \subseteq Submissions
    /\ handled \in [Submissions -> SUBSET ((0 .. MaxReruns) \X (0 .. MaxRepeats))]
    /\ penalty \in [Teams -> Nat]
    /\ solvers \in [Problems -> [Teams -> -1 .. Cardinality(Teams)]]

\* The ladder credits a team only with problems a verdict let it pass, at most
\* Score for each, through rejudges, redeliveries and deductions
\* (refreshTeamRank counts passed submissions only).
CreditEarned ==
    \A t \in Teams :
        LET earned == Cardinality({p \in Problems : solvers[p][t] # -1})
        IN  board[t].solved <= earned /\ board[t].score <= earned * Score

NeverRejudged == \A s \in Submissions : task[s].run = 0

\* While nothing is deducted, the row of a team in the ladder is the sum over
\* its passed submissions: refreshTeamRank runs in the transaction that writes
\* a passing result.  Only a rejudge that takes a pass back breaks this: the
\* handlers of a result that does not pass leave the ladder alone.
BoardIsSum ==
    NeverRejudged =>
        \A t \in Teams : penalty[t] = 0 => board[t] = TeamScore(t, row)

\* A submission whose events were consumed, and none of them given up, shows
\* the verdict of its task, also when the verdict arrived before the row was
\* stored (HandleSolveJudgeCompleted, HandleSolveJudgeFailed).  Only its own
\* rejudge breaks this: the completed and the failed events of a task have
\* consumers of their own, and neither handler compares the run of the event
\* with the one the row shows.
VerdictApplied ==
    \A s \in Submissions :
        Settled(s) /\ task[s].run = 0
            => row[s].passed = (task[s].phase = "done" /\ task[s].passed)

\* As long as nothing was delivered again, rejudged or deducted, a problem is
\* worth to a team what the number of other teams that passed it earlier leaves
\* of its score: no later submission of any team changes it (dynamicSolveScore
\* counts teams, and SumTeamSolvedScore takes the best submission).
Unrepeated == \A s \in Submissions : \A h \in handled[s] : h[2] = 0

ScoreByOrder ==
    Unrepeated /\ NeverRejudged =>
        \A t \in Teams :
            LET solved == {p \in Problems : solvers[p][t] # -1}
            IN  penalty[t] = 0 =>
                    board[t].score =
                        SumFunction([p \in solved |-> Larger(MinScore, Score - solvers[p][t] * Decay)])

\* Only its own rejudge takes a pass back: neither a late failed event nor a
\* redelivery does, since the judge announces one verdict of a run.
PassIsFinal ==
    [][\A s \in Submissions : task'[s].run = 0 /\ row[s].passed => row'[s].passed]_vars

\* No two teams take the same place in the order of solving a problem, on which
\* dynamicSolveScore bases what each of them gets: the handlers that count the
\* teams before run one after the other (durable consumer of the completed
\* events).
OnePlaceEach ==
    \A p \in Problems : \A t, u \in Teams :
        t # u /\ solvers[p][t] # -1 => solvers[p][t] # solvers[p][u]

\* What the documentation promises and the code does not keep.

Runs(deliveries) == {h[1] : h \in deliveries}

\* Handlers are idempotent: an event of a run already handled changes no
\* submission.  dynamicSolveScore counts the team's own earlier pass when the
\* event comes again.
Idempotent ==
    [][\A s \in Submissions :
          row[s].exists /\ row'[s] # row[s] => Runs(handled'[s]) # Runs(handled[s])]_vars
=============================================================================
