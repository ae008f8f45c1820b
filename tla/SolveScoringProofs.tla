------------------------- MODULE SolveScoringProofs -------------------------
(***************************************************************************)
(* Theorems about SolveScoring, for any number of submissions, teams and   *)
(* problems, any scores, and any bounds on rejudges and redeliveries.      *)
(***************************************************************************)
EXTENDS SolveScoring, Sums, TLAPS

USE ScoreAssumption, BoundAssumption, FiniteAssumption

-----------------------------------------------------------------------------
(* Points of a team *)

Rows == [Submissions -> [exists : BOOLEAN, passed : BOOLEAN, score : 0 .. Score]]

\* TeamScore and what it is made of, for given problems P of the submissions.
PassedOf(P, t, p, rows) == {s \in Submissions : TeamOf[s] = t /\ P[s] = p /\ rows[s].passed}
PointsOf(P, t, p, rows) == {rows[s].score : s \in PassedOf(P, t, p, rows)}
SolvedOf(P, t, rows)    == {p \in Problems : PassedOf(P, t, p, rows) # {}}
BestsOf(P, t, rows)     == [p \in SolvedOf(P, t, rows) |-> Max(PointsOf(P, t, p, rows))]
ScoreOf(P, t, rows) ==
    [score  |-> SumFunctionOnSet(BestsOf(P, t, rows), SolvedOf(P, t, rows)),
     solved |-> Cardinality(SolvedOf(P, t, rows))]

LEMMA ScoreIs ==
    ASSUME NEW t, NEW rows
    PROVE  /\ TeamScore(t, rows) = ScoreOf(ProblemOf, t, rows)
           /\ \A p : Passed(t, p, rows) = PassedOf(ProblemOf, t, p, rows)
  <1>1. \A p : Passed(t, p, rows) = PassedOf(ProblemOf, t, p, rows)
    BY DEF Passed, PassedOf
  <1>2. \A p : Best(t, p, rows) = Max(PointsOf(ProblemOf, t, p, rows))
    BY <1>1 DEF Best, PointsOf
  <1>3. {p \in Problems : Passed(t, p, rows) # {}} = SolvedOf(ProblemOf, t, rows)
    BY <1>1 DEF SolvedOf
  <1>4. [p \in SolvedOf(ProblemOf, t, rows) |-> Best(t, p, rows)] = BestsOf(ProblemOf, t, rows)
    BY <1>2 DEF BestsOf
  <1>5. DOMAIN BestsOf(ProblemOf, t, rows) = SolvedOf(ProblemOf, t, rows)
    BY DEF BestsOf
  <1>6. TeamScore(t, rows) = [score  |-> SumFunction(BestsOf(ProblemOf, t, rows)),
                              solved |-> Cardinality(SolvedOf(ProblemOf, t, rows))]
    BY <1>3, <1>4 DEF TeamScore
  <1> QED
    BY <1>1, <1>5, <1>6 DEF ScoreOf, SumFunction

\* The points of the passed submissions have a maximum.
LEMMA BestIs ==
    ASSUME NEW P, NEW t, NEW p, NEW rows \in Rows, PassedOf(P, t, p, rows) # {}
    PROVE  /\ Max(PointsOf(P, t, p, rows)) \in 0 .. Score
           /\ Max(PointsOf(P, t, p, rows)) \in PointsOf(P, t, p, rows)
           /\ \A n \in PointsOf(P, t, p, rows) : n \in 0 .. Score /\ n <= Max(PointsOf(P, t, p, rows))
  <1>1. PointsOf(P, t, p, rows) \subseteq 0 .. Score /\ PointsOf(P, t, p, rows) # {}
    BY DEF PointsOf, PassedOf, Rows
  <1>2. IsFiniteSet(PointsOf(P, t, p, rows))
    <2>1. IsFiniteSet(0 .. Score)
      BY FS_Interval
    <2> QED
      BY <1>1, <2>1, FS_Subset
  <1>3. PointsOf(P, t, p, rows) \subseteq Int
    BY <1>1
  <1> QED
    BY <1>1, <1>2, <1>3, MaxOf

LEMMA ScoreBound ==
    ASSUME NEW P, NEW t, NEW rows \in Rows
    PROVE  /\ IsFiniteSet(SolvedOf(P, t, rows))
           /\ ScoreOf(P, t, rows).score \in Nat
           /\ ScoreOf(P, t, rows).score <= Cardinality(SolvedOf(P, t, rows)) * Score
           /\ ScoreOf(P, t, rows).solved = Cardinality(SolvedOf(P, t, rows))
  <1>1. IsFiniteSet(SolvedOf(P, t, rows))
    BY FS_Subset DEF SolvedOf
  <1>2. \A p \in SolvedOf(P, t, rows) : BestsOf(P, t, rows)[p] \in 0 .. Score
    BY BestIs DEF BestsOf, SolvedOf
  <1> QED
    BY <1>1, <1>2, SumBounds DEF ScoreOf

\* More problems allow more points.
LEMMA MoreProblems ==
    ASSUME NEW S, IsFiniteSet(S), NEW T \in SUBSET S
    PROVE  /\ Cardinality(T) \in Nat /\ Cardinality(S) \in Nat
           /\ Cardinality(T) <= Cardinality(S)
           /\ Cardinality(T) * Score \in Nat /\ Cardinality(T) * Score <= Cardinality(S) * Score
  <1>1. Cardinality(T) \in Nat /\ Cardinality(S) \in Nat /\ Cardinality(T) <= Cardinality(S)
    BY FS_Subset, FS_CardinalityType
  <1>2. \A m, n \in Nat : m <= n => m * Score \in Nat /\ m * Score <= n * Score
    OBVIOUS
  <1> QED
    BY <1>1, <1>2

LEMMA ScoreType ==
    ASSUME NEW P, NEW t, NEW rows \in Rows
    PROVE  ScoreOf(P, t, rows) \in [score : 0 .. Score * Cardinality(Problems), solved : 0 .. Cardinality(Problems)]
  <1> DEFINE n == Cardinality(SolvedOf(P, t, rows))
             all == Cardinality(Problems)
  <1>1. n \in Nat /\ all \in Nat /\ n <= all /\ n * Score \in Nat /\ n * Score <= all * Score
    BY MoreProblems DEF SolvedOf
  <1>2. all * Score = Score * all
    BY <1>1
  <1>3. ScoreOf(P, t, rows).score \in Nat /\ ScoreOf(P, t, rows).score <= n * Score /\ ScoreOf(P, t, rows).solved = n
    BY ScoreBound
  <1>4. n * Score \in Int /\ Score * all \in Int /\ n * Score <= Score * all
    BY <1>1, <1>2
  <1> HIDE DEF n, all
  <1>5. ScoreOf(P, t, rows).score \in 0 .. Score * all /\ ScoreOf(P, t, rows).solved \in 0 .. all
    BY <1>1, <1>3, <1>4
  <1> QED
    BY <1>5 DEF ScoreOf, all

\* Only the passed submissions of the team matter.
LEMMA SameScore ==
    ASSUME NEW P, NEW t, NEW rows, NEW rows2,
           \A s \in Submissions : TeamOf[s] = t =>
               /\ rows2[s].passed = rows[s].passed
               /\ rows[s].passed => rows2[s].score = rows[s].score
    PROVE  /\ \A p : PassedOf(P, t, p, rows2) = PassedOf(P, t, p, rows)
           /\ \A p : PointsOf(P, t, p, rows2) = PointsOf(P, t, p, rows)
           /\ ScoreOf(P, t, rows2) = ScoreOf(P, t, rows)
  <1>1. \A p : PassedOf(P, t, p, rows2) = PassedOf(P, t, p, rows)
    BY DEF PassedOf
  <1>2. \A p : \A s \in PassedOf(P, t, p, rows) : rows2[s].score = rows[s].score
    BY DEF PassedOf
  <1>3. \A p : PointsOf(P, t, p, rows2) = PointsOf(P, t, p, rows)
    BY <1>1, <1>2 DEF PointsOf
  <1>4. SolvedOf(P, t, rows2) = SolvedOf(P, t, rows)
    BY <1>1 DEF SolvedOf
  <1>5. BestsOf(P, t, rows2) = BestsOf(P, t, rows)
    BY <1>3, <1>4 DEF BestsOf
  <1> QED
    BY <1>1, <1>3, <1>4, <1>5 DEF ScoreOf

LEMMA DynamicScoreType ==
    ASSUME NEW p
    PROVE  DynamicScore(p) \in MinScore .. Score /\ DynamicScore(p) \in 0 .. Score
  <1>1. IsFiniteSet(Teams)
    BY ImageFinite DEF Teams
  <1>2. IsFiniteSet(SolvedTeams(p))
    BY <1>1, FS_Subset DEF SolvedTeams
  <1>3. Cardinality(SolvedTeams(p)) \in Nat
    BY <1>2, FS_CardinalityType
  <1>4. \A n \in Nat : n * Decay \in Nat
    OBVIOUS
  <1>5. Cardinality(SolvedTeams(p)) * Decay \in Nat
    BY <1>3, <1>4
  <1> DEFINE off == Cardinality(SolvedTeams(p)) * Decay
  <1>6. DynamicScore(p) = Larger(MinScore, Score - off)
    BY DEF DynamicScore
  <1>7. off \in Nat
    BY <1>5
  <1> HIDE DEF off
  <1> QED
    BY <1>6, <1>7 DEF Larger

-----------------------------------------------------------------------------
(* Types *)

\* The bounds the types need: of the rejudges all together, and of the
\* deliveries of one event, each of which leaves a trace of its own.
Bounded ==
    /\ SumFunctionOnSet([u \in Submissions |-> task[u].run], Submissions) <= MaxReruns
    /\ IsFiniteSet(pending)
    /\ \A e \in pending : /\ e.run <= MaxReruns /\ e.repeats <= MaxRepeats
                          /\ \A j \in 1 .. e.repeats - 1 : <<e.run, j>> \in handled[e.sub]
    /\ reading # NoEvent => reading.event.subject = "completed"

LEMMA TeamsFinite == IsFiniteSet(Teams)
  BY ImageFinite DEF Teams

LEMMA RepeatsLeft ==
    ASSUME TypeOK, Bounded, NEW e \in pending, Cardinality(Repeated) < MaxRepeats
    PROVE  e.repeats < MaxRepeats
  <1> DEFINE mark(x) == [sub |-> x[1], run |-> x[2][1], repeats |-> x[2][2]]
             Triples == Submissions \X ((0 .. MaxReruns) \X (0 .. MaxRepeats))
             Marks == {mark(x) : x \in Triples}
             Old == UNION {{[sub |-> s, run |-> h[1], repeats |-> h[2]] : h \in {g \in handled[s] : g[2] > 0}}
                           : s \in Submissions}
  <1>1. IsFiniteSet(Triples)
    <2>1. IsFiniteSet(0 .. MaxReruns) /\ IsFiniteSet(0 .. MaxRepeats)
      BY FS_Interval
    <2>2. IsFiniteSet((0 .. MaxReruns) \X (0 .. MaxRepeats))
      BY <2>1, FS_Product
    <2> QED
      BY <2>2, FS_Product
  <1>2. IsFiniteSet(Marks)
    <2> DEFINE f == [x \in Triples |-> mark(x)]
    <2>1. Marks = {f[x] : x \in Triples}
      OBVIOUS
    <2> HIDE DEF f, Marks, Triples
    <2> QED BY <1>1, <2>1, ImageFinite
  <1>3. Old \subseteq Marks
    <2>1. ASSUME NEW s \in Submissions, NEW h \in handled[s]
          PROVE  [sub |-> s, run |-> h[1], repeats |-> h[2]] \in Marks
      <3>1. h \in (0 .. MaxReruns) \X (0 .. MaxRepeats)
        BY DEF TypeOK
      <3>2. <<s, h>> \in Triples
        BY <3>1
      <3>3. [sub |-> s, run |-> h[1], repeats |-> h[2]] = mark(<<s, h>>)
        OBVIOUS
      <3> QED
        BY <3>2, <3>3
    <2> HIDE DEF Marks
    <2> QED
      BY <2>1
  <1>4. IsFiniteSet(Repeated)
    <2>1. IsFiniteSet(Old)
      BY <1>2, <1>3, FS_Subset
    <2>2. IsFiniteSet({d \in pending : d.repeats > 0})
      BY FS_Subset DEF Bounded
    <2>3. Repeated = {d \in pending : d.repeats > 0} \cup Old
      BY DEF Repeated
    <2> HIDE DEF Old
    <2> QED BY <2>1, <2>2, <2>3, FS_Union
  <1> DEFINE k == e.repeats
             f == [j \in 1 .. k |-> IF j = k THEN e ELSE [sub |-> e.sub, run |-> e.run, repeats |-> j]]
  <1>5. e.sub \in Submissions /\ k \in Nat
    BY DEF TypeOK, Event
  <1>6. \A j \in 1 .. k : f[j] \in Repeated
    <2> SUFFICES ASSUME NEW j \in 1 .. k PROVE f[j] \in Repeated
      OBVIOUS
    <2>1. CASE j = k
      BY <2>1, <1>5 DEF Repeated
    <2>2. CASE j # k
      <3>1. <<e.run, j>> \in handled[e.sub]
        BY <1>5, <2>2 DEF Bounded
      <3>2. [sub |-> e.sub, run |-> e.run, repeats |-> j] \in Old
        BY <1>5, <3>1
      <3> HIDE DEF Old
      <3>3. Old \subseteq Repeated
        BY DEF Repeated, Old
      <3> QED
        BY <2>2, <3>2, <3>3
    <2> QED
      BY <2>1, <2>2
  <1>7. \A j \in 1 .. k : f[j].repeats = j
    OBVIOUS
  <1>8. f \in Injection(1 .. k, Repeated)
    <2>1. f \in [1 .. k -> Repeated]
      BY <1>6
    <2> HIDE DEF f
    <2>2. IsInjective(f)
      BY <1>7, <2>1 DEF IsInjective
    <2> QED
      BY <2>1, <2>2 DEF Injection
  <1>9. Cardinality(1 .. k) <= Cardinality(Repeated)
    <2> HIDE DEF f, k
    <2> QED BY <1>4, <1>8, FS_Injection
  <1>10. Cardinality(1 .. k) = k
    <2> HIDE DEF k
    <2> QED BY <1>5, FS_Interval
  <1>11. Cardinality(Repeated) \in Nat
    BY <1>4, FS_CardinalityType
  <1> QED
    BY <1>5, <1>9, <1>10, <1>11

\* One delivery handled: what Consume does to the types and the bounds.
LEMMA ConsumeType ==
    ASSUME TypeOK, Bounded, NEW e \in pending, NEW again \in BOOLEAN, Consume(e, again)
    PROVE  /\ pending' \subseteq Event /\ IsFiniteSet(pending')
           /\ handled' \in [Submissions -> SUBSET ((0 .. MaxReruns) \X (0 .. MaxRepeats))]
           /\ \A d \in pending \ {e} : d \in pending'
           /\ \A d \in pending' : /\ d.run <= MaxReruns /\ d.repeats <= MaxRepeats
                                  /\ \A j \in 1 .. d.repeats - 1 : <<d.run, j>> \in handled'[d.sub]
  <1> DEFINE next == [e EXCEPT !.repeats = @ + 1]
  <1>1. e \in Event /\ e.sub \in Submissions /\ e.run \in 0 .. MaxReruns /\ e.repeats \in 0 .. MaxRepeats
    BY DEF TypeOK, Event, Bounded
  <1>2. next \in Event /\ next.sub = e.sub /\ next.run = e.run /\ next.repeats = e.repeats + 1
    BY <1>1 DEF Event
  <1>3. pending' = (pending \ {e}) \cup (IF again THEN {next} ELSE {})
    BY DEF Consume
  <1>4. handled' = [handled EXCEPT ![e.sub] = @ \cup {<<e.run, e.repeats>>}]
    BY DEF Consume
  <1>5. again => next.repeats <= MaxRepeats
    BY <1>1, <1>2, RepeatsLeft DEF Consume
  <1> HIDE DEF next
  <1>6. pending' \subseteq Event /\ \A d \in pending \ {e} : d \in pending'
    BY <1>2, <1>3 DEF TypeOK
  <1>7. IsFiniteSet(pending')
    <2>1. IsFiniteSet(pending \ {e})
      BY FS_RemoveElement DEF Bounded
    <2>2. IsFiniteSet((pending \ {e}) \cup {next})
      BY <2>1, FS_AddElement
    <2> QED
      BY <1>3, <2>1, <2>2
  <1>8. handled' \in [Submissions -> SUBSET ((0 .. MaxReruns) \X (0 .. MaxRepeats))]
    BY <1>1, <1>4 DEF TypeOK
  <1>9. ASSUME NEW d \in pending'
        PROVE  /\ d.run <= MaxReruns /\ d.repeats <= MaxRepeats
               /\ \A j \in 1 .. d.repeats - 1 : <<d.run, j>> \in handled'[d.sub]
    <2>1. \A s \in Submissions : handled[s] \subseteq handled'[s]
      BY <1>1, <1>4 DEF TypeOK
    <2>2. CASE d \in pending
      <3>1. d.sub \in Submissions
        BY <2>2 DEF TypeOK, Event
      <3> QED
        BY <2>1, <2>2, <3>1 DEF Bounded
    <2>3. CASE d = next /\ again
      <3>1. d.run <= MaxReruns /\ d.repeats <= MaxRepeats
        BY <1>1, <1>2, <1>5, <2>3
      <3>2. ASSUME NEW j \in 1 .. d.repeats - 1 PROVE <<d.run, j>> \in handled'[d.sub]
        <4>1. j \in 1 .. e.repeats - 1 \/ j = e.repeats
          BY <1>1, <1>2, <2>3
        <4>2. <<e.run, e.repeats>> \in handled'[e.sub]
          BY <1>1, <1>4 DEF TypeOK
        <4>3. j \in 1 .. e.repeats - 1 => <<e.run, j>> \in handled[e.sub]
          BY DEF Bounded
        <4> QED
          BY <1>1, <1>2, <2>1, <2>3, <4>1, <4>2, <4>3
      <3> QED
        BY <3>1, <3>2
    <2> QED
      BY <1>3, <2>2, <2>3
  <1> QED
    BY <1>6, <1>7, <1>8, <1>9

Tasks == [phase : {"unknown", "pending", "done", "failed"}, run : 0 .. MaxReruns, passed : BOOLEAN]

LEMMA TaskChange ==
    ASSUME NEW r \in Tasks, NEW ph \in {"unknown", "pending", "done", "failed"},
           NEW n \in 0 .. MaxReruns, NEW b \in BOOLEAN
    PROVE  /\ [r EXCEPT !.phase = ph, !.passed = b] \in Tasks
           /\ [r EXCEPT !.phase = ph, !.run = n] \in Tasks
  <1>1. [r EXCEPT !.phase = ph] \in Tasks
    BY DEF Tasks
  <1>2. \A q \in Tasks : [q EXCEPT !.passed = b] \in Tasks /\ [q EXCEPT !.run = n] \in Tasks
    BY DEF Tasks
  <1>3. [r EXCEPT !.phase = ph, !.passed = b] = [[r EXCEPT !.phase = ph] EXCEPT !.passed = b]
    OBVIOUS
  <1>4. [r EXCEPT !.phase = ph, !.run = n] = [[r EXCEPT !.phase = ph] EXCEPT !.run = n]
    OBVIOUS
  <1> QED
    BY <1>1, <1>2, <1>3, <1>4

LEMMA TypeStep == TypeOK /\ Bounded /\ [Next]_vars => TypeOK'
  <1> SUFFICES ASSUME TypeOK, Bounded, [Next]_vars PROVE TypeOK'
    OBVIOUS
  <1>1. ASSUME NEW s \in Submissions, AskJudge(s) PROVE TypeOK'
    BY <1>1 DEF AskJudge, TypeOK
  <1>2. ASSUME NEW s \in Submissions, StoreRow(s) PROVE TypeOK'
    BY <1>2 DEF StoreRow, TypeOK
  <1>3. ASSUME NEW s \in Submissions, NEW subject \in Subjects, NEW passed \in BOOLEAN,
               Decide(s, subject, passed)
        PROVE  TypeOK'
    <2>1. task' \in [Submissions -> [phase : {"unknown", "pending", "done", "failed"},
                                     run : 0 .. MaxReruns, passed : BOOLEAN]]
      <3> DEFINE phase == IF subject = "completed" THEN "done" ELSE "failed"
                 verdict == IF subject = "completed" THEN passed ELSE task[s].passed
      <3>1. verdict \in BOOLEAN /\ phase \in {"unknown", "pending", "done", "failed"}
        BY DEF TypeOK
      <3>2. task' = [task EXCEPT ![s].phase = phase, ![s].passed = verdict]
        BY <1>3 DEF Decide, TypeOK
      <3> HIDE DEF phase, verdict
      <3> DEFINE one == [task[s] EXCEPT !.phase = phase, !.passed = verdict]
      <3>3. one \in Tasks
        <4>1. task[s] \in Tasks /\ 0 \in 0 .. MaxReruns /\ TRUE \in BOOLEAN
          BY DEF TypeOK, Tasks
        <4> QED
          BY <3>1, <4>1, TaskChange
      <3>4. task' = [task EXCEPT ![s] = one]
        BY <3>2 DEF TypeOK
      <3> HIDE DEF one
      <3> QED
        BY <3>3, <3>4 DEF TypeOK, Tasks
    <2>2. pending' \subseteq Event
      BY <1>3 DEF Decide, TypeOK, Event
    <2>3. \A e \in pending : e \in pending'
      BY <1>3 DEF Decide
    <2> QED
      BY <1>3, <2>1, <2>2, <2>3 DEF Decide, TypeOK
  <1>4. ASSUME NEW s \in Submissions, Rejudge(s) PROVE TypeOK'
    <2> DEFINE runs == [u \in Submissions |-> task[u].run]
    <2>1. \A u \in Submissions : runs[u] \in Nat
      BY DEF TypeOK
    <2>2. SumFunctionOnSet(runs, Submissions) < MaxReruns
      BY <1>4 DEF Rejudge, SumFunction
    <2>3. runs[s] = task[s].run
      OBVIOUS
    <2> HIDE DEF runs
    <2>4. SumFunctionOnSet(runs, Submissions) \in Nat /\ runs[s] <= SumFunctionOnSet(runs, Submissions)
      BY <2>1, SumMember
    <2>5. task[s].run + 1 \in 0 .. MaxReruns
      BY <2>1, <2>2, <2>3, <2>4
    <2>6. task' \in [Submissions -> [phase : {"unknown", "pending", "done", "failed"},
                                     run : 0 .. MaxReruns, passed : BOOLEAN]]
      <3> DEFINE n == task[s].run + 1
                 phase == "pending"
      <3>1. n \in 0 .. MaxReruns /\ phase \in {"unknown", "pending", "done", "failed"}
        BY <2>5
      <3>2. task' = [task EXCEPT ![s].phase = phase, ![s].run = n]
        BY <1>4 DEF Rejudge, TypeOK
      <3> HIDE DEF n, phase
      <3> DEFINE one == [task[s] EXCEPT !.phase = phase, !.run = n]
      <3>3. one \in Tasks
        <4>1. task[s] \in Tasks /\ 0 \in 0 .. MaxReruns /\ TRUE \in BOOLEAN
          BY DEF TypeOK, Tasks
        <4> QED
          BY <3>1, <4>1, TaskChange
      <3>4. task' = [task EXCEPT ![s] = one]
        BY <3>2 DEF TypeOK
      <3> HIDE DEF one
      <3> QED
        BY <3>3, <3>4 DEF TypeOK, Tasks
    <2> QED
      BY <1>4, <2>6 DEF Rejudge, TypeOK
  <1>5. ASSUME NEW t \in Teams, NEW amount \in Penalties, Penalize(t, amount) PROVE TypeOK'
    <2> DEFINE was == board[t].score
               all == Score * Cardinality(Problems)
    <2>1. amount \in Nat /\ was \in 0 .. all
      BY DEF TypeOK
    <2>2. all \in Nat
      <3>1. Cardinality(Problems) \in Nat
        BY FS_CardinalityType
      <3> QED BY <3>1
    <2>3. board' = [board EXCEPT ![t].score = Larger(0, was - amount)]
      BY <1>5 DEF Penalize
    <2>4. penalty' = [penalty EXCEPT ![t] = @ + was - board'[t].score]
      BY <1>5 DEF Penalize
    <2>5. board'[t].score = Larger(0, was - amount)
      BY <2>3 DEF TypeOK
    <2>6. Larger(0, was - amount) \in 0 .. all /\ was - Larger(0, was - amount) \in Nat
      <3> HIDE DEF was, all
      <3> QED BY <2>1, <2>2 DEF Larger
    <2>7. penalty' \in [Teams -> Nat]
      <3>1. penalty[t] \in Nat /\ was \in Int /\ Larger(0, was - amount) \in Int
        BY <2>1, <2>6 DEF TypeOK
      <3>2. penalty[t] + was - board'[t].score \in Nat
        BY <2>5, <2>6, <3>1
      <3> QED
        BY <2>4, <3>2 DEF TypeOK
    <2>8. board' \in [Teams -> [score : 0 .. all, solved : 0 .. Cardinality(Problems)]]
      <3> HIDE DEF was
      <3> QED BY <2>3, <2>6 DEF TypeOK
    <2> QED
      BY <1>5, <2>7, <2>8 DEF Penalize, TypeOK
  <1>6. ASSUME NEW e \in pending, ReadTask(e) PROVE TypeOK'
    <2>1. e.sub \in Submissions
      BY DEF TypeOK, Event
    <2>2. reading'.event \in pending' /\ reading'.passed \in BOOLEAN
      BY <1>6, <2>1 DEF ReadTask, TypeOK
    <2> QED
      BY <1>6, <2>2 DEF ReadTask, TypeOK
  <1>7. ASSUME NEW e \in pending, NEW again \in BOOLEAN, ApplyFailed(e, again) PROVE TypeOK'
    <2>1. pending' \subseteq Event /\ handled' \in [Submissions -> SUBSET ((0 .. MaxReruns) \X (0 .. MaxRepeats))]
          /\ \A d \in pending \ {e} : d \in pending'
      BY <1>7, ConsumeType DEF ApplyFailed
    <2>2. reading # NoEvent => reading.event # e
      BY <1>7 DEF ApplyFailed, Bounded
    <2>3. e.sub \in Submissions
      BY DEF TypeOK, Event
    <2>4. row' = [row EXCEPT ![e.sub].passed = FALSE, ![e.sub].score = 0]
      BY <1>7 DEF ApplyFailed
    <2>5. row' \in [Submissions -> [exists : BOOLEAN, passed : BOOLEAN, score : 0 .. Score]]
      <3> DEFINE s == e.sub
                 none == 0
      <3>1. none \in 0 .. Score /\ s \in Submissions
        BY <2>3
      <3>2. row' = [row EXCEPT ![s].passed = FALSE, ![s].score = none]
        BY <2>4
      <3> HIDE DEF s, none
      <3> QED
        BY <3>1, <3>2 DEF TypeOK
    <2>6. \A s \in Submissions : row'[s].passed => row'[s].exists /\ row'[s].score >= MinScore
      BY <2>3, <2>4 DEF TypeOK
    <2> QED
      BY <1>7, <2>1, <2>2, <2>5, <2>6 DEF ApplyFailed, TypeOK
  <1>8. ASSUME NEW e \in pending, DeadLetter(e) PROVE TypeOK'
    <2>1. e.sub \in Submissions
      BY DEF TypeOK, Event
    <2> QED
      BY <1>8, <2>1 DEF DeadLetter, TypeOK
  <1>9. ASSUME NEW again \in BOOLEAN, ApplyCompleted(again) PROVE TypeOK'
    <2> DEFINE e == reading.event
               s == e.sub
               p == ProblemOf[s]
               new == IF reading.passed THEN DynamicScore(p) ELSE Partial
    <2>1. e \in pending /\ s \in Submissions /\ reading.passed \in BOOLEAN
      BY <1>9 DEF ApplyCompleted, TypeOK, Event
    <2>2. TeamOf[s] \in Teams /\ p \in Problems
      BY <2>1 DEF Teams, Problems, TypeOK
    <2>3. Consume(e, again) /\ Handleable(s) /\ reading' = NoEvent
          /\ UNCHANGED <<ProblemOf, task, dropped, penalty>>
      BY <1>9 DEF ApplyCompleted
    <2>4. pending' \subseteq Event /\ handled' \in [Submissions -> SUBSET ((0 .. MaxReruns) \X (0 .. MaxRepeats))]
      BY <2>1, <2>3, ConsumeType
    <2>5. row' = [row EXCEPT ![s].passed = reading.passed, ![s].score = new]
      BY <1>9 DEF ApplyCompleted
    <2>6. new \in 0 .. Score /\ (reading.passed => new >= MinScore)
      BY DynamicScoreType
    <2>7. row[s].exists
      BY <2>3 DEF Handleable
    <2>8. row' \in Rows /\ \A u \in Submissions : row'[u].passed => row'[u].exists /\ row'[u].score >= MinScore
      <3> HIDE DEF e, s, new
      <3> QED BY <2>1, <2>5, <2>6, <2>7 DEF TypeOK, Rows
    <2>9. board' = IF reading.passed THEN Refreshed(TeamOf[s], row') ELSE board
      BY <1>9 DEF ApplyCompleted
    <2>10. board' \in [Teams -> [score : 0 .. Score * Cardinality(Problems), solved : 0 .. Cardinality(Problems)]]
      <3>1. TeamScore(TeamOf[s], row') \in [score : 0 .. Score * Cardinality(Problems), solved : 0 .. Cardinality(Problems)]
        BY <2>8, ScoreIs, ScoreType
      <3> HIDE DEF e, s
      <3> QED BY <2>2, <2>9, <3>1 DEF Refreshed, TypeOK
    <2>11. solvers' \in [Problems -> [Teams -> -1 .. Cardinality(Teams)]]
      <3> DEFINE n == Cardinality({u \in Teams : solvers[p][u] # -1})
                 one == [t \in Teams |-> IF t = TeamOf[s] /\ solvers[p][t] = -1 THEN n ELSE solvers[p][t]]
      <3>1. n \in 0 .. Cardinality(Teams)
        BY TeamsFinite, FS_Subset, FS_CardinalityType
      <3>2. Cardinality(Teams) \in Nat
        BY TeamsFinite, FS_CardinalityType
      <3>3. one \in [Teams -> -1 .. Cardinality(Teams)]
        <4> HIDE DEF n, p, s
        <4> QED BY <2>2, <3>1, <3>2 DEF TypeOK
      <3>4. solvers' = IF reading.passed THEN [solvers EXCEPT ![p] = one] ELSE solvers
        BY <1>9, <2>2 DEF ApplyCompleted, TypeOK
      <3> HIDE DEF one, p
      <3> QED
        BY <3>3, <3>4 DEF TypeOK
    <2> QED
      BY <2>3, <2>4, <2>8, <2>10, <2>11 DEF TypeOK, Rows
  <1>10. CASE GiveUp
    BY <1>10 DEF GiveUp, TypeOK
  <1>11. CASE UNCHANGED vars
    BY <1>11 DEF vars, TypeOK
  <1> QED
    BY <1>1, <1>2, <1>3, <1>4, <1>5, <1>6, <1>7, <1>8, <1>9, <1>10, <1>11 DEF Next

LEMMA BoundedStep == TypeOK /\ TypeOK' /\ Bounded /\ [Next]_vars => Bounded'
  <1> SUFFICES ASSUME TypeOK, TypeOK', Bounded, [Next]_vars PROVE Bounded'
    OBVIOUS
  <1> DEFINE runs == [u \in Submissions |-> task[u].run]
             runs2 == [u \in Submissions |-> task'[u].run]
             Events(es, hs) == /\ IsFiniteSet(es)
                               /\ \A e \in es : /\ e.run <= MaxReruns /\ e.repeats <= MaxRepeats
                                                /\ \A j \in 1 .. e.repeats - 1 : <<e.run, j>> \in hs[e.sub]
             Read(r) == r # NoEvent => r.event.subject = "completed"
  <1>a. Events(pending, handled) /\ Read(reading) /\ SumFunctionOnSet(runs, Submissions) <= MaxReruns
    BY DEF Bounded
  <1>b. ASSUME runs2 = runs, Events(pending', handled'), Read(reading') PROVE Bounded'
    BY <1>a, <1>b DEF Bounded
  <1>c. task' = task => runs2 = runs
    OBVIOUS
  <1>1. ASSUME NEW s \in Submissions, AskJudge(s) PROVE Bounded'
    <2>1. runs2 = runs
      BY <1>1 DEF AskJudge, TypeOK
    <2> QED
      BY <1>1, <1>a, <1>b, <2>1 DEF AskJudge
  <1>2. ASSUME NEW s \in Submissions, StoreRow(s) PROVE Bounded'
    BY <1>2, <1>a, <1>b, <1>c DEF StoreRow
  <1>3. ASSUME NEW s \in Submissions, NEW subject \in Subjects, NEW passed \in BOOLEAN,
               Decide(s, subject, passed)
        PROVE  Bounded'
    <2> DEFINE new == [sub |-> s, run |-> task[s].run, subject |-> subject, repeats |-> 0]
    <2>1. runs2 = runs
      <3>1. \A u \in Submissions : task'[u].run = task[u].run
        BY <1>3 DEF Decide, TypeOK
      <3> QED
        BY <3>1
    <2>2. task[s].run <= MaxReruns
      BY DEF TypeOK
    <2>3. pending' = pending \cup {new} /\ handled' = handled /\ reading' = reading
      BY <1>3 DEF Decide
    <2>4. new.run <= MaxReruns /\ new.repeats <= MaxRepeats /\ 1 .. new.repeats - 1 = {}
      BY <2>2
    <2>5. IsFiniteSet(pending \cup {new})
      <3> HIDE DEF new
      <3> QED BY <1>a, FS_AddElement
    <2> HIDE DEF new
    <2>6. Events(pending', handled')
      BY <1>a, <2>3, <2>4, <2>5
    <2> QED
      BY <1>a, <1>b, <2>1, <2>3, <2>6
  <1>4. ASSUME NEW s \in Submissions, Rejudge(s) PROVE Bounded'
    <2>1. SumFunctionOnSet(runs, Submissions) < MaxReruns
      BY <1>4 DEF Rejudge, SumFunction
    <2>2. /\ \A u \in Submissions : runs[u] \in Int /\ runs2[u] \in Int
          /\ \A u \in Submissions \ {s} : runs[u] = runs2[u]
          /\ runs2[s] = runs[s] + 1
      BY <1>4 DEF Rejudge, TypeOK
    <2>3. SumFunctionOnSet(runs2, Submissions) <= MaxReruns
      <3> HIDE DEF runs, runs2
      <3>1. SumFunctionOnSet(runs2, Submissions) = SumFunctionOnSet(runs, Submissions) + (runs2[s] - runs[s])
        BY <2>2, SumChange
      <3>2. SumFunctionOnSet(runs, Submissions) \in Int
        BY <2>2, SumTakeOut
      <3> QED
        BY <2>1, <2>2, <3>1, <3>2
    <2> QED
      BY <1>4, <1>a, <2>3 DEF Bounded, Rejudge
  <1>5. ASSUME NEW t \in Teams, NEW amount \in Penalties, Penalize(t, amount) PROVE Bounded'
    BY <1>5, <1>a, <1>b, <1>c DEF Penalize
  <1>6. ASSUME NEW e \in pending, ReadTask(e) PROVE Bounded'
    BY <1>6, <1>a, <1>b, <1>c DEF ReadTask
  <1>7. ASSUME NEW e \in pending, NEW again \in BOOLEAN, ApplyFailed(e, again) PROVE Bounded'
    <2>1. Events(pending', handled')
      BY <1>7, ConsumeType DEF ApplyFailed
    <2> QED
      BY <1>7, <1>a, <1>b, <1>c, <2>1 DEF ApplyFailed
  <1>8. ASSUME NEW e \in pending, DeadLetter(e) PROVE Bounded'
    <2>1. IsFiniteSet(pending')
      BY <1>8, <1>a, FS_RemoveElement DEF DeadLetter
    <2> QED
      BY <1>8, <1>a, <1>b, <1>c, <2>1 DEF DeadLetter
  <1>9. ASSUME NEW again \in BOOLEAN, ApplyCompleted(again) PROVE Bounded'
    <2>1. reading.event \in pending /\ Consume(reading.event, again) /\ reading' = NoEvent /\ task' = task
      BY <1>9 DEF ApplyCompleted, TypeOK
    <2>2. Events(pending', handled')
      BY <2>1, ConsumeType
    <2> QED
      BY <1>b, <1>c, <2>1, <2>2
  <1>10. CASE GiveUp
    BY <1>10, <1>a, <1>b, <1>c DEF GiveUp
  <1>11. CASE UNCHANGED vars
    BY <1>11, <1>a, <1>b, <1>c DEF vars
  <1> QED
    BY <1>1, <1>2, <1>3, <1>4, <1>5, <1>6, <1>7, <1>8, <1>9, <1>10, <1>11 DEF Next

-----------------------------------------------------------------------------
(* The first verdict of a submission *)

\* While submission s was not rejudged: it passes only by its verdict, has at
\* most one event, which tells the phase of its task and was handled before if
\* the submission already passes, and shows the verdict once the event is gone.
FirstOf(s) ==
    /\ row[s].passed => task[s].phase = "done" /\ task[s].passed
    /\ \A e \in pending : e.sub = s =>
        /\ e.run = 0
        /\ task[s].phase = IF e.subject = "completed" THEN "done" ELSE "failed"
        /\ e.repeats = 0 => ~ row[s].passed
        /\ \A f \in pending : f.sub = s => f = e
    /\ reading # NoEvent /\ reading.event.sub = s => reading.passed = task[s].passed
    /\ \/ ~ task[s].phase \in {"done", "failed"}
       \/ s \in dropped
       \/ \E e \in pending : e.sub = s
       \/ row[s].exists /\ row[s].passed = (task[s].phase = "done" /\ task[s].passed)

FirstVerdict == \A s \in Submissions : task[s].run = 0 => FirstOf(s)

\* What a handled event leaves among the events.
LEMMA ConsumeEvents ==
    ASSUME TypeOK, NEW e \in pending, NEW again \in BOOLEAN, Consume(e, again)
    PROVE  /\ \A d : d.sub # e.sub => (d \in pending' <=> d \in pending)
           /\ \A d \in pending' : d \in pending \/ (d.sub = e.sub /\ d.run = e.run
                                                    /\ d.subject = e.subject /\ d.repeats > 0)
           /\ \A d \in pending', f \in pending' :
                 (\A g \in pending : g.sub = e.sub => g = e) /\ d.sub = e.sub /\ f.sub = e.sub
                     => d = f /\ d.run = e.run /\ d.subject = e.subject /\ d.repeats > 0
  <1> DEFINE next == [e EXCEPT !.repeats = @ + 1]
  <1>1. next.sub = e.sub /\ next.run = e.run /\ next.subject = e.subject /\ next.repeats > 0
    BY DEF TypeOK, Event
  <1>2. pending' = (pending \ {e}) \cup (IF again THEN {next} ELSE {})
    BY DEF Consume
  <1> HIDE DEF next
  <1> QED
    BY <1>1, <1>2

LEMMA FirstStep == TypeOK /\ Bounded /\ FirstVerdict /\ [Next]_vars => FirstVerdict'
  <1> SUFFICES ASSUME TypeOK, Bounded, FirstVerdict, [Next]_vars,
                      NEW s \in Submissions, task'[s].run = 0
               PROVE  FirstOf(s)'
    BY DEF FirstVerdict
  <1> USE DEF FirstOf
  <1>a. ASSUME task'[s] = task[s], row'[s] = row[s], dropped' = dropped,
               \A d : d.sub = s => (d \in pending' <=> d \in pending),
               reading' = reading \/ reading' = NoEvent
        PROVE  FirstOf(s)'
    <2>1. FirstOf(s)
      BY <1>a DEF FirstVerdict
    <2> QED
      BY <1>a, <2>1
  <1>1. ASSUME NEW u \in Submissions, AskJudge(u) PROVE FirstOf(s)'
    <2>1. CASE u # s
      BY <1>1, <1>a, <2>1 DEF AskJudge, TypeOK
    <2>2. CASE u = s
      <3>1. task'[s].phase = "pending" /\ task'[s].passed = task[s].passed /\ task'[s].run = task[s].run
        BY <1>1, <2>2 DEF AskJudge, TypeOK
      <3>2. FirstOf(s) /\ task[s].phase = "unknown"
        BY <1>1, <2>2, <3>1 DEF FirstVerdict, AskJudge
      <3> QED
        BY <1>1, <3>1, <3>2 DEF AskJudge
    <2> QED
      BY <2>1, <2>2
  <1>2. ASSUME NEW u \in Submissions, StoreRow(u) PROVE FirstOf(s)'
    <2>1. CASE u # s
      BY <1>2, <1>a, <2>1 DEF StoreRow, TypeOK
    <2>2. CASE u = s
      <3>1. row'[s].exists /\ ~ row'[s].passed /\ ~ row[s].exists /\ ~ row[s].passed
        BY <1>2, <2>2 DEF StoreRow, TypeOK
      <3>2. FirstOf(s)
        BY <1>2 DEF FirstVerdict, StoreRow
      <3> QED
        BY <1>2, <3>1, <3>2 DEF StoreRow
    <2> QED
      BY <2>1, <2>2
  <1>3. ASSUME NEW u \in Submissions, NEW subject \in Subjects, NEW passed \in BOOLEAN,
               Decide(u, subject, passed)
        PROVE  FirstOf(s)'
    <2> DEFINE new == [sub |-> u, run |-> task[u].run, subject |-> subject, repeats |-> 0]
    <2>0. pending' = pending \cup {new} /\ reading' = reading /\ row' = row /\ dropped' = dropped
      BY <1>3 DEF Decide
    <2>1. CASE u # s
      <3>1. task'[s] = task[s]
        BY <1>3, <2>1 DEF Decide, TypeOK
      <3>2. new.sub # s
        BY <2>1
      <3> HIDE DEF new
      <3> QED
        BY <1>a, <2>0, <3>1, <3>2
    <2>2. CASE u = s
      <3>1. /\ task'[s].phase = IF subject = "completed" THEN "done" ELSE "failed"
            /\ task'[s].run = task[s].run
        BY <1>3, <2>2 DEF Decide, TypeOK
      <3>2. FirstOf(s) /\ task[s].phase = "pending" /\ task[s].run = 0
        BY <1>3, <2>2, <3>1 DEF FirstVerdict, Decide
      <3>3. new.sub = s /\ new.run = 0 /\ new.subject = subject
        BY <2>2, <3>2
      <3> HIDE DEF new
      <3>4. \A e \in pending : e.sub # s
        BY <3>2
      <3>5. ~ row[s].passed /\ (reading # NoEvent => reading.event.sub # s)
        BY <3>2, <3>4 DEF TypeOK
      <3> QED
        BY <2>0, <3>1, <3>3, <3>4, <3>5
    <2> QED
      BY <2>1, <2>2
  <1>4. ASSUME NEW u \in Submissions, Rejudge(u) PROVE FirstOf(s)'
    <2>1. u # s
      <3>1. u = s => task'[s].run = task[s].run + 1 /\ task[s].run \in Nat
        BY <1>4 DEF Rejudge, TypeOK
      <3> QED
        BY <3>1
    <2> QED
      BY <1>4, <1>a, <2>1 DEF Rejudge, TypeOK
  <1>5. ASSUME NEW t \in Teams, NEW amount \in Penalties, Penalize(t, amount) PROVE FirstOf(s)'
    BY <1>5, <1>a DEF Penalize
  <1>6. ASSUME NEW e \in pending, ReadTask(e) PROVE FirstOf(s)'
    <2>1. FirstOf(s)
      BY <1>6 DEF FirstVerdict, ReadTask
    <2>2. reading'.event = e /\ reading'.passed = task[e.sub].passed
      BY <1>6 DEF ReadTask
    <2> QED
      BY <1>6, <2>1, <2>2 DEF ReadTask
  <1>7. ASSUME NEW e \in pending, NEW again \in BOOLEAN, ApplyFailed(e, again) PROVE FirstOf(s)'
    <2>0. Consume(e, again) /\ task' = task /\ reading' = reading /\ dropped' = dropped
          /\ e.subject = "failed" /\ row[e.sub].exists /\ e.sub \in Submissions
      BY <1>7 DEF ApplyFailed, Handleable, TypeOK, Event
    <2>1. CASE e.sub # s
      <3>1. row'[s] = row[s]
        BY <1>7, <2>0, <2>1 DEF ApplyFailed, TypeOK
      <3>2. \A d : d.sub = s => (d \in pending' <=> d \in pending)
        BY <2>0, <2>1, ConsumeEvents
      <3> QED
        BY <1>a, <2>0, <3>1, <3>2
    <2>2. CASE e.sub = s
      <3>1. row'[s].exists /\ row'[s].passed = FALSE
        BY <1>7, <2>0, <2>2 DEF ApplyFailed, TypeOK
      <3>2. FirstOf(s)
        BY <2>0 DEF FirstVerdict
      <3>3. \A g \in pending : g.sub = e.sub => g = e
        BY <2>2, <3>2
      <3>4. \A d \in pending', f \in pending' : d.sub = s /\ f.sub = s
                => d = f /\ d.run = e.run /\ d.subject = e.subject /\ d.repeats > 0
        BY <2>0, <2>2, <3>3, ConsumeEvents
      <3>5. e.run = 0 /\ task[s].phase = "failed"
        BY <2>0, <2>2, <3>2
      <3> QED
        BY <2>0, <3>1, <3>2, <3>4, <3>5
    <2> QED
      BY <2>1, <2>2
  <1>8. ASSUME NEW e \in pending, DeadLetter(e) PROVE FirstOf(s)'
    <2>1. FirstOf(s)
      BY <1>8 DEF FirstVerdict, DeadLetter
    <2> QED
      BY <1>8, <2>1 DEF DeadLetter
  <1>9. ASSUME NEW again \in BOOLEAN, ApplyCompleted(again) PROVE FirstOf(s)'
    <2> DEFINE e == reading.event
               new == IF reading.passed THEN DynamicScore(ProblemOf[e.sub]) ELSE Partial
    <2>0. /\ Consume(e, again) /\ task' = task /\ reading' = NoEvent /\ dropped' = dropped
          /\ e \in pending /\ e.subject = "completed" /\ row[e.sub].exists /\ e.sub \in Submissions
          /\ reading # NoEvent /\ reading.passed \in BOOLEAN
      BY <1>9 DEF ApplyCompleted, Handleable, TypeOK, Event, Bounded
    <2>b. row' = [row EXCEPT ![e.sub].passed = reading.passed, ![e.sub].score = new]
      BY <1>9 DEF ApplyCompleted
    <2> HIDE DEF new
    <2>1. CASE e.sub # s
      <3>1. row'[s] = row[s]
        BY <2>b, <2>0, <2>1 DEF TypeOK
      <3>2. \A d : d.sub = s => (d \in pending' <=> d \in pending)
        BY <2>0, <2>1, ConsumeEvents
      <3> QED
        BY <1>a, <2>0, <3>1, <3>2
    <2>2. CASE e.sub = s
      <3>1. row'[s].exists /\ row'[s].passed = reading.passed
        BY <2>b, <2>0, <2>2 DEF TypeOK
      <3>2. FirstOf(s)
        BY <2>0 DEF FirstVerdict
      <3>3. \A g \in pending : g.sub = e.sub => g = e
        BY <2>0, <2>2, <3>2
      <3>4. \A d \in pending', f \in pending' : d.sub = s /\ f.sub = s
                => d = f /\ d.run = e.run /\ d.subject = e.subject /\ d.repeats > 0
        BY <2>0, <2>2, <3>3, ConsumeEvents
      <3>5. e.run = 0 /\ task[s].phase = "done" /\ reading.passed = task[s].passed
        BY <2>0, <2>2, <3>2
      <3> HIDE DEF e
      <3> QED
        BY <2>0, <3>1, <3>4, <3>5
    <2> QED
      BY <2>1, <2>2
  <1>10. CASE GiveUp
    BY <1>10, <1>a DEF GiveUp
  <1>11. CASE UNCHANGED vars
    BY <1>11, <1>a DEF vars
  <1> QED
    BY <1>1, <1>2, <1>3, <1>4, <1>5, <1>6, <1>7, <1>8, <1>9, <1>10, <1>11 DEF Next

LEMMA VerdictShown == TypeOK /\ FirstVerdict => VerdictApplied
  BY DEF TypeOK, FirstVerdict, FirstOf, VerdictApplied, Settled

-----------------------------------------------------------------------------
(* What a step does to passed submissions and to the ladder *)

\* No submission begins to pass and none that passes changes its score; a team
\* of which nothing was ever deducted keeps its row of the ladder.
NothingPasses ==
    /\ solvers' = solvers
    /\ \A s \in Submissions : row'[s].passed => row[s].passed /\ row'[s].score = row[s].score
    /\ \A t \in Teams : /\ board'[t].solved = board[t].solved /\ board'[t].score <= board[t].score
                        /\ penalty'[t] = 0 => penalty[t] = 0 /\ board'[t] = board[t]

\* A verdict lets submission s pass.
Passes(s) ==
    /\ reading # NoEvent /\ reading.event \in pending /\ reading.event.sub = s
    /\ row' = [row EXCEPT ![s].passed = TRUE, ![s].score = DynamicScore(ProblemOf[s])]
    /\ board' = [board EXCEPT ![TeamOf[s]] = ScoreOf(ProblemOf, TeamOf[s], row')]
    /\ \A p \in Problems, t \in Teams :
          solvers'[p][t] = IF p = ProblemOf[s] /\ t = TeamOf[s] /\ solvers[p][t] = -1
                           THEN Cardinality({u \in Teams : solvers[p][u] # -1})
                           ELSE solvers[p][t]
    /\ penalty' = penalty
    /\ <<reading.event.run, reading.event.repeats>> \in handled'[s]

LEMMA Kept ==
    ASSUME TypeOK, row' = row, solvers' = solvers, board' = board, penalty' = penalty
    PROVE  NothingPasses
  BY DEF NothingPasses, TypeOK

LEMMA RunsGrow ==
    ASSUME TypeOK, [Next]_vars, NEW s \in Submissions, task'[s].run = 0
    PROVE  task[s].run = 0
  <1>1. CASE \E u \in Submissions : Rejudge(u)
    <2>1. PICK u \in Submissions : Rejudge(u)
      BY <1>1
    <2>2. task'[s].run = task[s].run \/ (task'[s].run = task[s].run + 1 /\ task[s].run \in Nat)
      BY <2>1 DEF Rejudge, TypeOK
    <2> QED
      BY <2>2
  <1>2. CASE ~ \E u \in Submissions : Rejudge(u)
    <2>1. ASSUME NEW u \in Submissions, AskJudge(u) PROVE task'[s].run = task[s].run
      BY <2>1 DEF AskJudge, TypeOK
    <2>2. ASSUME NEW u \in Submissions, NEW subject \in Subjects, NEW passed \in BOOLEAN,
                 Decide(u, subject, passed)
          PROVE  task'[s].run = task[s].run
      BY <2>2 DEF Decide, TypeOK
    <2> QED
      BY <1>2, <2>1, <2>2
         DEF Next, vars, StoreRow, Penalize, ReadTask, ApplyFailed, DeadLetter, ApplyCompleted, GiveUp
  <1> QED
    BY <1>1, <1>2

LEMMA RowCases ==
    ASSUME TypeOK, TypeOK', Bounded, [Next]_vars
    PROVE  ProblemOf' = ProblemOf /\ (NothingPasses \/ \E s \in Submissions : Passes(s))
  <1>1. ASSUME NEW s \in Submissions, AskJudge(s) PROVE ProblemOf' = ProblemOf /\ NothingPasses
    BY <1>1, Kept DEF AskJudge
  <1>2. ASSUME NEW s \in Submissions, StoreRow(s) PROVE ProblemOf' = ProblemOf /\ NothingPasses
    <2>1. \A u \in Submissions : row'[u].passed => row[u].passed /\ row'[u].score = row[u].score
      BY <1>2 DEF StoreRow, TypeOK
    <2> QED
      BY <1>2, <2>1 DEF StoreRow, NothingPasses, TypeOK
  <1>3. ASSUME NEW s \in Submissions, NEW subject \in Subjects, NEW passed \in BOOLEAN,
               Decide(s, subject, passed)
        PROVE  ProblemOf' = ProblemOf /\ NothingPasses
    BY <1>3, Kept DEF Decide
  <1>4. ASSUME NEW s \in Submissions, Rejudge(s) PROVE ProblemOf' = ProblemOf /\ NothingPasses
    BY <1>4, Kept DEF Rejudge
  <1>5. ASSUME NEW t \in Teams, NEW amount \in Penalties, Penalize(t, amount)
        PROVE  ProblemOf' = ProblemOf /\ NothingPasses
    <2> DEFINE was == board[t].score
               is == Larger(0, was - amount)
    <2>1. was \in Nat /\ amount \in Nat
      BY DEF TypeOK
    <2>2. is \in Nat /\ is <= was
      <3> HIDE DEF was
      <3> QED BY <2>1 DEF Larger
    <2>3. board' = [board EXCEPT ![t].score = is] /\ penalty[t] = 0
          /\ penalty' = [penalty EXCEPT ![t] = @ + was - board'[t].score]
      BY <1>5 DEF Penalize
    <2> HIDE DEF is
    <2>4. board'[t].score = is /\ board'[t].solved = board[t].solved
          /\ \A u \in Teams : u # t => board'[u] = board[u] /\ penalty'[u] = penalty[u]
      BY <2>3 DEF TypeOK
    <2>5. penalty'[t] = 0 + was - is
      BY <2>3, <2>4 DEF TypeOK
    <2>6. penalty'[t] = 0 => is = was
      <3> HIDE DEF was
      <3> QED BY <2>1, <2>2, <2>5
    <2>7. penalty'[t] = 0 => board'[t] = board[t]
      BY <2>3, <2>6 DEF TypeOK
    <2>8. \A u \in Teams : /\ board'[u].solved = board[u].solved /\ board'[u].score <= board[u].score
                           /\ penalty'[u] = 0 => penalty[u] = 0 /\ board'[u] = board[u]
      BY <2>2, <2>3, <2>4, <2>7 DEF TypeOK
    <2> QED
      BY <1>5, <2>8 DEF Penalize, NothingPasses
  <1>6. ASSUME NEW e \in pending, ReadTask(e) PROVE ProblemOf' = ProblemOf /\ NothingPasses
    BY <1>6, Kept DEF ReadTask
  <1>7. ASSUME NEW e \in pending, NEW again \in BOOLEAN, ApplyFailed(e, again)
        PROVE  ProblemOf' = ProblemOf /\ NothingPasses
    <2>1. \A u \in Submissions : row'[u].passed => row[u].passed /\ row'[u].score = row[u].score
      BY <1>7 DEF ApplyFailed, TypeOK
    <2> QED
      BY <1>7, <2>1 DEF ApplyFailed, NothingPasses, TypeOK
  <1>8. ASSUME NEW e \in pending, DeadLetter(e) PROVE ProblemOf' = ProblemOf /\ NothingPasses
    BY <1>8, Kept DEF DeadLetter
  <1>9. ASSUME NEW again \in BOOLEAN, ApplyCompleted(again)
        PROVE  ProblemOf' = ProblemOf /\ (NothingPasses \/ \E s \in Submissions : Passes(s))
    <2> DEFINE e == reading.event
               s == e.sub
               new == IF reading.passed THEN DynamicScore(ProblemOf[s]) ELSE Partial
    <2>0. e \in pending /\ s \in Submissions /\ reading.passed \in BOOLEAN /\ reading # NoEvent
      BY <1>9 DEF ApplyCompleted, TypeOK, Event
    <2>1. /\ ProblemOf' = ProblemOf /\ penalty' = penalty /\ Consume(e, again)
          /\ row' = [row EXCEPT ![s].passed = reading.passed, ![s].score = new]
          /\ board' = IF reading.passed THEN Refreshed(TeamOf[s], row') ELSE board
      BY <1>9 DEF ApplyCompleted
    <2>2. CASE reading.passed
      <3>1. row' = [row EXCEPT ![s].passed = TRUE, ![s].score = DynamicScore(ProblemOf[s])]
        BY <2>0, <2>1, <2>2
      <3>2. board' = [board EXCEPT ![TeamOf[s]] = ScoreOf(ProblemOf, TeamOf[s], row')]
        BY <2>1, <2>2, ScoreIs DEF Refreshed
      <3>3. \A p \in Problems, t \in Teams :
                solvers'[p][t] = IF p = ProblemOf[s] /\ t = TeamOf[s] /\ solvers[p][t] = -1
                                 THEN Cardinality({u \in Teams : solvers[p][u] # -1})
                                 ELSE solvers[p][t]
        <4> DEFINE q == ProblemOf[s]
                   one == [t \in Teams |-> IF t = TeamOf[s] /\ solvers[q][t] = -1
                                           THEN Cardinality({u \in Teams : solvers[q][u] # -1})
                                           ELSE solvers[q][t]]
        <4>1. q \in Problems
          BY <2>0 DEF TypeOK, Problems
        <4>2. solvers' = [solvers EXCEPT ![q] = one]
          BY <1>9, <2>2, <4>1 DEF ApplyCompleted, TypeOK
        <4>3. \A p \in Problems : solvers'[p] = IF p = q THEN one ELSE solvers[p]
          <5> HIDE DEF one, q
          <5> QED BY <4>1, <4>2 DEF TypeOK
        <4> QED
          <5>1. ASSUME NEW p \in Problems, NEW t \in Teams
                PROVE  solvers'[p][t] = IF p = q /\ t = TeamOf[s] /\ solvers[p][t] = -1
                                        THEN Cardinality({u \in Teams : solvers[p][u] # -1})
                                        ELSE solvers[p][t]
            <6>1. CASE p = q
              <7> HIDE DEF q, s
              <7> QED BY <4>3, <6>1
            <6>2. CASE p # q
              <7> HIDE DEF q, s, one
              <7> QED BY <4>3, <6>2
            <6> QED
              BY <6>1, <6>2
          <5> HIDE DEF e, s
          <5> QED
            BY <5>1
      <3>4. <<e.run, e.repeats>> \in handled'[s]
        BY <2>0, <2>1 DEF Consume, TypeOK
      <3> QED
        BY <2>0, <2>1, <3>1, <3>2, <3>3, <3>4 DEF Passes
    <2>3. CASE ~ reading.passed
      <3>1. solvers' = solvers /\ board' = board /\ penalty' = penalty /\ ProblemOf' = ProblemOf
        BY <1>9, <2>1, <2>3 DEF ApplyCompleted
      <3>2. \A u \in Submissions : row'[u].passed => row[u].passed /\ row'[u].score = row[u].score
        <4> HIDE DEF new, s
        <4> QED BY <2>0, <2>1, <2>3 DEF TypeOK
      <3> QED
        BY <3>1, <3>2 DEF NothingPasses, TypeOK
    <2> QED
      BY <2>1, <2>2, <2>3
  <1>10. CASE GiveUp
    BY <1>10, Kept DEF GiveUp
  <1>11. CASE UNCHANGED vars
    BY <1>11, Kept DEF vars
  <1> QED
    BY <1>1, <1>2, <1>3, <1>4, <1>5, <1>6, <1>7, <1>8, <1>9, <1>10, <1>11 DEF Next

\* Without its rejudge nothing takes a pass back.
LEMMA PassesStay ==
    ASSUME TypeOK, Bounded, FirstVerdict, [Next]_vars, NEW s \in Submissions, task'[s].run = 0, row[s].passed
    PROVE  row'[s].passed
  <1>1. task[s].run = 0
    BY RunsGrow
  <1>2. FirstOf(s)
    BY <1>1 DEF FirstVerdict
  <1>3. task[s].phase = "done" /\ task[s].passed /\ row[s].exists
    BY <1>2 DEF FirstOf, TypeOK
  <1>4. ASSUME NEW u \in Submissions, StoreRow(u) PROVE row'[s].passed
    BY <1>3, <1>4 DEF StoreRow, TypeOK
  <1>5. ASSUME NEW e \in pending, NEW again \in BOOLEAN, ApplyFailed(e, again) PROVE row'[s].passed
    <2>1. e.sub # s /\ e.sub \in Submissions
      BY <1>2, <1>3, <1>5 DEF FirstOf, ApplyFailed, TypeOK, Event
    <2> QED
      BY <1>5, <2>1 DEF ApplyFailed, TypeOK
  <1>6. ASSUME NEW again \in BOOLEAN, ApplyCompleted(again) PROVE row'[s].passed
    <2>1. reading.event.sub \in Submissions /\ reading # NoEvent /\ reading.passed \in BOOLEAN
      BY <1>6 DEF ApplyCompleted, TypeOK, Event
    <2>2. reading.event.sub = s => reading.passed
      BY <1>2, <1>3, <2>1 DEF FirstOf
    <2> DEFINE u == reading.event.sub
               new == IF reading.passed THEN DynamicScore(ProblemOf[u]) ELSE Partial
    <2>3. row' = [row EXCEPT ![u].passed = reading.passed, ![u].score = new]
      BY <1>6 DEF ApplyCompleted
    <2> HIDE DEF new
    <2> QED
      BY <2>1, <2>2, <2>3 DEF TypeOK
  <1> QED
    BY <1>4, <1>5, <1>6
       DEF Next, vars, AskJudge, Decide, Rejudge, Penalize, ReadTask, DeadLetter, GiveUp

-----------------------------------------------------------------------------
(* The ladder is the sum *)

BoardSum ==
    NeverRejudged => \A t \in Teams : penalty[t] = 0 => board[t] = ScoreOf(ProblemOf, t, row)

LEMMA BoardStep ==
    ASSUME TypeOK, TypeOK', Bounded, FirstVerdict, BoardSum, [Next]_vars
    PROVE  BoardSum'
  <1> SUFFICES ASSUME NeverRejudged', NEW t \in Teams, penalty'[t] = 0
               PROVE  board'[t] = ScoreOf(ProblemOf', t, row')
    BY DEF BoardSum
  <1>1. NeverRejudged
    BY RunsGrow DEF NeverRejudged
  <1>2. ProblemOf' = ProblemOf /\ (NothingPasses \/ \E s \in Submissions : Passes(s))
    BY RowCases
  <1>3. CASE NothingPasses
    <2>1. penalty[t] = 0 /\ board'[t] = board[t]
      BY <1>3 DEF NothingPasses
    <2>2. \A s \in Submissions : /\ row'[s].passed = row[s].passed
                                 /\ row[s].passed => row'[s].score = row[s].score
      BY <1>3, PassesStay DEF NothingPasses, NeverRejudged, TypeOK
    <2>3. ScoreOf(ProblemOf, t, row') = ScoreOf(ProblemOf, t, row)
      BY <2>2, SameScore
    <2> QED
      BY <1>1, <1>2, <2>1, <2>3 DEF BoardSum
  <1>4. ASSUME NEW s \in Submissions, Passes(s) PROVE board'[t] = ScoreOf(ProblemOf', t, row')
    <2>1. CASE t = TeamOf[s]
      BY <1>2, <1>4, <2>1 DEF Passes, TypeOK
    <2>2. CASE t # TeamOf[s]
      <3>1. board'[t] = board[t] /\ penalty[t] = 0
        BY <1>4, <2>2 DEF Passes, TypeOK
      <3>2. \A u \in Submissions : TeamOf[u] = t => row'[u] = row[u]
        BY <1>4, <2>2 DEF Passes, TypeOK
      <3>3. ScoreOf(ProblemOf, t, row') = ScoreOf(ProblemOf, t, row)
        BY <3>2, SameScore
      <3> QED
        BY <1>1, <1>2, <3>1, <3>3 DEF BoardSum
    <2> QED
      BY <2>1, <2>2
  <1> QED
    BY <1>2, <1>3, <1>4

LEMMA BoardSummed == BoardSum => BoardIsSum
  BY ScoreIs DEF BoardSum, BoardIsSum

-----------------------------------------------------------------------------
(* Problems a team solved, and how many solved them before *)

EarnedOf(sv, t) == {p \in Problems : sv[p][t] # -1}
CountOf(sv, p)  == {u \in Teams : sv[p][u] # -1}
Worth(n)        == Larger(MinScore, Score - n * Decay)

\* A team with a passed submission has solved the problem, and its row of the
\* ladder stays within the problems it solved.
Credited ==
    /\ \A t \in Teams, p \in Problems : PassedOf(ProblemOf, t, p, row) # {} => solvers[p][t] # -1
    /\ \A t \in Teams : /\ board[t].solved <= Cardinality(EarnedOf(solvers, t))
                        /\ board[t].score <= Cardinality(EarnedOf(solvers, t)) * Score

\* Every team that solved a problem has fewer before it than there are in all.
Ranked ==
    \A t \in Teams, p \in Problems :
        solvers[p][t] # -1 => solvers[p][t] < Cardinality(CountOf(solvers, p))

LEMMA EarnedSizes ==
    ASSUME NEW sv, NEW sv2, NEW t, \A p \in Problems : sv[p][t] # -1 => sv2[p][t] # -1
    PROVE  /\ Cardinality(EarnedOf(sv, t)) \in Nat
           /\ Cardinality(EarnedOf(sv, t)) <= Cardinality(EarnedOf(sv2, t))
           /\ Cardinality(EarnedOf(sv, t)) * Score \in Nat
           /\ Cardinality(EarnedOf(sv, t)) * Score <= Cardinality(EarnedOf(sv2, t)) * Score
           /\ Cardinality(EarnedOf(sv2, t)) \in Nat /\ Cardinality(EarnedOf(sv2, t)) * Score \in Nat
  <1>1. IsFiniteSet(EarnedOf(sv2, t))
    BY FS_Subset DEF EarnedOf
  <1>2. EarnedOf(sv, t) \in SUBSET EarnedOf(sv2, t)
    BY DEF EarnedOf
  <1>3. \A n \in Nat : n * Score \in Nat
    OBVIOUS
  <1> QED
    BY <1>1, <1>2, <1>3, MoreProblems

LEMMA CountSizes ==
    ASSUME NEW sv, NEW p
    PROVE  IsFiniteSet(CountOf(sv, p)) /\ Cardinality(CountOf(sv, p)) \in Nat
  BY TeamsFinite, FS_Subset, FS_CardinalityType DEF CountOf

\* What one passing verdict changes.
LEMMA PassEffect ==
    ASSUME TypeOK, NEW s \in Submissions, Passes(s)
    PROVE  /\ ProblemOf[s] \in Problems /\ TeamOf[s] \in Teams
           /\ \A t, p : PassedOf(ProblemOf, t, p, row') =
                 IF t = TeamOf[s] /\ p = ProblemOf[s] THEN PassedOf(ProblemOf, t, p, row) \cup {s}
                 ELSE PassedOf(ProblemOf, t, p, row)
           /\ row'[s].score = DynamicScore(ProblemOf[s])
           /\ \A u \in Submissions : u # s => row'[u] = row[u]
           /\ \A p \in Problems, t \in Teams : solvers[p][t] # -1 => solvers'[p][t] = solvers[p][t]
           /\ \A p \in Problems, t \in Teams :
                 ~ (t = TeamOf[s] /\ p = ProblemOf[s]) => solvers'[p][t] = solvers[p][t]
           /\ solvers[ProblemOf[s]][TeamOf[s]] = -1
                 => solvers'[ProblemOf[s]][TeamOf[s]] = Cardinality(CountOf(solvers, ProblemOf[s]))
           /\ solvers'[ProblemOf[s]][TeamOf[s]] # -1
  <1>1. ProblemOf[s] \in Problems /\ TeamOf[s] \in Teams
    BY DEF TypeOK, Problems, Teams
  <1>2. row'[s].passed /\ row'[s].score = DynamicScore(ProblemOf[s])
        /\ \A u \in Submissions : u # s => row'[u] = row[u]
    BY DEF Passes, TypeOK
  <1>3. \A t, p : PassedOf(ProblemOf, t, p, row') =
            IF t = TeamOf[s] /\ p = ProblemOf[s] THEN PassedOf(ProblemOf, t, p, row) \cup {s}
            ELSE PassedOf(ProblemOf, t, p, row)
    BY <1>2 DEF PassedOf
  <1>4. \A p \in Problems, t \in Teams :
            solvers'[p][t] = IF p = ProblemOf[s] /\ t = TeamOf[s] /\ solvers[p][t] = -1
                             THEN Cardinality(CountOf(solvers, p)) ELSE solvers[p][t]
    BY DEF Passes, CountOf
  <1>5. Cardinality(CountOf(solvers, ProblemOf[s])) # -1
    BY CountSizes
  <1>6. solvers'[ProblemOf[s]][TeamOf[s]] # -1
    BY <1>1, <1>4, <1>5
  <1> QED
    BY <1>1, <1>2, <1>3, <1>4, <1>6

LEMMA CreditStep ==
    ASSUME TypeOK, TypeOK', Bounded, Credited, [Next]_vars
    PROVE  Credited'
  <1> DEFINE Within(t) == /\ board'[t].solved <= Cardinality(EarnedOf(solvers', t))
                          /\ board'[t].score <= Cardinality(EarnedOf(solvers', t)) * Score
  <1>1. ProblemOf' = ProblemOf /\ (NothingPasses \/ \E s \in Submissions : Passes(s))
    BY RowCases
  <1>a. ASSUME NEW t \in Teams, board'[t].solved <= board[t].solved, board'[t].score <= board[t].score,
               \A p \in Problems : solvers[p][t] # -1 => solvers'[p][t] # -1
        PROVE  Within(t)
    <2>1. /\ board'[t].solved \in Int /\ board[t].solved \in Int
          /\ board'[t].score \in Int /\ board[t].score \in Int
      BY DEF TypeOK
    <2>2. board[t].solved <= Cardinality(EarnedOf(solvers, t))
          /\ board[t].score <= Cardinality(EarnedOf(solvers, t)) * Score
      BY DEF Credited
    <2>3. /\ Cardinality(EarnedOf(solvers, t)) \in Nat
          /\ Cardinality(EarnedOf(solvers, t)) <= Cardinality(EarnedOf(solvers', t))
          /\ Cardinality(EarnedOf(solvers, t)) * Score \in Nat
          /\ Cardinality(EarnedOf(solvers, t)) * Score <= Cardinality(EarnedOf(solvers', t)) * Score
          /\ Cardinality(EarnedOf(solvers', t)) \in Nat /\ Cardinality(EarnedOf(solvers', t)) * Score \in Nat
      BY <1>a, EarnedSizes
    <2> QED
      BY <1>a, <2>1, <2>2, <2>3
  <1>2. CASE NothingPasses
    <2>1. \A t \in Teams, p \in Problems : PassedOf(ProblemOf', t, p, row') # {} => solvers'[p][t] # -1
      <3>1. \A t \in Teams, p \in Problems :
                PassedOf(ProblemOf, t, p, row') \subseteq PassedOf(ProblemOf, t, p, row)
        BY <1>2 DEF NothingPasses, PassedOf
      <3> QED
        BY <1>1, <1>2, <3>1 DEF NothingPasses, Credited
    <2>2. ASSUME NEW t \in Teams PROVE Within(t)
      <3>1. board'[t].solved <= board[t].solved /\ board'[t].score <= board[t].score
        BY <1>2 DEF NothingPasses, TypeOK
      <3> QED
        BY <1>2, <1>a, <3>1 DEF NothingPasses
    <2> QED
      BY <2>1, <2>2 DEF Credited
  <1>3. ASSUME NEW s \in Submissions, Passes(s) PROVE Credited'
    <2>1. ASSUME NEW t \in Teams, NEW p \in Problems, PassedOf(ProblemOf', t, p, row') # {}
          PROVE  solvers'[p][t] # -1
      <3>1. CASE t = TeamOf[s] /\ p = ProblemOf[s]
        BY <1>3, <3>1, PassEffect
      <3>2. CASE ~ (t = TeamOf[s] /\ p = ProblemOf[s])
        <4>1. PassedOf(ProblemOf, t, p, row) # {} /\ solvers'[p][t] = solvers[p][t]
          BY <1>1, <1>3, <2>1, <3>2, PassEffect
        <4> QED
          BY <4>1 DEF Credited
      <3> QED
        BY <3>1, <3>2
    <2>2. ASSUME NEW t \in Teams PROVE Within(t)
      <3>1. CASE t # TeamOf[s]
        <4>1. board'[t] = board[t]
          BY <1>3, <3>1 DEF Passes, TypeOK
        <4>2. board'[t].solved <= board[t].solved /\ board'[t].score <= board[t].score
          BY <4>1 DEF TypeOK
        <4>3. \A p \in Problems : solvers[p][t] # -1 => solvers'[p][t] # -1
          BY <1>3, PassEffect
        <4> QED
          BY <1>a, <4>2, <4>3
      <3>2. CASE t = TeamOf[s]
        <4> DEFINE n == Cardinality(SolvedOf(ProblemOf, t, row'))
                   m == Cardinality(EarnedOf(solvers', t))
        <4>1. board'[t] = ScoreOf(ProblemOf, t, row')
          BY <1>3, <3>2 DEF Passes, TypeOK
        <4>2. row' \in Rows
          BY DEF TypeOK, Rows
        <4>3. /\ ScoreOf(ProblemOf, t, row').score \in Nat
              /\ ScoreOf(ProblemOf, t, row').score <= n * Score
              /\ ScoreOf(ProblemOf, t, row').solved = n
          BY <4>2, ScoreBound
        <4>4. SolvedOf(ProblemOf, t, row') \in SUBSET EarnedOf(solvers', t)
          BY <1>1, <2>1 DEF SolvedOf, EarnedOf
        <4>5. IsFiniteSet(EarnedOf(solvers', t))
          BY FS_Subset DEF EarnedOf
        <4>6. n \in Nat /\ m \in Nat /\ n <= m /\ n * Score \in Nat /\ n * Score <= m * Score
          BY <4>4, <4>5, MoreProblems
        <4>7. m * Score \in Nat
          <5>1. \A k \in Nat : k * Score \in Nat
            OBVIOUS
          <5> QED BY <4>6, <5>1
        <4>8. board'[t].score \in Nat /\ board'[t].score <= n * Score /\ board'[t].solved = n
          BY <4>1, <4>3
        <4> HIDE DEF n
        <4>9. board'[t].solved <= m /\ board'[t].score <= m * Score
          <5> HIDE DEF m
          <5> QED BY <4>6, <4>7, <4>8
        <4> QED
          BY <4>9
      <3> QED
        BY <3>1, <3>2
    <2> QED
      BY <2>1, <2>2 DEF Credited
  <1> QED
    BY <1>1, <1>2, <1>3

LEMMA CreditShown == Credited => CreditEarned
  BY DEF Credited, CreditEarned, EarnedOf

LEMMA RankStep ==
    ASSUME TypeOK, TypeOK', Bounded, Ranked, [Next]_vars
    PROVE  Ranked'
  <1>1. NothingPasses \/ \E s \in Submissions : Passes(s)
    BY RowCases
  <1>2. CASE NothingPasses
    BY <1>2 DEF NothingPasses, Ranked
  <1>3. ASSUME NEW s \in Submissions, Passes(s) PROVE Ranked'
    <2> SUFFICES ASSUME NEW t \in Teams, NEW p \in Problems, solvers'[p][t] # -1
                 PROVE  solvers'[p][t] < Cardinality(CountOf(solvers', p))
      BY DEF Ranked
    <2>1. CountOf(solvers, p) \subseteq CountOf(solvers', p) /\ t \in CountOf(solvers', p)
      BY <1>3, PassEffect DEF CountOf
    <2>2. /\ IsFiniteSet(CountOf(solvers', p)) /\ Cardinality(CountOf(solvers', p)) \in Nat
          /\ IsFiniteSet(CountOf(solvers, p)) /\ Cardinality(CountOf(solvers, p)) \in Nat
      BY CountSizes
    <2>3. Cardinality(CountOf(solvers, p)) <= Cardinality(CountOf(solvers', p))
      BY <2>1, <2>2, FS_Subset
    <2>4. CASE solvers[p][t] # -1
      <3>1. solvers'[p][t] = solvers[p][t] /\ solvers[p][t] < Cardinality(CountOf(solvers, p))
        BY <1>3, <2>4, PassEffect DEF Ranked
      <3>2. solvers[p][t] \in Int
        BY DEF TypeOK
      <3> QED
        BY <2>2, <2>3, <3>1, <3>2
    <2>5. CASE solvers[p][t] = -1
      <3>1. t = TeamOf[s] /\ p = ProblemOf[s]
        BY <1>3, <2>5, PassEffect
      <3>2. solvers'[p][t] = Cardinality(CountOf(solvers, p))
        BY <1>3, <2>5, <3>1, PassEffect
      <3>3. t \notin CountOf(solvers, p)
        BY <2>5 DEF CountOf
      <3>4. Cardinality(CountOf(solvers, p) \cup {t}) = Cardinality(CountOf(solvers, p)) + 1
        BY <2>2, <3>3, FS_AddElement
      <3>5. Cardinality(CountOf(solvers, p) \cup {t}) <= Cardinality(CountOf(solvers', p))
        BY <2>1, <2>2, FS_Subset
      <3> QED
        BY <2>2, <3>2, <3>4, <3>5
    <2> QED
      BY <2>4, <2>5
  <1> QED
    BY <1>1, <1>2, <1>3

LEMMA PlaceStep ==
    ASSUME TypeOK, TypeOK', Bounded, Ranked, OnePlaceEach, [Next]_vars
    PROVE  OnePlaceEach'
  <1>1. NothingPasses \/ \E s \in Submissions : Passes(s)
    BY RowCases
  <1>2. CASE NothingPasses
    BY <1>2 DEF NothingPasses, OnePlaceEach
  <1>3. ASSUME NEW s \in Submissions, Passes(s) PROVE OnePlaceEach'
    <2>1. ASSUME NEW p \in Problems, NEW t \in Teams, solvers[p][t] = -1, solvers'[p][t] # -1
          PROVE  /\ t = TeamOf[s] /\ p = ProblemOf[s]
                 /\ solvers'[p][t] = Cardinality(CountOf(solvers, p))
      BY <1>3, <2>1, PassEffect
    <2>2. ASSUME NEW p \in Problems, NEW t \in Teams, NEW u \in Teams, t # u,
                 solvers'[p][t] # -1, solvers'[p][u] # -1, solvers'[p][t] = solvers'[p][u]
          PROVE  FALSE
      <3>1. \A v \in Teams : solvers[p][v] # -1
                => solvers'[p][v] = solvers[p][v] /\ solvers[p][v] < Cardinality(CountOf(solvers, p))
        BY <1>3, PassEffect DEF Ranked
      <3>2. \A v \in Teams : solvers[p][v] \in Int
        BY DEF TypeOK
      <3>3. Cardinality(CountOf(solvers, p)) \in Nat
        BY CountSizes
      <3>4. CASE solvers[p][t] # -1 /\ solvers[p][u] # -1
        BY <2>2, <3>1, <3>4 DEF OnePlaceEach
      <3>5. CASE solvers[p][t] = -1 \/ solvers[p][u] = -1
        BY <2>1, <2>2, <3>1, <3>2, <3>3, <3>5
      <3> QED
        BY <3>4, <3>5
    <2> QED
      BY <2>2 DEF OnePlaceEach
  <1> QED
    BY <1>1, <1>2, <1>3

-----------------------------------------------------------------------------
(* Scores by the order of passing *)

\* Without redeliveries and rejudges, a team that solved a problem still passes
\* it, and its best submission is worth what the teams before it left.
Ordered ==
    Unrepeated /\ NeverRejudged =>
        \A t \in Teams, p \in Problems : solvers[p][t] # -1 =>
            /\ PassedOf(ProblemOf, t, p, row) # {}
            /\ Max(PointsOf(ProblemOf, t, p, row)) = Worth(solvers[p][t])

\* Fewer teams before leave no less of the score.
LEMMA WorthFalls ==
    ASSUME NEW m \in Nat, NEW n \in Nat, m <= n
    PROVE  Worth(m) \in Int /\ Worth(n) \in Int /\ Worth(n) <= Worth(m)
  <1>1. \A k \in Nat : k * Decay \in Nat
    OBVIOUS
  <1>2. n * Decay = m * Decay + (n - m) * Decay
    <2>1. \A a, b \in Nat : (a + b) * Decay = a * Decay + b * Decay
      OBVIOUS
    <2>2. n - m \in Nat /\ n = m + (n - m)
      OBVIOUS
    <2> QED
      BY <2>1, <2>2
  <1>3. m * Decay \in Nat /\ n * Decay \in Nat /\ (n - m) * Decay \in Nat
    BY <1>1
  <1> DEFINE x == m * Decay
             y == n * Decay
  <1>4. x \in Nat /\ y \in Nat /\ x <= y
    BY <1>2, <1>3
  <1>5. Worth(m) = Larger(MinScore, Score - x) /\ Worth(n) = Larger(MinScore, Score - y)
    BY DEF Worth
  <1> HIDE DEF x, y
  <1> QED
    BY <1>4, <1>5 DEF Larger

LEMMA HandledGrows ==
    ASSUME TypeOK, [Next]_vars, NEW s \in Submissions
    PROVE  handled[s] \subseteq handled'[s]
  <1>1. ASSUME NEW e \in pending, NEW again \in BOOLEAN, Consume(e, again)
        PROVE  handled[s] \subseteq handled'[s]
    BY <1>1 DEF Consume, TypeOK, Event
  <1>2. ASSUME NEW e \in pending, NEW again \in BOOLEAN, ApplyFailed(e, again)
        PROVE  handled[s] \subseteq handled'[s]
    BY <1>1, <1>2 DEF ApplyFailed
  <1>3. ASSUME NEW again \in BOOLEAN, ApplyCompleted(again)
        PROVE  handled[s] \subseteq handled'[s]
    <2>1. reading.event \in pending /\ Consume(reading.event, again)
      BY <1>3 DEF ApplyCompleted, TypeOK
    <2> QED
      BY <1>1, <2>1
  <1> QED
    BY <1>2, <1>3 DEF Next, vars, AskJudge, StoreRow, Decide, Rejudge, Penalize, ReadTask,
                      DeadLetter, GiveUp

LEMMA OrderStep ==
    ASSUME TypeOK, TypeOK', Bounded, FirstVerdict, Credited, Ranked, Ordered, [Next]_vars
    PROVE  Ordered'
  <1> SUFFICES ASSUME Unrepeated', NeverRejudged', NEW t \in Teams, NEW p \in Problems, solvers'[p][t] # -1
               PROVE  /\ PassedOf(ProblemOf', t, p, row') # {}
                      /\ Max(PointsOf(ProblemOf', t, p, row')) = Worth(solvers'[p][t])
    BY DEF Ordered, Worth, Larger
  <1>1. NeverRejudged /\ Unrepeated
    BY RunsGrow, HandledGrows DEF NeverRejudged, Unrepeated
  <1>2. ProblemOf' = ProblemOf /\ (NothingPasses \/ \E s \in Submissions : Passes(s))
    BY RowCases
  <1>3. \A u \in Teams, q \in Problems : solvers[q][u] # -1 =>
            /\ PassedOf(ProblemOf, u, q, row) # {}
            /\ Max(PointsOf(ProblemOf, u, q, row)) = Worth(solvers[q][u])
    BY <1>1 DEF Ordered
  <1>4. CASE NothingPasses
    <2>1. \A s \in Submissions : /\ row'[s].passed = row[s].passed
                                 /\ row[s].passed => row'[s].score = row[s].score
      BY <1>4, PassesStay DEF NothingPasses, NeverRejudged, TypeOK
    <2>2. PassedOf(ProblemOf, t, p, row') = PassedOf(ProblemOf, t, p, row)
      BY <2>1 DEF PassedOf
    <2>3. \A u \in PassedOf(ProblemOf, t, p, row) : row'[u].score = row[u].score
      BY <2>1 DEF PassedOf
    <2>4. PointsOf(ProblemOf, t, p, row') = PointsOf(ProblemOf, t, p, row)
      BY <2>2, <2>3 DEF PointsOf
    <2> QED
      BY <1>2, <1>3, <1>4, <2>2, <2>4 DEF NothingPasses
  <1>5. ASSUME NEW s \in Submissions, Passes(s)
        PROVE  /\ PassedOf(ProblemOf, t, p, row') # {}
               /\ Max(PointsOf(ProblemOf, t, p, row')) = Worth(solvers'[p][t])
    <2>1. ~ row[s].passed
      <3>1. reading.event \in pending /\ reading.event.sub = s /\ reading.event.repeats = 0
        BY <1>5 DEF Passes, Unrepeated
      <3> QED
        BY <1>1, <3>1 DEF FirstVerdict, FirstOf, NeverRejudged
    <2>2. CASE ~ (t = TeamOf[s] /\ p = ProblemOf[s])
      <3>1. PassedOf(ProblemOf, t, p, row') = PassedOf(ProblemOf, t, p, row)
            /\ solvers'[p][t] = solvers[p][t]
        BY <1>5, <2>2, PassEffect
      <3>2. \A u \in PassedOf(ProblemOf, t, p, row) : row'[u] = row[u]
        BY <1>5, <2>1, PassEffect DEF PassedOf
      <3>3. PointsOf(ProblemOf, t, p, row') = PointsOf(ProblemOf, t, p, row)
        BY <3>1, <3>2 DEF PointsOf
      <3> QED
        BY <1>3, <3>1, <3>3
    <2>3. CASE t = TeamOf[s] /\ p = ProblemOf[s]
      <3> DEFINE old == PointsOf(ProblemOf, t, p, row)
                 new == PointsOf(ProblemOf, t, p, row')
                 n == Cardinality(CountOf(solvers, p))
      <3>1. PassedOf(ProblemOf, t, p, row') = PassedOf(ProblemOf, t, p, row) \cup {s}
        BY <1>5, <2>3, PassEffect
      <3>2. DynamicScore(p) = Worth(n)
        <4>1. \A u \in Teams : Passed(u, p, row) # {} <=> solvers[p][u] # -1
          BY <1>3, ScoreIs DEF Credited
        <4>2. SolvedTeams(p) = CountOf(solvers, p)
          BY <4>1 DEF SolvedTeams, CountOf
        <4> QED
          BY <4>2 DEF DynamicScore, Worth
      <3>3. row'[s].score = Worth(n)
        BY <1>5, <2>3, <3>2, PassEffect
      <3>4. \A u \in PassedOf(ProblemOf, t, p, row) : row'[u] = row[u]
        BY <1>5, <2>1, PassEffect DEF PassedOf
      <3>5. new = old \cup {Worth(n)}
        BY <3>1, <3>3, <3>4 DEF PointsOf
      <3>6. n \in Nat
        BY CountSizes
      <3>7. row' \in Rows /\ row \in Rows
        BY DEF TypeOK, Rows
      <3>8. Max(new) \in new /\ \A k \in new : k <= Max(new)
        BY <3>1, <3>7, BestIs
      <3>9. CASE solvers[p][t] = -1
        <4>1. old = {}
          BY <3>9 DEF Credited, PointsOf
        <4>2. Max(new) = Worth(n)
          <5> HIDE DEF new, old, n
          <5> QED BY <3>5, <3>8, <4>1
        <4>3. solvers'[p][t] = n
          BY <1>5, <2>3, <3>9, PassEffect
        <4> QED
          BY <3>1, <4>2, <4>3
      <3>10. CASE solvers[p][t] # -1
        <4> DEFINE k == solvers[p][t]
        <4>1. k \in Nat /\ k < n
          BY <3>10 DEF TypeOK, Ranked
        <4>2. solvers'[p][t] = k
          BY <1>5, <3>10, PassEffect
        <4>3. PassedOf(ProblemOf, t, p, row) # {} /\ Max(old) = Worth(k)
          BY <1>3, <3>10
        <4>4. Max(old) \in old /\ \A i \in old : i \in Int /\ i <= Max(old)
          BY <3>7, <4>3, BestIs
        <4> HIDE DEF k, n
        <4>5. Worth(k) \in Int /\ Worth(n) \in Int /\ Worth(n) <= Worth(k)
          BY <3>6, <4>1, WorthFalls
        <4>6. Max(new) = Worth(k)
          <5> HIDE DEF new, old
          <5>1. Max(new) \in old \/ Max(new) = Worth(n)
            BY <3>5, <3>8
          <5>2. Max(new) <= Worth(k) /\ Max(new) \in Int
            BY <4>3, <4>4, <4>5, <5>1
          <5>3. Worth(k) <= Max(new)
            BY <3>5, <3>8, <4>3, <4>4
          <5> QED
            BY <4>5, <5>2, <5>3
        <4> QED
          BY <3>1, <4>2, <4>6
      <3> QED
        BY <3>9, <3>10
    <2> QED
      BY <2>2, <2>3
  <1> QED
    BY <1>2, <1>4, <1>5

LEMMA OrderShown ==
    ASSUME TypeOK, BoardSum, Credited, Ordered
    PROVE  ScoreByOrder
  <1> SUFFICES ASSUME Unrepeated, NeverRejudged, NEW t \in Teams, penalty[t] = 0
               PROVE  board[t].score =
                        SumFunction([p \in EarnedOf(solvers, t) |-> Worth(solvers[p][t])])
    BY DEF ScoreByOrder, EarnedOf, Worth
  <1> DEFINE earned == EarnedOf(solvers, t)
             worths == [p \in earned |-> Worth(solvers[p][t])]
             bests == BestsOf(ProblemOf, t, row)
  <1>1. SolvedOf(ProblemOf, t, row) = earned
    BY DEF SolvedOf, EarnedOf, Credited, Ordered
  <1>2. board[t].score = SumFunctionOnSet(bests, earned)
    <2>1. board[t] = ScoreOf(ProblemOf, t, row)
      BY DEF BoardSum
    <2>2. ScoreOf(ProblemOf, t, row).score = SumFunctionOnSet(bests, SolvedOf(ProblemOf, t, row))
      BY DEF ScoreOf
    <2> QED
      BY <1>1, <2>1, <2>2
  <1>3. \A p \in earned : bests[p] = worths[p]
    BY <1>1 DEF Ordered, BestsOf, EarnedOf
  <1>4. IsFiniteSet(earned)
    BY FS_Subset DEF EarnedOf
  <1>5. DOMAIN worths = earned
    OBVIOUS
  <1> HIDE DEF earned, worths, bests
  <1>6. SumFunctionOnSet(bests, earned) = SumFunctionOnSet(worths, earned)
    BY <1>3, <1>4, SumEqual
  <1>7. board[t].score = SumFunction(worths)
    BY <1>2, <1>5, <1>6 DEF SumFunction
  <1> QED
    BY <1>7 DEF worths, earned

-----------------------------------------------------------------------------
(* Theorems *)

Inv == TypeOK /\ Bounded /\ FirstVerdict /\ BoardSum /\ Credited /\ Ranked /\ OnePlaceEach /\ Ordered

LEMMA InvInit == Init => Inv
  <1> SUFFICES ASSUME Init PROVE Inv
    OBVIOUS
  <1>1. /\ Cardinality(Problems) \in Nat /\ Cardinality(Teams) \in Nat
        /\ Score * Cardinality(Problems) \in Nat
    <2>1. Cardinality(Problems) \in Nat /\ Cardinality(Teams) \in Nat
      BY TeamsFinite, FS_CardinalityType
    <2>2. \A n \in Nat : Score * n \in Nat
      OBVIOUS
    <2> QED
      BY <2>1, <2>2
  <1>2. TypeOK
    <2> DEFINE all == Cardinality(Problems)
               most == Score * Cardinality(Problems)
    <2>1. all \in Nat /\ most \in Nat
      BY <1>1
    <2>2. board \in [Teams -> [score : 0 .. most, solved : 0 .. all]]
      <3> HIDE DEF all, most
      <3> QED BY <2>1 DEF Init
    <2>3. solvers \in [Problems -> [Teams -> -1 .. Cardinality(Teams)]]
      BY <1>1 DEF Init
    <2> QED
      BY <2>2, <2>3 DEF Init, TypeOK, NoTask, NoRow
  <1>3. \A t, p : PassedOf(ProblemOf, t, p, row) = {}
    BY DEF Init, NoRow, PassedOf
  <1>4. Bounded
    <2> DEFINE runs == [u \in Submissions |-> task[u].run]
    <2>1. \A u \in Submissions : runs[u] \in 0 .. 0
      BY DEF Init, NoTask
    <2>2. Cardinality(Submissions) * 0 = 0
      <3>1. Cardinality(Submissions) \in Nat
        BY FS_CardinalityType
      <3> QED BY <3>1
    <2>3. SumFunctionOnSet(runs, Submissions) <= 0 /\ SumFunctionOnSet(runs, Submissions) \in Nat
      <3> HIDE DEF runs
      <3>1. SumFunctionOnSet(runs, Submissions) \in Nat
            /\ SumFunctionOnSet(runs, Submissions) <= Cardinality(Submissions) * 0
        BY <2>1, SumBounds
      <3> QED BY <2>2, <3>1
    <2>4. SumFunctionOnSet(runs, Submissions) <= MaxReruns
      <3> HIDE DEF runs
      <3> QED BY <2>3
    <2> QED
      BY <2>4, FS_EmptySet DEF Init, Bounded
  <1>5. FirstVerdict
    BY DEF Init, NoTask, NoRow, FirstVerdict, FirstOf
  <1>6. BoardSum
    <2> SUFFICES ASSUME NEW t \in Teams PROVE board[t] = ScoreOf(ProblemOf, t, row)
      BY DEF BoardSum
    <2>1. SolvedOf(ProblemOf, t, row) = {}
      BY <1>3 DEF SolvedOf
    <2>2. ScoreOf(ProblemOf, t, row) = [score |-> 0, solved |-> 0]
      BY <2>1, SumEmpty, FS_EmptySet DEF ScoreOf
    <2> QED
      BY <2>2 DEF Init
  <1>7. Credited
    <2> SUFFICES ASSUME NEW t \in Teams
                 PROVE  0 <= Cardinality(EarnedOf(solvers, t)) /\ 0 <= Cardinality(EarnedOf(solvers, t)) * Score
      BY <1>3 DEF Credited, Init
    <2>1. \A n \in Nat : 0 <= n /\ 0 <= n * Score
      OBVIOUS
    <2> QED
      BY <2>1, EarnedSizes
  <1>8. Ranked /\ OnePlaceEach /\ Ordered
    BY DEF Init, Ranked, OnePlaceEach, Ordered
  <1> QED
    BY <1>2, <1>4, <1>5, <1>6, <1>7, <1>8 DEF Inv

LEMMA InvStep == Inv /\ [Next]_vars => Inv'
  <1> SUFFICES ASSUME Inv, [Next]_vars PROVE Inv'
    OBVIOUS
  <1> USE DEF Inv
  <1>1. TypeOK'
    BY TypeStep
  <1>2. Bounded'
    BY <1>1, BoundedStep
  <1>3. FirstVerdict'
    BY FirstStep
  <1>4. BoardSum' /\ Credited' /\ Ranked' /\ OnePlaceEach' /\ Ordered'
    BY <1>1, BoardStep, CreditStep, RankStep, PlaceStep, OrderStep
  <1> QED
    BY <1>1, <1>2, <1>3, <1>4

LEMMA Invariance == Spec => []Inv
  BY InvInit, InvStep, PTL DEF Spec

\* The rows of submissions and of the ladder have their types: a passed
\* submission is worth between MinScore and Score, however many teams solved its
\* problem (dynamicSolveScore), and no team is credited more than all problems
\* are worth (refreshTeamRank).
THEOREM TypeCorrect == Spec => []TypeOK
  BY Invariance, PTL DEF Inv

\* A team is credited only with problems a verdict let it pass, at most Score
\* for each, through rejudges, redeliveries, lost events and deductions
\* (refreshTeamRank, CreateCheatRecord).
THEOREM CreditIsEarned == Spec => []CreditEarned
  BY Invariance, CreditShown, PTL DEF Inv

\* Without rejudges and deductions the row of a team in the ladder is the sum
\* over its passed submissions, although only the handler of a passing verdict
\* refreshes it (HandleSolveJudgeCompleted, HandleSolveJudgeFailed).
THEOREM BoardIsSummed == Spec => []BoardIsSum
  BY Invariance, BoardSummed, PTL DEF Inv

\* A submission that was not rejudged and whose events were all consumed shows
\* the verdict of its task, also when the verdict overtook the row of the
\* submission (SubmitSolve, HandleSolveJudgeCompleted, HandleSolveJudgeFailed).
THEOREM VerdictsApplied == Spec => []VerdictApplied
  BY Invariance, VerdictShown, PTL DEF Inv

\* Without redeliveries, rejudges and deductions a problem is worth to a team
\* what the teams that solved it earlier leave of its score, whatever it or any
\* other team submits later (dynamicSolveScore, SumTeamSolvedScore).
THEOREM ScoresByOrder == Spec => []ScoreByOrder
  BY Invariance, OrderShown, PTL DEF Inv

\* Only its own rejudge takes a pass of a submission back, whatever is
\* redelivered or arrives late (HandleSolveJudgeCompleted, HandleSolveJudgeFailed).
THEOREM PassesFinal == Spec => PassIsFinal
  <1>1. Inv /\ [Next]_vars =>
            [\A s \in Submissions : task'[s].run = 0 /\ row[s].passed => row'[s].passed]_vars
    BY PassesStay DEF Inv
  <1> QED
    BY <1>1, Invariance, PTL DEF Spec, PassIsFinal

\* No two teams take the same place in the order of solving a problem
\* (CountProblemSolvedTeams, dynamicSolveScore).
THEOREM PlacesDistinct == Spec => []OnePlaceEach
  BY Invariance, PTL DEF Inv

================================================================================
