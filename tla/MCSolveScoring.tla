--------------------------- MODULE MCSolveScoring ---------------------------
(***************************************************************************)
(* Instances of SolveScoring for TLC: team t1 submits s1 and s2, team t2   *)
(* submits s3, either all for one problem or s1 or s2 for another.         *)
(***************************************************************************)
EXTENDS SolveScoring, TLC

CONSTANTS s1, s2, s3, t1, t2, p1, p2

Owners == [s \in Submissions |-> IF s = s3 THEN t2 ELSE t1]
OneProblem == [s \in Submissions |-> p1]
Apart(other) == [s \in Submissions |-> IF s = other THEN p2 ELSE p1]
Either  == {OneProblem, Apart(s1), Apart(s2)}
SameTeam == Permutations({s1, s2})
JustOne == {OneProblem}
=============================================================================
