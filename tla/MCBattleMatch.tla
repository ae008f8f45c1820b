---------------------------- MODULE MCBattleMatch ----------------------------
(***************************************************************************)
(* Instances of BattleMatch for TLC: two matches of two teams.             *)
(***************************************************************************)
EXTENDS BattleMatch, TLC

CONSTANTS m1, m2, t1, t2, a1, a2

TwoMatches == (m1 :> [a |-> t1, b |-> t2]) @@ (m2 :> [a |-> t2, b |-> t1])
OneMatch == m1 :> [a |-> t1, b |-> t2]

Interchangeable == Permutations(Actors)
=============================================================================
