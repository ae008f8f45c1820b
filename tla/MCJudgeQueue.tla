---------------------------- MODULE MCJudgeQueue ----------------------------
(***************************************************************************)
(* Instances of JudgeQueue for TLC: two tasks of one source_ref and two    *)
(* worker loops.                                                           *)
(***************************************************************************)
EXTENDS JudgeQueue, TLC

CONSTANTS t1, t2, w1, w2

OneSource == (t1 :> "instance" @@ t2 :> "instance")
WorkerSymmetry == Permutations({w1, w2})
=============================================================================
