------------------------ MODULE MCExperimentScoring ------------------------
(***************************************************************************)
(* A small instance of ExperimentScoring for TLC: two requests for one     *)
(* checkpoint.                                                             *)
(***************************************************************************)
EXTENDS ExperimentScoring, TLC

CONSTANTS a1, a2, c1, t1, t2

SameCheckpoint == t1 :> c1 @@ t2 :> c1
=============================================================================
