----------------------------- MODULE MCEventBus -----------------------------
(***************************************************************************)
(* Instances of EventBus for TLC: two replicas share one consumer.         *)
(***************************************************************************)
EXTENDS EventBus, TLC

CONSTANTS r1, r2

ReplicaSymmetry == Permutations({r1, r2})
=============================================================================
