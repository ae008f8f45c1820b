------------------------- MODULE MCSandboxLifecycle -------------------------
(***************************************************************************)
(* Small instances of SandboxLifecycle for TLC.                            *)
(***************************************************************************)
EXTENDS SandboxLifecycle, TLC

CONSTANTS p1, p2, w1, w2

OneReplica  == {p1}
TwoReplicas == {p1, p2}
NoWrite     == {}
OneWrite    == {w1}
TwoWrites   == {w1, w2}
Symmetric   == Permutations(TwoReplicas)

\* What the steps to come and the properties of the run "sandbox" depend on.
\* After the lock a recycle uses no more than the phase of its copy, unsaved
\* is for another run, and what "rough" says once is not taken back.
AfterLockSteps == {"ensure", "save", "delete", "finish", "failed"}
Relevant(c) == IF c.step \in AfterLockSteps THEN [c EXCEPT !.status = "recycling"]
                                            ELSE c
Told == [history EXCEPT !.unsaved = FALSE,
                        !.locked = IF history.rough THEN {} ELSE @]
View == <<row, init, creation, cluster, starts,
          [p \in Replicas |-> Relevant(calls[p])], timers, announced, Told, left>>
=============================================================================
