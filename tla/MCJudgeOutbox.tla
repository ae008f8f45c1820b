---------------------------- MODULE MCJudgeOutbox ----------------------------
(***************************************************************************)
(* Instances of JudgeOutbox for TLC: two rows and two publishers.          *)
(***************************************************************************)
EXTENDS JudgeOutbox

CONSTANTS e1, e2, p1, p2
=============================================================================
