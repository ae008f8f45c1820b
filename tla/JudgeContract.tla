---------------------------- MODULE JudgeContract ----------------------------
(***************************************************************************)
(* What the judge module promises to the modules that submit tasks to it:  *)
(* a task asked for is decided by one verdict, or withdrawn; a decided     *)
(* task may be reopened and is then decided anew.  Verdicts are announced  *)
(* in a log that only grows, one entry per decision.  How workers, leases  *)
(* and retries bring a decision about is left to JudgeQueue.               *)
(***************************************************************************)
EXTENDS Naturals, Sequences

CONSTANT Tasks

VARIABLES
    phase,      \* where each task stands with its caller
    log         \* the verdicts announced for each task

vars == <<phase, log>>

Phase   == {"unknown", "pending", "decided", "withdrawn"}
Verdict == [subject : {"completed", "failed"}, passed : BOOLEAN]

Init ==
    /\ phase = [t \in Tasks |-> "unknown"]
    /\ log = [t \in Tasks |-> <<>>]

Ask(t)      == phase[t] = "unknown" /\ phase'[t] = "pending" /\ log'[t] = log[t]
Withdraw(t) == phase[t] = "pending" /\ phase'[t] = "withdrawn" /\ log'[t] = log[t]
Reopen(t)   == phase[t] = "decided" /\ phase'[t] = "pending" /\ log'[t] = log[t]

Decide(t, verdict) ==
    /\ phase[t] = "pending" /\ phase'[t] = "decided"
    /\ log'[t] = Append(log[t], verdict)

Rest(t) == phase'[t] = phase[t] /\ log'[t] = log[t]

\* One transaction may decide or reopen several tasks.
Next ==
    /\ phase' \in [Tasks -> Phase]
    /\ log' \in [Tasks -> Seq(Verdict)]
    /\ \A t \in Tasks :
        \/ Ask(t)
        \/ Withdraw(t)
        \/ Reopen(t)
        \/ \E verdict \in Verdict : Decide(t, verdict)
        \/ Rest(t)

Spec == Init /\ [][Next]_vars
=============================================================================
