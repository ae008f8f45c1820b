----------------------------- MODULE JudgeOutbox -----------------------------
(***************************************************************************)
(* The transactional outbox of the judge module: rows of judge_event_outbox *)
(* on their way to the stream of the event bus.                            *)
(*                                                                         *)
(* The transaction that settles a task stores the row.  publishPendingOutbox *)
(* runs in every replica, at the end of each worker pass and after a       *)
(* teacher's score: it leases due rows under a fresh token, publishes them *)
(* one by one outside any transaction and marks each of them under the     *)
(* lease.  The broker may store an event and its answer get lost; a        *)
(* publisher may stop, or outlive its lease, between any two steps.        *)
(*                                                                         *)
(* Leases are abstracted as in JudgeQueue: live or expired on the clock of *)
(* the database, and when ClocksAgree is FALSE a publisher may take any    *)
(* lease for a stale one.                                                  *)
(***************************************************************************)
EXTENDS Naturals, FiniteSets

CONSTANTS
    Events,         \* rows that may be written to the outbox
    Publishers,     \* replicas that run publishPendingOutbox
    MaxAttempts,    \* JUDGE_OUTBOX_MAX_ATTEMPTS
    BatchSize,      \* JUDGE_WORKER_BATCH_SIZE
    ClocksAgree     \* publisher clocks never run ahead of the database clock

ASSUME MaxAttemptsAssumption == MaxAttempts \in Nat /\ MaxAttempts > 0
ASSUME ClockAssumption == ClocksAgree \in BOOLEAN

VARIABLES
    \* columns of judge_event_outbox; due is next_attempt_at <= now()
    status, retry, token, lease, due,
    nextToken,      \* source of fresh lease tokens
    \* memory of the publishers
    passToken,      \* lease token of the pass
    batch,          \* leased rows still to be published, or published and not yet marked
    item,           \* the retry_count of those rows as the claim returned it
    answer,         \* what a publisher heard of the row: "unsent" until it was published
    stream          \* the messages the broker stored: rows with the attempt that sent them

row == <<status, retry, token, lease, due>>
publisher == <<passToken, batch, item, answer>>
vars == <<row, nextToken, publisher, stream>>

-----------------------------------------------------------------------------
(* Values *)

Status  == {"absent", "pending", "leased", "published", "failed"}
Lease   == {"none", "live", "expired"}
Answer  == {"unsent", "acked", "error"}
NoToken == 0

\* Faults the properties are tested against stand in front of the definition
\* they replace, under the name of that definition and the fault.

Stale_Never(e) == FALSE

\* status = 2 AND lease_until <= stale_before, as a publisher's clock sees it.
Stale(e) ==
    /\ status[e] = "leased"
    /\ lease[e] = "expired" \/ (lease[e] = "live" /\ ~ClocksAgree)

Holds_ById(p, e) == status[e] # "absent"

\* status = 2 AND lease_token = $token AND lease_until > now().
Holds(p, e) ==
    /\ status[e] = "leased"
    /\ token[e] = passToken[p]
    /\ lease[e] = "live"

\* The retry limit is forgotten for leases that ran out.
Claimable_Unlimited(e) ==
    (status[e] \in {"pending", "failed"} /\ due[e] /\ retry[e] < MaxAttempts) \/ Stale(e)

Claimable(e) ==
    /\ (status[e] \in {"pending", "failed"} /\ due[e]) \/ Stale(e)
    /\ retry[e] < MaxAttempts

\* The answer of the broker is not looked at.
Delivered_Assumed(p, e) == answer[p][e] # "unsent"

Delivered(p, e) == answer[p][e] = "acked"

\* retry_count + 1
Attempt(e) == retry[e] + 1

-----------------------------------------------------------------------------
(* Actions *)

\* CreateOutbox, in the transaction that settles a task.
Record(e) ==
    /\ status[e] = "absent"
    /\ status' = [status EXCEPT ![e] = "pending"]
    /\ due' = [due EXCEPT ![e] = TRUE]
    /\ UNCHANGED <<retry, token, lease, nextToken, publisher, stream>>

\* The first transaction of publishPendingOutbox: fail the rows whose last
\* lease ran out (expired), lease the others (taken).  Locked rows are skipped.
Claim(p, expired, taken) ==
    /\ batch[p] = {}
    /\ expired \cup taken # {}
    /\ \A e \in expired : Stale(e) /\ retry[e] >= MaxAttempts
    /\ \A e \in taken : Claimable(e)
    /\ status' = [e \in Events |-> IF e \in expired THEN "failed"
                                   ELSE IF e \in taken THEN "leased" ELSE status[e]]
    /\ retry' = [e \in Events |-> IF e \in taken THEN Attempt(e) ELSE retry[e]]
    /\ token' = [e \in Events |-> IF e \in expired THEN NoToken
                                  ELSE IF e \in taken THEN nextToken ELSE token[e]]
    /\ lease' = [e \in Events |-> IF e \in expired THEN "none"
                                  ELSE IF e \in taken THEN "live" ELSE lease[e]]
    /\ nextToken' = nextToken + 1
    /\ passToken' = [passToken EXCEPT ![p] = nextToken]
    /\ batch' = [batch EXCEPT ![p] = taken]
    /\ item' = [item EXCEPT ![p] = [e \in Events |-> IF e \in taken THEN Attempt(e) ELSE 0]]
    /\ answer' = [answer EXCEPT ![p] = [e \in Events |-> "unsent"]]
    /\ UNCHANGED <<due, stream>>

\* bus.Publish of the next row of the batch, whether the lease lasts or not.
\* An error leaves open whether the broker has the event.
Publish(p, e, stored, heard) ==
    /\ e \in batch[p] /\ \A f \in batch[p] : answer[p][f] = "unsent"
    /\ heard => stored
    /\ stream' = IF stored THEN stream \cup {<<e, item[p][e]>>} ELSE stream
    /\ answer' = [answer EXCEPT ![p][e] = IF heard THEN "acked" ELSE "error"]
    /\ UNCHANGED <<row, nextToken, passToken, batch, item>>

\* The publisher is through with e.
Leave(p, e) ==
    /\ e \in batch[p] /\ answer[p][e] # "unsent"
    /\ batch' = [batch EXCEPT ![p] = @ \ {e}]
    /\ item' = [item EXCEPT ![p][e] = 0]
    /\ answer' = [answer EXCEPT ![p][e] = "unsent"]
    /\ UNCHANGED <<nextToken, passToken, stream>>

\* markOutboxPublished
MarkPublished(p, e) ==
    /\ Leave(p, e)
    /\ Delivered(p, e)
    /\ Holds(p, e)
    /\ status' = [status EXCEPT ![e] = "published"]
    /\ token' = [token EXCEPT ![e] = NoToken]
    /\ lease' = [lease EXCEPT ![e] = "none"]
    /\ UNCHANGED <<retry, due>>

\* recordOutboxPublishFailure: after an error of the broker, and also after an
\* error of markOutboxPublished.  The row is due again after its backoff.
MarkFailed(p, e) ==
    /\ Leave(p, e)
    /\ Holds(p, e)
    /\ status' = [status EXCEPT ![e] = "failed"]
    /\ token' = [token EXCEPT ![e] = NoToken]
    /\ lease' = [lease EXCEPT ![e] = "none"]
    /\ due' = [due EXCEPT ![e] = FALSE]
    /\ retry' = retry

\* Neither mark is stored: the lease is lost or the database failed.
NoMark(p, e) ==
    /\ Leave(p, e)
    /\ UNCHANGED row

\* The process of p dies or its context is cancelled.
Crash(p) ==
    /\ batch[p] # {}
    /\ batch' = [batch EXCEPT ![p] = {}]
    /\ item' = [item EXCEPT ![p] = [e \in Events |-> 0]]
    /\ answer' = [answer EXCEPT ![p] = [e \in Events |-> "unsent"]]
    /\ UNCHANGED <<row, nextToken, passToken, stream>>

\* The database clock passes lease_until.  Nothing renews these leases.
Expire(e) ==
    /\ lease[e] = "live"
    /\ lease' = [lease EXCEPT ![e] = "expired"]
    /\ UNCHANGED <<status, retry, token, due, nextToken, publisher, stream>>

\* The backoff of a failed row is over.
BecomeDue(e) ==
    /\ status[e] = "failed" /\ ~due[e]
    /\ due' = [due EXCEPT ![e] = TRUE]
    /\ UNCHANGED <<status, retry, token, lease, nextToken, publisher, stream>>

-----------------------------------------------------------------------------
(* Specification *)

Init ==
    /\ status = [e \in Events |-> "absent"]
    /\ retry = [e \in Events |-> 0]
    /\ token = [e \in Events |-> NoToken]
    /\ lease = [e \in Events |-> "none"]
    /\ due = [e \in Events |-> FALSE]
    /\ nextToken = 1
    /\ passToken = [p \in Publishers |-> NoToken]
    /\ batch = [p \in Publishers |-> {}]
    /\ item = [p \in Publishers |-> [e \in Events |-> 0]]
    /\ answer = [p \in Publishers |-> [e \in Events |-> "unsent"]]
    /\ stream = {}

Batches == {S \in SUBSET Events : Cardinality(S) <= BatchSize}

Mark(p, e) == MarkPublished(p, e) \/ MarkFailed(p, e) \/ NoMark(p, e)

Next ==
    \/ \E e \in Events : Record(e) \/ Expire(e) \/ BecomeDue(e)
    \/ \E p \in Publishers :
        \/ \E expired, taken \in Batches : Claim(p, expired, taken)
        \/ \E e \in Events :
            \/ \E stored, heard \in BOOLEAN : Publish(p, e, stored, heard)
            \/ MarkPublished(p, e)
            \/ MarkFailed(p, e)
            \/ NoMark(p, e)
        \/ Crash(p)

Spec == Init /\ [][Next]_vars

\* Every replica keeps making passes, a pass ends (bus.Publish and the
\* transactions have deadlines), and time passes.
Fairness ==
    /\ \A e \in Events :
        /\ WF_vars(\E p \in Publishers, expired, taken \in Batches :
                       e \in expired \cup taken /\ Claim(p, expired, taken))
        /\ WF_vars(Expire(e))
        /\ WF_vars(BecomeDue(e))
    /\ \A p \in Publishers :
        /\ WF_vars(\E e \in Events, stored, heard \in BOOLEAN : Publish(p, e, stored, heard))
        /\ WF_vars(\E e \in Events : Mark(p, e))

FairSpec == Spec /\ Fairness

-----------------------------------------------------------------------------
(* Properties *)

\* The columns of a row and the memory of a publisher keep their shapes, and no
\* row is attempted more often than configured.
TypeOK ==
    /\ status \in [Events -> Status]
    /\ retry \in [Events -> 0 .. MaxAttempts]
    /\ token \in [Events -> Nat]
    /\ lease \in [Events -> Lease]
    /\ due \in [Events -> BOOLEAN]
    /\ nextToken \in Nat \ {0}
    /\ passToken \in [Publishers -> Nat]
    /\ batch \in [Publishers -> SUBSET Events]
    /\ item \in [Publishers -> [Events -> 0 .. MaxAttempts]]
    /\ answer \in [Publishers -> [Events -> Answer]]
    /\ stream \subseteq Events \X (0 .. MaxAttempts)

Stored(e) == \E n \in 0 .. MaxAttempts : <<e, n>> \in stream

\* A row marked published is in the stream: neither a lost answer nor a late
\* publisher makes the table claim an event that consumers will never see.
PublishedIsStored == \A e \in Events : status[e] = "published" => Stored(e)

\* A published row is settled for good: a publisher that comes back late with
\* an error does not put it back in the queue.
PublishedIsFinal ==
    [][\A e \in Events : status[e] = "published" => status'[e] = "published"]_vars

\* Every copy of an event in the stream was sent by an attempt of its own, so
\* the copies of an event number at most MaxAttempts.
OneCopyPerAttempt ==
    [][\A p \in Publishers, e \in Events :
          answer[p][e] = "unsent" /\ answer'[p][e] # "unsent"
              => <<e, item[p][e]>> \notin stream]_vars

\* Every recorded event is published, or its attempts are used up; no crash or
\* lost lease leaves it leased for ever.
EventsSettle ==
    \A e \in Events :
        status[e] = "pending"
            ~> \/ status[e] = "published"
               \/ status[e] = "failed" /\ retry[e] = MaxAttempts

\* The outbox is the first hop of a verdict: what it has recorded it keeps, it
\* sends nothing else, and it marks for good only rows that are in the stream,
\* whatever claims, late publishers and lost answers do in between.
Hop == INSTANCE Delivery WITH
    Items <- Events,
    accepted <- {e \in Events : status[e] # "absent"},
    arrived <- {e \in Events : Stored(e)},
    settled <- {e \in Events : status[e] = "published"}

ImplementsDelivery == Hop!Spec

\* The inductive strengthening.

\* Only recorded rows are attempted.
Recorded == \A e \in Events : status[e] = "absent" => retry[e] = 0

LeaseShape ==
    \A e \in Events :
        /\ lease[e] = "none" <=> token[e] = NoToken
        /\ status[e] = "leased" <=> token[e] # NoToken

\* An attempt is in the hands of at most one publisher, and it is not in the
\* stream before that publisher sent it.
AttemptsUnique ==
    /\ \A p \in Publishers : \A e \in batch[p] :
        /\ item[p][e] \in 1 .. retry[e]
        /\ answer[p][e] = "unsent" => <<e, item[p][e]>> \notin stream
        /\ answer[p][e] = "acked" => <<e, item[p][e]>> \in stream
        /\ \A q \in Publishers : e \in batch[q] /\ item[q][e] = item[p][e] => q = p
    /\ \A s \in stream : s[2] <= retry[s[1]]
    /\ \A p \in Publishers, e \in Events : e \notin batch[p] => answer[p][e] = "unsent"
=============================================================================
