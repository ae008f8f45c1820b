------------------------------ MODULE EventBus ------------------------------
(***************************************************************************)
(* Delivery of the events of one subject to one durable consumer (queue)   *)
(* of the event bus, a JetStream stream shared by every backend replica.   *)
(*                                                                         *)
(* The broker keeps the messages, the progress of the consumer and the     *)
(* number of deliveries of the one message that may be unacknowledged; a   *)
(* message that was refused (Nak) or whose ack wait ran out is delivered   *)
(* again, to any replica.  A replica runs the handler at most once per     *)
(* delivery; RetryMax deliveries without success end in the dead letter    *)
(* stream, and the message is acknowledged only after success or after its *)
(* dead letter is stored.  Acknowledgements, refusals and answers of the   *)
(* broker may be lost; replicas stop at any moment.                        *)
(***************************************************************************)
EXTENDS Naturals, Sequences, FiniteSets

CONSTANTS
    Replicas,       \* backend processes that hold the subscription
    RetryMax,       \* NATS_CONSUMER_RETRY_MAX
    MaxMessages,    \* bound on the messages published on the subject
    Malformed       \* the messages whose envelope cannot be read

ASSUME RetryMaxAssumption == RetryMax \in Nat /\ RetryMax > 0
ASSUME MaxMessagesAssumption == MaxMessages \in Nat
ASSUME MalformedAssumption == Malformed \subseteq Nat

VARIABLES
    stored,     \* messages 1 .. stored are in the stream
    floor,      \* messages 1 .. floor are acknowledged
    tries,      \* deliveries of message floor + 1; RetryMax + 1 stands for more
    ready,      \* that message waits for another delivery
    slot,       \* what each replica holds of a delivery
    dead,       \* messages in the dead letter stream
    applied,    \* history: the messages whose handler committed, in that order
    late        \* history: some handler was still at work when its ack wait ran out

broker == <<stored, floor, tries, ready, late>>
vars == <<broker, slot, dead, applied>>

-----------------------------------------------------------------------------

Stage == {"idle", "received", "running", "handled", "failed"}
Slot  == [seq : Nat, num : Nat, stage : Stage]
Idle  == [seq |-> 0, num |-> 0, stage |-> "idle"]

\* Faults the properties are tested against stand in front of the definition
\* they replace, under the name of that definition and the fault.

Free_AnyTime == TRUE
Free_MaxDeliver == tries = 0 \/ (ready /\ tries <= RetryMax)

\* MaxAckPending is 1 and MaxDeliver is unlimited.
Free == tries = 0 \/ ready

IsPending_Any(seq) == TRUE

\* The broker ignores what it hears about a message it has no longer pending.
IsPending(seq) == tries > 0 /\ seq = floor + 1

\* The envelope is readable and meta.NumDelivered <= retryMax.
MayRun(r) ==
    slot[r].stage = "received" /\ slot[r].num <= RetryMax /\ slot[r].seq \notin Malformed

Confirmable_Failed(r) == slot[r].stage \in {"handled", "failed"}

\* The handler succeeded or the dead letter is stored.
Confirmable(r) == slot[r].stage = "handled"

-----------------------------------------------------------------------------
(* The broker *)

\* Publish: some module stores an event and hears the broker confirm it.  The
\* stream drops messages by age (MaxAge) and refuses new ones when it is full
\* (MaxBytes); both are left out, so what is stored stays.
Publish ==
    /\ stored < MaxMessages
    /\ stored' = stored + 1
    /\ UNCHANGED <<floor, tries, ready, slot, dead, applied, late>>

\* The pull request of replica r is answered.
Deliver(r) ==
    /\ slot[r] = Idle
    /\ floor < stored
    /\ Free
    /\ tries' = IF tries > RetryMax THEN tries ELSE tries + 1
    /\ ready' = FALSE
    /\ slot' = [slot EXCEPT ![r] = [seq |-> floor + 1, num |-> tries', stage |-> "received"]]
    /\ UNCHANGED <<stored, floor, dead, applied, late>>

\* The ack wait of the pending message runs out.
AckWaitOver ==
    /\ tries > 0 /\ ~ready
    /\ ready' = TRUE
    /\ late' = (late \/ \E r \in Replicas : slot[r].seq = floor + 1)
    /\ UNCHANGED <<stored, floor, tries, slot, dead, applied>>

-----------------------------------------------------------------------------
(* handleMessage *)

\* invokeHandler starts.
Run(r) ==
    /\ MayRun(r)
    /\ slot' = [slot EXCEPT ![r].stage = "running"]
    /\ UNCHANGED <<broker, dead, applied>>

\* The delivery fails without a call of the handler: the envelope is unreadable,
\* or only the dead letter is left to do for this message.
SkipHandler(r) ==
    /\ slot[r].stage = "received" /\ (slot[r].num > RetryMax \/ slot[r].seq \in Malformed)
    /\ slot' = [slot EXCEPT ![r].stage = "failed"]
    /\ UNCHANGED <<broker, dead, applied>>

\* The transaction of the handler commits; it counts as failed all the same
\* when the handler returns after its deadline.
Commit(r, inTime) ==
    /\ slot[r].stage = "running"
    /\ applied' = Append(applied, slot[r].seq)
    /\ slot' = [slot EXCEPT ![r].stage = IF inTime THEN "handled" ELSE "failed"]
    /\ UNCHANGED <<broker, dead>>

\* The handler returns an error or panics and leaves nothing behind.
HandlerFails(r) ==
    /\ slot[r].stage = "running"
    /\ slot' = [slot EXCEPT ![r].stage = "failed"]
    /\ UNCHANGED <<broker, dead, applied>>

\* retryDelivery: the Nak reaches the broker or is lost.
Refuse(r, heard) ==
    /\ slot' = [slot EXCEPT ![r] = Idle]
    /\ ready' = (ready \/ (heard /\ IsPending(slot[r].seq)))
    /\ UNCHANGED <<stored, floor, tries, applied, late>>

Retry(r, heard) ==
    /\ slot[r].stage = "failed" /\ slot[r].num < RetryMax
    /\ Refuse(r, heard)
    /\ dead' = dead

\* publishDeadLetter, idempotent by its message id.  It may be stored although
\* the confirmation is lost; without confirmation the message is refused.
DeadLetter(r) ==
    /\ slot[r].stage = "failed" /\ slot[r].num >= RetryMax
    /\ dead' = dead \cup {slot[r].seq}
    /\ slot' = [slot EXCEPT ![r].stage = "handled"]
    /\ UNCHANGED <<broker, applied>>

DeadLetterFails(r, heard) ==
    /\ slot[r].stage = "failed" /\ slot[r].num >= RetryMax
    /\ dead' \in {dead, dead \cup {slot[r].seq}}
    /\ Refuse(r, heard)

\* DoubleAck, which reaches the broker or is lost.
Confirm(r, heard) ==
    /\ Confirmable(r)
    /\ slot' = [slot EXCEPT ![r] = Idle]
    /\ IF heard /\ IsPending(slot[r].seq)
       THEN floor' = floor + 1 /\ tries' = 0 /\ ready' = FALSE
       ELSE UNCHANGED <<floor, tries, ready>>
    /\ UNCHANGED <<stored, dead, applied, late>>

\* The process stops or closes its subscription: no ack, no Nak.
Stop(r) ==
    /\ slot[r] # Idle
    /\ slot' = [slot EXCEPT ![r] = Idle]
    /\ UNCHANGED <<broker, dead, applied>>

-----------------------------------------------------------------------------
(* Specification *)

Init ==
    /\ stored = 0 /\ floor = 0 /\ tries = 0 /\ ready = FALSE
    /\ slot = [r \in Replicas |-> Idle]
    /\ dead = {}
    /\ applied = <<>>
    /\ late = FALSE

Next ==
    \/ Publish
    \/ AckWaitOver
    \/ \E r \in Replicas :
        \/ Deliver(r)
        \/ Run(r)
        \/ SkipHandler(r)
        \/ \E inTime \in BOOLEAN : Commit(r, inTime)
        \/ HandlerFails(r)
        \/ \E heard \in BOOLEAN : Retry(r, heard)
        \/ DeadLetter(r)
        \/ \E heard \in BOOLEAN : DeadLetterFails(r, heard)
        \/ \E heard \in BOOLEAN : Confirm(r, heard)
        \/ Stop(r)

Spec == Init /\ [][Next]_vars

\* Some replica keeps pulling; replicas stop, handlers fail and answers get
\* lost any number of times, but none of these happens every time.
Fairness ==
    /\ WF_vars(\E r \in Replicas : Deliver(r))
    /\ WF_vars(AckWaitOver)
    /\ SF_vars(\E r \in Replicas : Run(r) \/ SkipHandler(r))
    /\ SF_vars(\E r \in Replicas : HandlerFails(r) \/ \E inTime \in BOOLEAN : Commit(r, inTime))
    /\ SF_vars(\E r \in Replicas, heard \in BOOLEAN : Retry(r, heard))
    /\ SF_vars(\E r \in Replicas : DeadLetter(r))
    /\ SF_vars(\E r \in Replicas : Confirm(r, TRUE))

FairSpec == Spec /\ Fairness

-----------------------------------------------------------------------------
(* Properties *)

\* The stream, the consumer and the replicas keep their shapes; in particular
\* the consumer never acknowledges a message that is not in the stream.
TypeOK ==
    /\ stored \in 0 .. MaxMessages
    /\ floor \in 0 .. stored /\ (tries > 0 => floor < stored)
    /\ tries \in 0 .. RetryMax + 1
    /\ ready \in BOOLEAN
    /\ slot \in [Replicas -> Slot]
    /\ dead \subseteq Nat
    /\ applied \in Seq(Nat)
    /\ late \in BOOLEAN

Handled(m) == \E i \in DOMAIN applied : applied[i] = m

\* The consumer moves past a message only when its handler has committed or
\* its dead letter is stored, whatever is lost or stopped on the way.
NothingSkipped == \A m \in 1 .. floor : Handled(m) \/ m \in dead

\* MaxAckPending = 1 gives the consumer to one handler at a time in the whole
\* deployment, as long as no handler outlives its deadline.
SingleHandler ==
    ~late =>
        \A r, q \in Replicas : slot[r].stage = "running" /\ slot[q].stage = "running" => r = q

\* Handlers that keep their deadline commit in the order of the stream:
\* redeliveries repeat a message before, never after, the next one.
InOrder == ~late => \A i, j \in DOMAIN applied : i < j => applied[i] <= applied[j]

\* A dead letter can be replayed by hand: as long as handlers keep their
\* deadline, none commits once more behind the back of whoever replays it.
DeadIsFinal == [][~late => \A m \in dead : applied' # Append(applied, m)]_vars

\* Every event is eventually applied or dead lettered, and acknowledged: a
\* handler that always fails does not block the consumer for ever.
Drains == \A m \in 1 .. MaxMessages : (stored >= m) ~> (floor >= m)

\* The bus is the second hop of a verdict: what it has stored it keeps, it hands
\* out nothing else, and it acknowledges for good, one message after the other,
\* only what was handled or dead lettered, also when a late handler of an old
\* delivery ends in between.
Hop == INSTANCE Delivery WITH
    Items <- 1 .. MaxMessages,
    accepted <- 1 .. stored,
    arrived <- {applied[i] : i \in DOMAIN applied} \cup dead,
    settled <- 1 .. floor

ImplementsDelivery == Hop!Spec

\* A delivery is of a message of the stream.
OfStream == \A r \in Replicas : slot[r].stage # "idle" => slot[r].seq \in 1 .. stored

\* The inductive strengthening of NothingSkipped.
SettledBeforeAck ==
    \A r \in Replicas :
        /\ slot[r].stage = "handled" => Handled(slot[r].seq) \/ slot[r].seq \in dead
        /\ slot[r].seq <= stored
        /\ slot[r].stage = "idle" <=> slot[r] = Idle

\* The inductive strengthening of InOrder and DeadIsFinal for handlers that
\* keep their deadline: one delivery at a time, of the pending message,
One ==
    /\ \A r \in Replicas :
            slot[r] # Idle => slot[r].seq = floor + 1 /\ slot[r].num = tries /\ tries > 0 /\ ~ready
    /\ \A r, q \in Replicas : slot[r] # Idle /\ slot[q] # Idle => r = q

\* which is the last one applied or dead lettered,
Behind == (\A i \in DOMAIN applied : applied[i] <= floor + 1) /\ (\A m \in dead : m <= floor + 1)

\* and which is not handled any more once it is dead lettered.
NotRerun ==
    floor + 1 \in dead =>
        /\ tries >= RetryMax
        /\ \A r \in Replicas : slot[r].stage = "received" => slot[r].num > RetryMax
        /\ \A r \in Replicas : slot[r].stage # "running"

OneDelivery == late \/ (One /\ Behind /\ NotRerun)
=============================================================================
