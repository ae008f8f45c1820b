--------------------------- MODULE EventBusProofs ---------------------------
(***************************************************************************)
(* Proofs about EventBus, for any replicas, retry limit and number of      *)
(* messages.                                                               *)
(***************************************************************************)
EXTENDS EventBus, TLAPS

USE RetryMaxAssumption, MaxMessagesAssumption, MalformedAssumption

-----------------------------------------------------------------------------
(* Types *)

LEMMA InitTypeOK == Init => TypeOK
  <1> SUFFICES ASSUME Init PROVE TypeOK
    OBVIOUS
  <1>1. /\ stored \in 0 .. MaxMessages /\ tries \in 0 .. RetryMax + 1
        /\ floor \in 0 .. stored /\ (tries > 0 => floor < stored)
    BY DEF Init
  <1>2. slot \in [Replicas -> Slot]
    BY DEF Init, Slot, Idle, Stage
  <1>3. dead \subseteq Nat /\ applied \in Seq(Nat)
    BY DEF Init
  <1>4. ready \in BOOLEAN /\ late \in BOOLEAN
    BY DEF Init
  <1>5. QED
    BY <1>1, <1>2, <1>3, <1>4 DEF TypeOK

\* Once a handler was late the history says so for ever.
LEMMA LateStays == ASSUME TypeOK, [Next]_vars PROVE late' \in BOOLEAN /\ (late => late')
  BY DEF TypeOK, Next, Publish, AckWaitOver, Deliver, Run, SkipHandler, Commit, HandlerFails, Retry,
         Refuse, DeadLetter, DeadLetterFails, Confirm, Stop, vars, broker

LEMMA NextTypeOK == TypeOK /\ [Next]_vars => TypeOK'
  <1> SUFFICES ASSUME TypeOK, [Next]_vars PROVE TypeOK'
    OBVIOUS
  <1>1. CASE Publish
    BY <1>1 DEF TypeOK, Publish
  <1>2. CASE AckWaitOver
    BY <1>2 DEF TypeOK, AckWaitOver
  <1>3. ASSUME NEW r \in Replicas, Deliver(r) PROVE TypeOK'
    <2>1. /\ tries' \in 0 .. RetryMax + 1
          /\ UNCHANGED <<stored, floor, dead, applied, late>> /\ floor < stored
      BY <1>3 DEF TypeOK, Deliver
    <2>2. slot' \in [Replicas -> Slot]
      BY <1>3, <2>1 DEF TypeOK, Deliver, Slot, Stage
    <2>3. ready' \in BOOLEAN
      BY <1>3 DEF Deliver
    <2>4. QED
      BY <2>1, <2>2, <2>3 DEF TypeOK
  <1>4. ASSUME NEW r \in Replicas, Run(r) \/ SkipHandler(r) \/ HandlerFails(r) PROVE TypeOK'
    BY <1>4 DEF TypeOK, Slot, Stage, broker, Run, MayRun, SkipHandler, HandlerFails
  <1>5. ASSUME NEW r \in Replicas, NEW inTime \in BOOLEAN, Commit(r, inTime) PROVE TypeOK'
    <2>1. slot[r].seq \in Nat
      BY DEF TypeOK, Slot
    <2>2. applied' \in Seq(Nat)
      BY <1>5, <2>1 DEF TypeOK, Commit
    <2>3. slot' \in [Replicas -> Slot]
      BY <1>5 DEF TypeOK, Commit, Slot, Stage
    <2>4. QED
      BY <1>5, <2>2, <2>3 DEF TypeOK, Commit, broker
  <1>6. ASSUME NEW r \in Replicas, NEW heard \in BOOLEAN, Refuse(r, heard)
        PROVE  /\ slot' \in [Replicas -> Slot] /\ ready' \in BOOLEAN
               /\ UNCHANGED <<stored, floor, tries, applied, late>>
    BY <1>6 DEF TypeOK, Refuse, IsPending, Slot, Stage, Idle
  <1>7. ASSUME NEW r \in Replicas, NEW heard \in BOOLEAN, Retry(r, heard) PROVE TypeOK'
    BY <1>6, <1>7 DEF TypeOK, Retry
  <1>8. ASSUME NEW r \in Replicas, NEW heard \in BOOLEAN, DeadLetterFails(r, heard)
        PROVE  TypeOK'
    <2>1. slot[r].seq \in Nat
      BY DEF TypeOK, Slot
    <2>2. dead' \subseteq Nat
      BY <1>8, <2>1 DEF TypeOK, DeadLetterFails
    <2>3. QED
      BY <1>6, <1>8, <2>2 DEF TypeOK, DeadLetterFails
  <1>9. ASSUME NEW r \in Replicas, DeadLetter(r) PROVE TypeOK'
    BY <1>9 DEF TypeOK, DeadLetter, Slot, Stage, broker
  <1>10. ASSUME NEW r \in Replicas, NEW heard \in BOOLEAN, Confirm(r, heard) PROVE TypeOK'
    <2>1. slot' \in [Replicas -> Slot]
      BY <1>10 DEF TypeOK, Confirm, Slot, Stage, Idle
    <2>2. CASE heard /\ IsPending(slot[r].seq)
      <3>1. floor' = floor + 1 /\ tries' = 0 /\ floor < stored
        BY <1>10, <2>2 DEF TypeOK, Confirm, IsPending
      <3>2. ready' \in BOOLEAN
        BY <1>10, <2>2 DEF Confirm
      <3>3. UNCHANGED <<stored, dead, applied, late>>
        BY <1>10 DEF Confirm
      <3>4. QED
        BY <2>1, <3>1, <3>2, <3>3 DEF TypeOK
    <2>3. CASE ~(heard /\ IsPending(slot[r].seq))
      BY <1>10, <2>1, <2>3 DEF TypeOK, Confirm
    <2>4. QED
      BY <2>2, <2>3
  <1>11. ASSUME NEW r \in Replicas, Stop(r) PROVE TypeOK'
    BY <1>11 DEF TypeOK, Stop, Slot, Stage, Idle, broker
  <1>12. CASE UNCHANGED vars
    BY <1>12 DEF TypeOK, vars, broker
  <1>13. QED
    BY <1>1, <1>2, <1>3, <1>4, <1>5, <1>7, <1>8, <1>9, <1>10, <1>11, <1>12 DEF Next

THEOREM TypeCorrect == Spec => []TypeOK
  BY InitTypeOK, NextTypeOK, PTL DEF Spec

-----------------------------------------------------------------------------
(* Nothing is skipped *)

\* What changing the stage of a slot does.
LEMMA StageChange ==
  ASSUME TypeOK, NEW r \in Replicas, NEW s \in Stage, slot' = [slot EXCEPT ![r].stage = s]
  PROVE  /\ \A q \in Replicas : slot'[q].seq = slot[q].seq /\ slot'[q].num = slot[q].num
         /\ \A q \in Replicas : q # r => slot'[q] = slot[q]
         /\ slot'[r].stage = s
  <1>1. slot'[r] = [slot[r] EXCEPT !.stage = s] /\ slot[r] \in Slot
    BY DEF TypeOK
  <1>2. slot'[r].seq = slot[r].seq /\ slot'[r].num = slot[r].num /\ slot'[r].stage = s
    BY <1>1 DEF Slot
  <1>3. \A q \in Replicas : q # r => slot'[q] = slot[q]
    BY DEF TypeOK
  <1>4. QED
    BY <1>2, <1>3

LEMMA NextSettled ==
  TypeOK /\ SettledBeforeAck /\ [Next]_vars => SettledBeforeAck'
  <1> SUFFICES ASSUME TypeOK, SettledBeforeAck, [Next]_vars PROVE SettledBeforeAck'
    OBVIOUS
  \* What is handled stays handled.
  <1>1. ASSUME NEW m \in Nat, applied' = Append(applied, m)
        PROVE  Handled(m)' /\ \A n : Handled(n) => Handled(n)'
    <2>1. applied \in Seq(Nat)
      BY DEF TypeOK
    <2>2. QED
      BY <1>1, <2>1 DEF Handled
  <1>2. ASSUME applied' = applied PROVE \A n : Handled(n) => Handled(n)'
    BY <1>2 DEF Handled
  <1>3. CASE Publish
    BY <1>2, <1>3 DEF TypeOK, SettledBeforeAck, Publish, Slot
  <1>4. CASE AckWaitOver
    BY <1>2, <1>4 DEF SettledBeforeAck, AckWaitOver
  <1>5. ASSUME NEW r \in Replicas, Deliver(r) PROVE SettledBeforeAck'
    BY <1>2, <1>5 DEF TypeOK, SettledBeforeAck, Deliver, Slot, Idle
  <1>6. ASSUME NEW r \in Replicas, Run(r) \/ SkipHandler(r) \/ HandlerFails(r)
        PROVE  SettledBeforeAck'
    <2>1. /\ \A q \in Replicas : slot'[q].seq = slot[q].seq
          /\ \A q \in Replicas : slot'[q] = slot[q] \/ slot'[q].stage \in {"running", "failed"}
      BY <1>6, StageChange DEF Stage, Run, SkipHandler, HandlerFails
    <2>2. UNCHANGED <<stored, dead, applied>>
      BY <1>6 DEF Run, SkipHandler, HandlerFails, broker
    <2>3. \A q \in Replicas : slot'[q].stage = "idle" <=> slot'[q] = Idle
      BY <2>1 DEF SettledBeforeAck, Idle
    <2>4. \A q \in Replicas : slot'[q].stage = "handled" => slot'[q] = slot[q]
      BY <2>1
    <2>5. QED
      BY <1>2, <2>1, <2>2, <2>3, <2>4 DEF SettledBeforeAck
  <1>7. ASSUME NEW r \in Replicas, NEW inTime \in BOOLEAN, Commit(r, inTime)
        PROVE  SettledBeforeAck'
    <2>1. PICK m \in Nat : m = slot[r].seq /\ applied' = Append(applied, m)
      BY <1>7 DEF TypeOK, Slot, Commit
    <2>2. Handled(m)' /\ \A n : Handled(n) => Handled(n)'
      BY <1>1, <2>1
    <2>3. /\ \A q \in Replicas : slot'[q].seq = slot[q].seq
          /\ \A q \in Replicas :
                \/ slot'[q] = slot[q]
                \/ q = r /\ slot'[q].stage \in {"handled", "failed"}
      <3>1. slot' = [slot EXCEPT ![r].stage = IF inTime THEN "handled" ELSE "failed"]
        BY <1>7 DEF Commit
      <3>2. CASE inTime
        BY <3>1, <3>2, StageChange DEF Stage
      <3>3. CASE ~inTime
        BY <3>1, <3>3, StageChange DEF Stage
      <3>4. QED
        BY <3>2, <3>3
    <2>4. UNCHANGED <<stored, dead>>
      BY <1>7 DEF Commit, broker
    <2>5. \A q \in Replicas : slot'[q].stage = "idle" <=> slot'[q] = Idle
      BY <2>3 DEF SettledBeforeAck, Idle
    <2>6. \A q \in Replicas : q = r \/ slot'[q] = slot[q]
      BY <2>3
    <2>7. QED
      BY <2>1, <2>2, <2>3, <2>4, <2>5, <2>6 DEF SettledBeforeAck
  <1>8. ASSUME NEW r \in Replicas, NEW heard \in BOOLEAN, Refuse(r, heard), dead \subseteq dead'
        PROVE  SettledBeforeAck'
    BY <1>2, <1>8 DEF TypeOK, SettledBeforeAck, Slot, Idle, Refuse
  <1>9. ASSUME NEW r \in Replicas, NEW heard \in BOOLEAN, Retry(r, heard) \/ DeadLetterFails(r, heard)
        PROVE  SettledBeforeAck'
    BY <1>8, <1>9 DEF Retry, DeadLetterFails
  <1>10. ASSUME NEW r \in Replicas, DeadLetter(r) PROVE SettledBeforeAck'
    BY <1>2, <1>10 DEF TypeOK, SettledBeforeAck, Slot, Idle, broker, DeadLetter
  <1>11. ASSUME NEW r \in Replicas, NEW heard \in BOOLEAN, Confirm(r, heard) PROVE SettledBeforeAck'
    BY <1>2, <1>11 DEF TypeOK, SettledBeforeAck, Slot, Idle, Confirm
  <1>12. ASSUME NEW r \in Replicas, Stop(r) PROVE SettledBeforeAck'
    BY <1>2, <1>12 DEF TypeOK, SettledBeforeAck, Slot, Idle, broker, Stop
  <1>13. CASE UNCHANGED vars
    BY <1>2, <1>13 DEF SettledBeforeAck, vars, broker
  <1>14. QED
    BY <1>3, <1>4, <1>5, <1>6, <1>7, <1>9, <1>10, <1>11, <1>12, <1>13 DEF Next

LEMMA NextNothingSkipped ==
  TypeOK /\ SettledBeforeAck /\ NothingSkipped /\ [Next]_vars => NothingSkipped'
  <1> SUFFICES ASSUME TypeOK, SettledBeforeAck, NothingSkipped, [Next]_vars PROVE NothingSkipped'
    OBVIOUS
  <1>1. dead \subseteq dead'
    BY DEF Next, Publish, AckWaitOver, Deliver, Run, SkipHandler, Commit, HandlerFails, Retry,
           DeadLetter, DeadLetterFails, Confirm, Stop, vars
  <1>2. applied' = applied \/ \E r \in Replicas : applied' = Append(applied, slot[r].seq)
    BY DEF Next, Publish, AckWaitOver, Deliver, Run, SkipHandler, Commit, HandlerFails, Retry,
           Refuse, DeadLetter, DeadLetterFails, Confirm, Stop, vars
  <1>3. \A m : Handled(m) => Handled(m)'
    <2>1. \A r \in Replicas : slot[r].seq \in Nat
      BY DEF TypeOK, Slot
    <2>2. applied \in Seq(Nat)
      BY DEF TypeOK
    <2>3. QED
      BY <1>2, <2>1, <2>2 DEF Handled
  <1>4. ASSUME floor' = floor PROVE NothingSkipped'
    BY <1>1, <1>3, <1>4 DEF NothingSkipped
  <1>5. ASSUME NEW r \in Replicas, NEW heard \in BOOLEAN, Confirm(r, heard) PROVE NothingSkipped'
    \* only a settled message is confirmed, and only as the next one
    <2>1. CASE heard /\ IsPending(slot[r].seq)
      <3>1. floor' = floor + 1 /\ (Handled(floor + 1) \/ floor + 1 \in dead)
        BY <1>5, <2>1 DEF Confirm, Confirmable, IsPending, SettledBeforeAck
      <3>2. floor \in Nat
        BY DEF TypeOK
      <3>3. QED
        BY <1>1, <1>3, <3>1, <3>2 DEF NothingSkipped
    <2>2. CASE ~(heard /\ IsPending(slot[r].seq))
      BY <1>4, <1>5, <2>2 DEF Confirm
    <2>3. QED
      BY <2>1, <2>2
  <1>6. floor' = floor \/ \E r \in Replicas, heard \in BOOLEAN : Confirm(r, heard)
    BY DEF Next, Publish, AckWaitOver, Deliver, Run, SkipHandler, Commit, HandlerFails, Retry,
           Refuse, DeadLetter, DeadLetterFails, Stop, vars, broker
  <1>7. QED
    BY <1>4, <1>5, <1>6

\* The consumer never moves past an event that was neither applied nor dead
\* lettered.
THEOREM NoEventSkipped == Spec => []NothingSkipped
  <1>1. Init => SettledBeforeAck /\ NothingSkipped
    BY DEF Init, SettledBeforeAck, NothingSkipped, Idle
  <1>2. QED
    BY <1>1, NextSettled, NextNothingSkipped, TypeCorrect, PTL DEF Spec

-----------------------------------------------------------------------------
(* Order and dead letters, when handlers keep their deadline *)

\* A step that only changes the stage of a delivery in hand.
LEMMA StageKeepsOne ==
  ASSUME TypeOK, One, NEW r \in Replicas, slot[r].stage # "idle", NEW s \in Stage \ {"idle"},
         slot' = [slot EXCEPT ![r].stage = s], UNCHANGED broker
  PROVE  One'
  <1>1. \A q \in Replicas : slot'[q].seq = slot[q].seq /\ slot'[q].num = slot[q].num
    BY StageChange
  <1>2. \A q \in Replicas : q # r => slot'[q] = slot[q]
    BY StageChange
  <1>3. slot[r] # Idle
    BY DEF Idle
  <1>4. \A q \in Replicas : slot'[q] # Idle => slot[q] # Idle
    BY <1>2, <1>3
  <1>5. QED
    BY <1>1, <1>4 DEF One, broker

LEMMA NextOne ==
  ASSUME ~late', TypeOK, SettledBeforeAck, One, [Next]_vars
  PROVE  One'
  <1>1. CASE Publish
    BY <1>1 DEF One, Publish
  <1>2. CASE AckWaitOver
    <2>1. \A r \in Replicas : slot[r] = Idle
      BY <1>2 DEF One, AckWaitOver
    <2>2. slot' = slot
      BY <1>2 DEF AckWaitOver
    <2>3. QED
      BY <2>1, <2>2 DEF One
  <1>3. ASSUME NEW r \in Replicas, Deliver(r) PROVE One'
    <2>1. \A q \in Replicas : slot[q] = Idle
      BY <1>3 DEF One, Deliver, Free
    <2>2. slot'[r] = [seq |-> floor + 1, num |-> tries', stage |-> "received"]
      BY <1>3 DEF TypeOK, Deliver
    <2>3. \A q \in Replicas : q # r => slot'[q] = Idle
      BY <1>3, <2>1 DEF TypeOK, Deliver
    <2>4. floor' = floor /\ tries' > 0 /\ ready' = FALSE
      BY <1>3 DEF TypeOK, Deliver
    <2>5. QED
      BY <2>2, <2>3, <2>4 DEF One
  <1>4. ASSUME NEW r \in Replicas, Run(r) \/ SkipHandler(r) \/ HandlerFails(r) PROVE One'
    BY <1>4, StageKeepsOne DEF Run, MayRun, SkipHandler, HandlerFails, Stage
  <1>5. ASSUME NEW r \in Replicas, NEW inTime \in BOOLEAN, Commit(r, inTime) PROVE One'
    <2> DEFINE s == IF inTime THEN "handled" ELSE "failed"
    <2>1. s \in Stage \ {"idle"} /\ slot' = [slot EXCEPT ![r].stage = s]
      BY <1>5 DEF Commit, Stage
    <2>2. slot[r].stage # "idle" /\ UNCHANGED broker
      BY <1>5 DEF Commit
    <2> HIDE DEF s
    <2>3. QED
      BY <2>1, <2>2, StageKeepsOne
  <1>6. ASSUME NEW r \in Replicas, DeadLetter(r) PROVE One'
    BY <1>6, StageKeepsOne DEF DeadLetter, Stage
  <1>7. ASSUME NEW r \in Replicas, slot[r] # Idle, slot' = [slot EXCEPT ![r] = Idle],
               UNCHANGED <<floor, tries>>
        PROVE  One'
    BY <1>7 DEF One, TypeOK
  <1>8. ASSUME NEW r \in Replicas, NEW heard \in BOOLEAN, Retry(r, heard) \/ DeadLetterFails(r, heard)
        PROVE  One'
    BY <1>7, <1>8 DEF Retry, DeadLetterFails, Refuse, Idle
  <1>9. ASSUME NEW r \in Replicas, NEW heard \in BOOLEAN, Confirm(r, heard) PROVE One'
    <2>1. slot[r] # Idle /\ slot' = [slot EXCEPT ![r] = Idle]
      BY <1>9 DEF Confirm, Confirmable, Idle
    <2>2. \A q \in Replicas : slot'[q] = Idle
      BY <2>1 DEF One, TypeOK
    <2>3. QED
      BY <2>2 DEF One
  <1>10. ASSUME NEW r \in Replicas, Stop(r) PROVE One'
    BY <1>7, <1>10 DEF Stop, broker
  <1>11. CASE UNCHANGED vars
    BY <1>11 DEF One, vars, broker
  <1>12. QED
    BY <1>1, <1>2, <1>3, <1>4, <1>5, <1>6, <1>8, <1>9, <1>10, <1>11 DEF Next

LEMMA NextBehind ==
  ASSUME ~late', TypeOK, SettledBeforeAck, One, Behind, NotRerun, [Next]_vars
  PROVE  Behind' /\ NotRerun'
  <1>. floor \in Nat /\ applied \in Seq(Nat) /\ tries \in Nat
    BY DEF TypeOK
  <1>1. CASE Publish \/ AckWaitOver
    BY <1>1 DEF Behind, NotRerun, Publish, AckWaitOver
  <1>2. ASSUME NEW r \in Replicas, Deliver(r) PROVE Behind' /\ NotRerun'
    <2>1. slot'[r] = [seq |-> floor + 1, num |-> tries', stage |-> "received"]
      BY <1>2 DEF TypeOK, Deliver
    <2>2. \A q \in Replicas : q # r => slot'[q] = slot[q]
      BY <1>2 DEF TypeOK, Deliver
    <2>3. UNCHANGED <<floor, dead, applied>> /\ tries' \in Nat
      BY <1>2 DEF TypeOK, Deliver
    <2>4. tries >= RetryMax => tries' > RetryMax
      BY <1>2 DEF TypeOK, Deliver
    <2>5. NotRerun'
      <3> SUFFICES ASSUME floor + 1 \in dead
          PROVE  /\ tries' >= RetryMax
                 /\ \A q \in Replicas : slot'[q].stage = "received" => slot'[q].num > RetryMax
                 /\ \A q \in Replicas : slot'[q].stage # "running"
        BY <2>3 DEF NotRerun
      <3>1. tries' > RetryMax
        BY <2>4 DEF NotRerun
      <3>2. \A q \in Replicas : q # r =>
                /\ slot'[q].stage = "received" => slot'[q].num > RetryMax
                /\ slot'[q].stage # "running"
        BY <2>2 DEF NotRerun
      <3>3. slot'[r].num > RetryMax /\ slot'[r].stage # "running"
        BY <2>1, <3>1
      <3>4. QED
        BY <2>3, <3>1, <3>2, <3>3
    <2>6. QED
      BY <2>3, <2>5 DEF Behind
  <1>3. ASSUME NEW r \in Replicas, Run(r) PROVE Behind' /\ NotRerun'
    \* a delivery of a dead lettered message is beyond the retries
    <2>1. floor + 1 \notin dead
      BY <1>3 DEF TypeOK, Slot, NotRerun, Run, MayRun
    <2>2. QED
      BY <1>3, <2>1 DEF Behind, NotRerun, Run, broker
  <1>4. ASSUME NEW r \in Replicas, SkipHandler(r) \/ HandlerFails(r) PROVE Behind' /\ NotRerun'
    <2>1. slot' = [slot EXCEPT ![r].stage = "failed"] /\ UNCHANGED <<broker, dead, applied>>
      BY <1>4 DEF SkipHandler, HandlerFails
    <2>2. \A q \in Replicas : slot'[q] = slot[q] \/ slot'[q].stage = "failed"
      BY <2>1 DEF TypeOK, Slot
    <2>3. QED
      BY <2>1, <2>2 DEF Behind, NotRerun, broker
  <1>5. ASSUME NEW r \in Replicas, NEW inTime \in BOOLEAN, Commit(r, inTime)
        PROVE  Behind' /\ NotRerun'
    <2>1. slot[r].seq = floor + 1 /\ floor + 1 \notin dead
      BY <1>5 DEF One, NotRerun, Commit, Idle
    <2>2. applied' = Append(applied, floor + 1) /\ UNCHANGED <<floor, dead>>
      BY <1>5, <2>1 DEF Commit, broker
    <2>3. QED
      BY <2>1, <2>2 DEF Behind, NotRerun
  <1>6. ASSUME NEW r \in Replicas, slot[r].stage = "failed", slot[r].num >= RetryMax,
               dead' \in {dead, dead \cup {slot[r].seq}}, UNCHANGED <<floor, tries, applied>>,
               \A q \in Replicas : q # r => slot'[q] = slot[q],
               slot'[r].stage \in {"idle", "handled"}
        PROVE  Behind' /\ NotRerun'
    <2>1. slot[r].seq = floor + 1 /\ tries >= RetryMax
      BY <1>6 DEF One, Idle
    <2>2. \A q \in Replicas : slot'[q].stage \in {"idle", "handled"}
      BY <1>6 DEF One, Idle
    <2>3. QED
      BY <1>6, <2>1, <2>2 DEF Behind, NotRerun
  <1>7. ASSUME NEW r \in Replicas, NEW heard \in BOOLEAN, Retry(r, heard)
        PROVE  Behind' /\ NotRerun'
    <2>1. \A q \in Replicas : slot'[q] = slot[q] \/ slot'[q].stage = "idle"
      BY <1>7 DEF TypeOK, Retry, Refuse, Idle
    <2>2. QED
      BY <1>7, <2>1 DEF Behind, NotRerun, Retry, Refuse
  <1>8. ASSUME NEW r \in Replicas, NEW heard \in BOOLEAN, DeadLetterFails(r, heard)
        PROVE  Behind' /\ NotRerun'
    <2>1. slot'[r] = Idle /\ \A q \in Replicas : q # r => slot'[q] = slot[q]
      BY <1>8 DEF TypeOK, DeadLetterFails, Refuse
    <2>2. QED
      BY <1>6, <1>8, <2>1 DEF DeadLetterFails, Refuse, Idle
  <1>9. ASSUME NEW r \in Replicas, DeadLetter(r) PROVE Behind' /\ NotRerun'
    <2>1. slot'[r].stage = "handled" /\ \A q \in Replicas : q # r => slot'[q] = slot[q]
      BY <1>9, StageChange DEF DeadLetter, Stage
    <2>2. QED
      BY <1>6, <1>9, <2>1 DEF DeadLetter, broker
  <1>10. ASSUME NEW r \in Replicas, NEW heard \in BOOLEAN, Confirm(r, heard)
         PROVE  Behind' /\ NotRerun'
    <2>1. \A q \in Replicas : slot'[q] = slot[q] \/ slot'[q].stage = "idle"
      BY <1>10 DEF TypeOK, Confirm, Idle
    <2>2. CASE floor' = floor
      BY <1>10, <2>1, <2>2 DEF Behind, NotRerun, Confirm
    <2>3. CASE floor' = floor + 1
      BY <1>10, <2>3 DEF TypeOK, Behind, NotRerun, Confirm
    <2>4. QED
      BY <1>10, <2>2, <2>3 DEF Confirm
  <1>11. ASSUME NEW r \in Replicas, Stop(r) PROVE Behind' /\ NotRerun'
    <2>1. \A q \in Replicas : slot'[q] = slot[q] \/ slot'[q].stage = "idle"
      BY <1>11 DEF TypeOK, Stop, Idle
    <2>2. QED
      BY <1>11, <2>1 DEF Behind, NotRerun, Stop, broker
  <1>12. CASE UNCHANGED vars
    BY <1>12 DEF Behind, NotRerun, vars, broker
  <1>13. QED
    BY <1>1, <1>2, <1>3, <1>4, <1>5, <1>7, <1>8, <1>9, <1>10, <1>11, <1>12 DEF Next

LEMMA NextOneDelivery ==
  TypeOK /\ SettledBeforeAck /\ OneDelivery /\ [Next]_vars => OneDelivery'
  BY NextOne, NextBehind, LateStays DEF OneDelivery

LEMMA InitOneDelivery == Init => OneDelivery
  BY DEF Init, OneDelivery, One, Behind, NotRerun, Idle

LEMMA NextInOrder ==
  ASSUME TypeOK, SettledBeforeAck, OneDelivery, InOrder, [Next]_vars
  PROVE  InOrder'
  <1> SUFFICES ASSUME ~late' PROVE InOrder'
    BY DEF InOrder
  <1>. ~late
    BY LateStays
  <1>. floor \in Nat /\ applied \in Seq(Nat)
    BY DEF TypeOK
  <1>1. applied' = applied \/ \E r \in Replicas : slot[r].stage = "running"
                                               /\ applied' = Append(applied, slot[r].seq)
    BY DEF Next, Publish, AckWaitOver, Deliver, Run, SkipHandler, Commit, HandlerFails, Retry,
           Refuse, DeadLetter, DeadLetterFails, Confirm, Stop, vars
  <1>2. ASSUME NEW r \in Replicas, slot[r].stage = "running", applied' = Append(applied, slot[r].seq)
        PROVE  InOrder'
    <2>1. slot[r].seq = floor + 1 /\ \A i \in DOMAIN applied : applied[i] <= floor + 1
      BY <1>2 DEF OneDelivery, One, Behind, Idle
    <2>2. applied' = Append(applied, floor + 1)
      BY <1>2, <2>1
    <2>3. QED
      BY <2>1, <2>2 DEF InOrder
  <1>3. CASE applied' = applied
    BY <1>3 DEF InOrder
  <1>4. QED
    BY <1>1, <1>2, <1>3

LEMMA NextDeadIsFinal ==
  ASSUME ~late, TypeOK, OneDelivery, [Next]_vars, NEW m \in dead
  PROVE  applied' = applied \/ applied' # Append(applied, m)
  <1>1. applied' = applied \/ \E r \in Replicas : slot[r].stage = "running"
                                               /\ applied' = Append(applied, slot[r].seq)
    BY DEF Next, Publish, AckWaitOver, Deliver, Run, SkipHandler, Commit, HandlerFails, Retry,
           Refuse, DeadLetter, DeadLetterFails, Confirm, Stop, vars
  <1>2. ASSUME NEW r \in Replicas, slot[r].stage = "running", applied' = Append(applied, slot[r].seq),
               applied' = Append(applied, m)
        PROVE  FALSE
    <2>1. slot[r].seq = floor + 1 /\ floor + 1 \notin dead
      BY <1>2 DEF OneDelivery, One, NotRerun, Idle
    <2>2. Append(applied, m) = Append(applied, floor + 1)
      BY <1>2, <2>1
    <2>3. applied \in Seq(Nat) /\ m \in Nat /\ floor + 1 \in Nat
      BY DEF TypeOK
    <2>4. m = floor + 1
      BY <2>2, <2>3
    <2>5. QED
      BY <2>1, <2>4
  <1>3. QED
    BY <1>1, <1>2

\* When handlers keep their deadline, they commit in the order of the stream.
THEOREM EventsInOrder == Spec => []InOrder
  <1>1. Init => OneDelivery /\ InOrder
    BY InitOneDelivery DEF Init, InOrder
  <1>2. TypeOK /\ SettledBeforeAck /\ OneDelivery /\ [Next]_vars => OneDelivery'
    BY NextOneDelivery
  <1>3. TypeOK /\ SettledBeforeAck /\ OneDelivery /\ InOrder /\ [Next]_vars => InOrder'
    BY NextInOrder
  <1>4. Init => SettledBeforeAck
    BY DEF Init, SettledBeforeAck, Idle
  <1>5. QED
    BY <1>1, <1>2, <1>3, <1>4, NextSettled, TypeCorrect, PTL DEF Spec

\* When handlers keep their deadline, no two replicas run a handler of
\* the consumer at the same time.
THEOREM HandlersExclusive == Spec => []SingleHandler
  <1>1. Init => OneDelivery /\ SettledBeforeAck
    BY InitOneDelivery DEF Init, SettledBeforeAck, Idle
  <1>2. TypeOK /\ SettledBeforeAck /\ OneDelivery /\ [Next]_vars => OneDelivery'
    BY NextOneDelivery
  <1>3. OneDelivery => SingleHandler
    BY DEF OneDelivery, One, SingleHandler, Idle
  <1>4. QED
    BY <1>1, <1>2, <1>3, NextSettled, TypeCorrect, PTL DEF Spec

\* When handlers keep their deadline, none commits behind a dead letter.
THEOREM DeadLettersFinal == Spec => DeadIsFinal
  <1>1. Init => OneDelivery /\ SettledBeforeAck
    BY InitOneDelivery DEF Init, SettledBeforeAck, Idle
  <1>2. TypeOK /\ SettledBeforeAck /\ OneDelivery /\ [Next]_vars => OneDelivery'
    BY NextOneDelivery
  <1>3. TypeOK /\ OneDelivery /\ [Next]_vars => [~late => \A m \in dead : applied' # Append(applied, m)]_vars
    <2> SUFFICES ASSUME ~late, TypeOK, OneDelivery, [Next]_vars, NEW m \in dead,
                        applied' = Append(applied, m)
                 PROVE  FALSE
      BY DEF vars
    <2>1. applied \in Seq(Nat) /\ m \in Nat
      BY DEF TypeOK
    <2>2. applied' = applied \/ applied' # Append(applied, m)
      BY NextDeadIsFinal
    <2>3. Len(applied') = Len(applied) + 1
      BY <2>1
    <2>4. QED
      BY <2>1, <2>2, <2>3
  <1>4. QED
    BY <1>1, <1>2, <1>3, NextSettled, TypeCorrect, PTL DEF Spec, DeadIsFinal

-----------------------------------------------------------------------------
(* The hop of the bus *)

\* What arrived: applied or dead lettered.
Arrived == {applied[i] : i \in DOMAIN applied} \cup dead

LEMMA NextOfStream == TypeOK /\ OfStream /\ [Next]_vars => OfStream'
  <1> SUFFICES ASSUME TypeOK, OfStream, [Next]_vars PROVE OfStream'
    OBVIOUS
  <1>1. stored \in Nat /\ floor \in Nat
    BY DEF TypeOK
  <1>2. ASSUME stored' = stored,
               \A q \in Replicas : slot'[q] = Idle \/ (slot'[q].seq = slot[q].seq /\ slot[q].stage # "idle")
                                   \/ slot'[q] = slot[q]
        PROVE  OfStream'
    BY <1>2 DEF OfStream, Idle
  <1>3. CASE Publish
    BY <1>1, <1>3 DEF OfStream, Publish
  <1>4. CASE AckWaitOver
    BY <1>2, <1>4 DEF AckWaitOver
  <1>5. ASSUME NEW r \in Replicas, Deliver(r) PROVE OfStream'
    <2>1. slot'[r] = [seq |-> floor + 1, num |-> tries', stage |-> "received"]
          /\ \A q \in Replicas : q # r => slot'[q] = slot[q]
      BY <1>5 DEF Deliver, TypeOK
    <2>2. floor + 1 \in 1 .. stored /\ stored' = stored
      BY <1>1, <1>5 DEF Deliver
    <2> QED
      BY <2>1, <2>2 DEF OfStream
  <1>6. ASSUME NEW r \in Replicas, NEW s \in Stage, slot[r].stage # "idle",
               slot' = [slot EXCEPT ![r].stage = s], stored' = stored
        PROVE  OfStream'
    BY <1>2, <1>6, StageChange
  <1>7. ASSUME NEW r \in Replicas, slot' = [slot EXCEPT ![r] = Idle], stored' = stored
        PROVE  OfStream'
    BY <1>2, <1>7 DEF TypeOK
  <1>8. ASSUME NEW r \in Replicas, Run(r) \/ SkipHandler(r) \/ HandlerFails(r) \/ DeadLetter(r)
        PROVE  OfStream'
    BY <1>6, <1>8 DEF Run, MayRun, SkipHandler, HandlerFails, DeadLetter, Stage, broker
  <1>9. ASSUME NEW r \in Replicas, NEW inTime \in BOOLEAN, Commit(r, inTime) PROVE OfStream'
    <2> DEFINE s == IF inTime THEN "handled" ELSE "failed"
    <2>1. s \in Stage /\ slot' = [slot EXCEPT ![r].stage = s] /\ slot[r].stage # "idle" /\ stored' = stored
      BY <1>9 DEF Commit, Stage, broker
    <2> HIDE DEF s
    <2> QED
      BY <1>6, <2>1
  <1>10. ASSUME NEW r \in Replicas, NEW heard \in BOOLEAN,
                Retry(r, heard) \/ DeadLetterFails(r, heard) \/ Confirm(r, heard) \/ Stop(r)
         PROVE  OfStream'
    BY <1>7, <1>10 DEF Retry, DeadLetterFails, Refuse, Confirm, Stop, broker
  <1>11. CASE UNCHANGED vars
    BY <1>2, <1>11 DEF vars, broker
  <1> QED
    BY <1>3, <1>4, <1>5, <1>8, <1>9, <1>10, <1>11 DEF Next

\* How one step looks from outside.
LEMMA NextHop ==
  ASSUME TypeOK, TypeOK', SettledBeforeAck, OfStream, [Next]_vars
  PROVE  [Hop!Next]_(Hop!vars)
  <1> DEFINE Same == 1 .. stored' = 1 .. stored /\ Arrived' = Arrived /\ 1 .. floor' = 1 .. floor
  <1>1. Same => [Hop!Next]_(Hop!vars)
    BY DEF Hop!vars, Arrived
  <1>2. stored \in Nat /\ floor \in Nat /\ floor <= stored /\ applied \in Seq(Nat) /\ stored' <= MaxMessages
    BY DEF TypeOK
  <1>3. UNCHANGED <<stored, floor, applied, dead>> => Same
    BY DEF Arrived
  <1>a. ASSUME NEW m \in 1 .. stored, UNCHANGED <<stored, floor>>, Arrived' = Arrived \cup {m}
        PROVE  [Hop!Next]_(Hop!vars)
    <2>1. Hop!Arrive(m)
      BY <1>a DEF Hop!Arrive, Arrived
    <2>2. m \in 1 .. MaxMessages
      BY DEF TypeOK
    <2> QED
      BY <2>1, <2>2 DEF Hop!Next
  <1>4. ASSUME NEW r \in Replicas, slot[r].stage # "idle", UNCHANGED <<stored, floor>>,
               Arrived' = Arrived \cup {slot[r].seq}
        PROVE  [Hop!Next]_(Hop!vars)
    <2>1. slot[r].seq \in 1 .. stored
      BY <1>4 DEF OfStream
    <2> QED
      BY <1>4, <1>a, <2>1
  <1>5. CASE Publish
    <2>1. stored' = stored + 1 /\ floor' = floor /\ Arrived' = Arrived
      BY <1>5 DEF Publish, Arrived
    <2>2. stored + 1 \in 1 .. MaxMessages /\ stored + 1 \notin 1 .. stored
          /\ 1 .. stored + 1 = (1 .. stored) \cup {stored + 1}
      BY <1>2, <2>1
    <2>3. Hop!Accept(stored + 1)
      BY <2>1, <2>2 DEF Hop!Accept, Arrived
    <2> QED
      BY <2>2, <2>3 DEF Hop!Next
  <1>6. ASSUME NEW r \in Replicas, NEW inTime \in BOOLEAN, Commit(r, inTime)
        PROVE  [Hop!Next]_(Hop!vars)
    <2>1. applied' = Append(applied, slot[r].seq) /\ UNCHANGED <<stored, floor, dead>>
          /\ slot[r].stage # "idle"
      BY <1>6 DEF Commit, broker
    <2>2. slot[r].seq \in Nat
      BY DEF TypeOK, Slot
    <2>3. {applied'[i] : i \in DOMAIN applied'} = {applied[i] : i \in DOMAIN applied} \cup {slot[r].seq}
      <3>1. DOMAIN applied' = 1 .. Len(applied) + 1 /\ DOMAIN applied = 1 .. Len(applied)
            /\ Len(applied) \in Nat /\ applied'[Len(applied) + 1] = slot[r].seq
            /\ \A i \in 1 .. Len(applied) : applied'[i] = applied[i]
        BY <1>2, <2>1, <2>2
      <3> QED
        BY <3>1
    <2> QED
      BY <1>4, <2>1, <2>3 DEF Arrived
  <1>7. ASSUME NEW r \in Replicas, NEW heard \in BOOLEAN, DeadLetter(r) \/ DeadLetterFails(r, heard)
        PROVE  [Hop!Next]_(Hop!vars)
    <2>1. UNCHANGED <<stored, floor, applied>> /\ slot[r].stage # "idle"
          /\ (dead' = dead \/ dead' = dead \cup {slot[r].seq})
      BY <1>7 DEF DeadLetter, DeadLetterFails, Refuse, broker
    <2>2. CASE dead' = dead
      BY <1>1, <1>3, <2>1, <2>2
    <2>3. CASE dead' = dead \cup {slot[r].seq}
      BY <1>4, <2>1, <2>3 DEF Arrived
    <2> QED
      BY <2>1, <2>2, <2>3
  <1>8. ASSUME NEW r \in Replicas, NEW heard \in BOOLEAN, Confirm(r, heard)
        PROVE  [Hop!Next]_(Hop!vars)
    <2>1. CASE heard /\ IsPending(slot[r].seq)
      <3>1. floor' = floor + 1 /\ floor + 1 = slot[r].seq /\ UNCHANGED <<stored, applied, dead>>
            /\ slot[r].stage = "handled"
        BY <1>8, <2>1 DEF Confirm, Confirmable, IsPending
      <3>2. floor + 1 \in Arrived
        BY <3>1 DEF SettledBeforeAck, Handled, Arrived
      <3>3. floor + 1 \in 1 .. MaxMessages /\ floor + 1 \notin 1 .. floor
            /\ 1 .. floor + 1 = (1 .. floor) \cup {floor + 1}
        BY <1>2, <3>1 DEF OfStream, TypeOK
      <3>4. Hop!Settle(floor + 1)
        BY <3>1, <3>2, <3>3 DEF Hop!Settle, Arrived
      <3> QED
        BY <3>3, <3>4 DEF Hop!Next
    <2>2. CASE ~ (heard /\ IsPending(slot[r].seq))
      BY <1>1, <1>3, <1>8, <2>2 DEF Confirm
    <2> QED
      BY <2>1, <2>2
  <1>9. ASSUME NEW r \in Replicas, NEW heard \in BOOLEAN,
               Deliver(r) \/ Run(r) \/ SkipHandler(r) \/ HandlerFails(r) \/ Retry(r, heard) \/ Stop(r)
        PROVE  [Hop!Next]_(Hop!vars)
    BY <1>1, <1>3, <1>9 DEF Deliver, Run, SkipHandler, HandlerFails, Retry, Refuse, Stop, broker
  <1>10. CASE AckWaitOver
    BY <1>1, <1>3, <1>10 DEF AckWaitOver
  <1>11. CASE UNCHANGED vars
    BY <1>1, <1>3, <1>11 DEF vars, broker
  <1> QED
    BY <1>5, <1>6, <1>7, <1>8, <1>9, <1>10, <1>11 DEF Next

\* The bus is an at-least-once hop: every step of the broker, of a replica or
\* of time accepts, brings or settles one message as Delivery allows, or is not
\* seen outside (Publish, handleMessage, publishDeadLetter, DoubleAck).
THEOREM BusImplementsDelivery == Spec => ImplementsDelivery
  <1>1. Init => SettledBeforeAck /\ OfStream /\ Hop!Init
    <2>1. 1 .. 0 = {}
      OBVIOUS
    <2> QED
      BY <2>1 DEF Init, SettledBeforeAck, OfStream, Idle, Hop!Init
  <1>2. TypeOK /\ TypeOK' /\ SettledBeforeAck /\ OfStream /\ [Next]_vars => [Hop!Next]_(Hop!vars)
    BY NextHop
  <1> QED
    BY <1>1, <1>2, NextSettled, NextOfStream, TypeCorrect, PTL DEF Spec, ImplementsDelivery, Hop!Spec

================================================================================
