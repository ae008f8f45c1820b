-------------------------- MODULE JudgeOutboxProofs --------------------------
(***************************************************************************)
(* Proofs about JudgeOutbox, for any rows, publishers, attempts and batch  *)
(* size, whether or not the clocks agree.                                  *)
(***************************************************************************)
EXTENDS JudgeOutbox, TLAPS

USE MaxAttemptsAssumption, ClockAssumption

\* The memory of publisher p about row e after a claim of taken.
Fresh(p, e, taken) ==
    /\ batch'[p] = taken
    /\ answer'[p][e] = "unsent"
    /\ item'[p][e] = IF e \in taken THEN Attempt(e) ELSE 0

-----------------------------------------------------------------------------
(* Types *)

LEMMA InitTypeOK == Init => TypeOK
  <1> SUFFICES ASSUME Init PROVE TypeOK
    OBVIOUS
  <1>1. due \in [Events -> BOOLEAN]
    BY DEF Init
  <1>2. /\ status \in [Events -> Status] /\ retry \in [Events -> 0 .. MaxAttempts]
        /\ token \in [Events -> Nat] /\ lease \in [Events -> Lease]
    BY DEF Init, Status, Lease, NoToken
  <1>3. /\ nextToken \in Nat \ {0} /\ passToken \in [Publishers -> Nat]
        /\ batch \in [Publishers -> SUBSET Events] /\ stream = {}
    BY DEF Init, NoToken
  <1>4. /\ item \in [Publishers -> [Events -> 0 .. MaxAttempts]]
        /\ answer \in [Publishers -> [Events -> Answer]]
    BY DEF Init, Answer
  <1>5. QED
    BY <1>1, <1>2, <1>3, <1>4 DEF TypeOK

\* What leaving a row does to the memory of its publisher.
LEMMA LeaveEffect ==
  ASSUME TypeOK, NEW p \in Publishers, NEW e \in Events, Leave(p, e)
  PROVE  /\ batch' \in [Publishers -> SUBSET Events]
         /\ item' \in [Publishers -> [Events -> 0 .. MaxAttempts]]
         /\ answer' \in [Publishers -> [Events -> Answer]]
         /\ batch'[p] = batch[p] \ {e} /\ answer'[p][e] = "unsent"
         /\ \A q \in Publishers : q # p => batch'[q] = batch[q]
         /\ \A q \in Publishers, f \in Events :
                q # p \/ f # e => item'[q][f] = item[q][f] /\ answer'[q][f] = answer[q][f]
         /\ UNCHANGED <<nextToken, passToken, stream>>
  BY DEF TypeOK, Leave, Answer

\* What a claim does to the memory of its publisher.
LEMMA ClaimEffect ==
  ASSUME TypeOK, NEW p \in Publishers, NEW expired \in SUBSET Events, NEW taken \in SUBSET Events,
         Claim(p, expired, taken)
  PROVE  /\ batch' \in [Publishers -> SUBSET Events]
         /\ item' \in [Publishers -> [Events -> 0 .. MaxAttempts]]
         /\ answer' \in [Publishers -> [Events -> Answer]]
         /\ \A e \in Events : Fresh(p, e, taken)
         /\ \A q \in Publishers : q # p =>
                batch'[q] = batch[q] /\ item'[q] = item[q] /\ answer'[q] = answer[q]
  <1>1. \A e \in taken : Attempt(e) \in 0 .. MaxAttempts
    BY DEF TypeOK, Claim, Claimable, Attempt
  <1>2. [e \in Events |-> IF e \in taken THEN Attempt(e) ELSE 0] \in [Events -> 0 .. MaxAttempts]
    BY <1>1
  <1>3. item' \in [Publishers -> [Events -> 0 .. MaxAttempts]]
    BY <1>2 DEF TypeOK, Claim
  <1>4. batch' \in [Publishers -> SUBSET Events] /\ answer' \in [Publishers -> [Events -> Answer]]
    BY DEF TypeOK, Claim, Answer
  <1>5. QED
    BY <1>3, <1>4 DEF TypeOK, Claim, Fresh

LEMMA NextTypeOK == TypeOK /\ [Next]_vars => TypeOK'
  <1> SUFFICES ASSUME TypeOK, [Next]_vars PROVE TypeOK'
    OBVIOUS
  <1>1. ASSUME NEW e \in Events, Record(e) PROVE TypeOK'
    <2>1. due' \in [Events -> BOOLEAN]
      BY <1>1 DEF TypeOK, Record
    <2>2. QED
      BY <1>1, <2>1 DEF TypeOK, Record, publisher, Status
  <1>2. ASSUME NEW e \in Events, Expire(e) PROVE TypeOK'
    BY <1>2 DEF TypeOK, Expire, publisher, Lease
  <1>3. ASSUME NEW e \in Events, BecomeDue(e) PROVE TypeOK'
    <2>1. due' \in [Events -> BOOLEAN]
      BY <1>3 DEF TypeOK, BecomeDue
    <2>2. QED
      BY <1>3, <2>1 DEF TypeOK, BecomeDue, publisher
  <1>4. ASSUME NEW p \in Publishers, NEW expired \in Batches, NEW taken \in Batches,
               Claim(p, expired, taken)
        PROVE  TypeOK'
    <2>1. \A e \in taken : Attempt(e) \in 0 .. MaxAttempts
      BY <1>4 DEF TypeOK, Claim, Claimable, Attempt, Batches
    <2>2. retry' \in [Events -> 0 .. MaxAttempts]
      BY <1>4, <2>1 DEF TypeOK, Claim
    <2>3. status' \in [Events -> Status] /\ lease' \in [Events -> Lease]
      BY <1>4 DEF TypeOK, Claim, Status, Lease
    <2>4. token' \in [Events -> Nat] /\ nextToken' \in Nat \ {0} /\ passToken' \in [Publishers -> Nat]
      BY <1>4 DEF TypeOK, Claim, NoToken
    <2>5. /\ batch' \in [Publishers -> SUBSET Events]
          /\ item' \in [Publishers -> [Events -> 0 .. MaxAttempts]]
          /\ answer' \in [Publishers -> [Events -> Answer]]
      BY <1>4, ClaimEffect DEF Batches
    <2>6. due' = due /\ stream' = stream
      BY <1>4 DEF Claim
    <2>7. QED
      BY <2>2, <2>3, <2>4, <2>5, <2>6 DEF TypeOK
  <1>5. ASSUME NEW p \in Publishers, NEW e \in Events, NEW stored \in BOOLEAN, NEW heard \in BOOLEAN,
               Publish(p, e, stored, heard)
        PROVE  TypeOK'
    <2>1. item[p][e] \in 0 .. MaxAttempts
      BY DEF TypeOK
    <2>2. stream' \subseteq Events \X (0 .. MaxAttempts)
      BY <1>5, <2>1 DEF TypeOK, Publish
    <2>3. answer' \in [Publishers -> [Events -> Answer]]
      BY <1>5 DEF TypeOK, Publish, Answer
    <2>4. QED
      BY <1>5, <2>2, <2>3 DEF TypeOK, Publish, row
  <1>6. ASSUME NEW p \in Publishers, NEW e \in Events, Leave(p, e), UNCHANGED retry,
               status' \in [Events -> Status], token' \in [Events -> Nat],
               lease' \in [Events -> Lease], due' \in [Events -> BOOLEAN]
        PROVE  TypeOK'
    BY <1>6, LeaveEffect DEF TypeOK
  <1>7. ASSUME NEW p \in Publishers, NEW e \in Events, MarkPublished(p, e) PROVE TypeOK'
    <2>1. /\ status' \in [Events -> Status] /\ token' \in [Events -> Nat]
          /\ lease' \in [Events -> Lease]
      BY <1>7 DEF TypeOK, MarkPublished, Status, Lease, NoToken
    <2>2. due' \in [Events -> BOOLEAN] /\ retry' = retry /\ Leave(p, e)
      BY <1>7 DEF TypeOK, MarkPublished
    <2>3. QED
      BY <1>6, <2>1, <2>2
  <1>8. ASSUME NEW p \in Publishers, NEW e \in Events, MarkFailed(p, e) PROVE TypeOK'
    <2>1. /\ status' \in [Events -> Status] /\ token' \in [Events -> Nat]
          /\ lease' \in [Events -> Lease]
      BY <1>8 DEF TypeOK, MarkFailed, Status, Lease, NoToken
    <2>2. due' \in [Events -> BOOLEAN]
      BY <1>8 DEF TypeOK, MarkFailed
    <2>3. retry' = retry /\ Leave(p, e)
      BY <1>8 DEF MarkFailed
    <2>4. QED
      BY <1>6, <2>1, <2>2, <2>3
  <1>9. ASSUME NEW p \in Publishers, NEW e \in Events, NoMark(p, e) PROVE TypeOK'
    BY <1>6, <1>9 DEF TypeOK, NoMark, row
  <1>10. ASSUME NEW p \in Publishers, Crash(p) PROVE TypeOK'
    BY <1>10 DEF TypeOK, Crash, row, Answer
  <1>11. CASE UNCHANGED vars
    BY <1>11 DEF TypeOK, vars, row, publisher
  <1>12. QED
    BY <1>1, <1>2, <1>3, <1>4, <1>5, <1>7, <1>8, <1>9, <1>10, <1>11 DEF Next

\* Rows, publishers and stream keep their shapes, and no row is claimed more
\* than MaxAttempts times.
THEOREM TypeCorrect == Spec => []TypeOK
  BY InitTypeOK, NextTypeOK, PTL DEF Spec

-----------------------------------------------------------------------------
(* Leases, attempts and the stream *)

LEMMA NextLeaseShape == TypeOK /\ LeaseShape /\ [Next]_vars => LeaseShape'
  <1> SUFFICES ASSUME TypeOK, LeaseShape, [Next]_vars PROVE LeaseShape'
    OBVIOUS
  <1>1. ASSUME NEW e \in Events, Record(e) \/ Expire(e) \/ BecomeDue(e) PROVE LeaseShape'
    BY <1>1 DEF TypeOK, LeaseShape, Record, Expire, BecomeDue
  <1>2. ASSUME NEW p \in Publishers, NEW expired \in Batches, NEW taken \in Batches,
               Claim(p, expired, taken)
        PROVE  LeaseShape'
    BY <1>2 DEF TypeOK, LeaseShape, Claim, Batches, NoToken
  <1>3. ASSUME NEW p \in Publishers, NEW e \in Events, MarkPublished(p, e) \/ MarkFailed(p, e)
        PROVE  LeaseShape'
    BY <1>3 DEF TypeOK, LeaseShape, MarkPublished, MarkFailed
  <1>4. CASE UNCHANGED row
    BY <1>4 DEF LeaseShape, row
  <1>5. QED
    BY <1>1, <1>2, <1>3, <1>4 DEF Next, Publish, NoMark, Crash, vars

LEMMA NextAttemptsUnique ==
  ASSUME TypeOK, AttemptsUnique, [Next]_vars
  PROVE  AttemptsUnique'
  <1>1. CASE UNCHANGED <<retry, publisher, stream>>
    BY <1>1 DEF AttemptsUnique, publisher
  <1>2. ASSUME NEW p \in Publishers, NEW expired \in Batches, NEW taken \in Batches,
               Claim(p, expired, taken)
        PROVE  AttemptsUnique'
    <2>1. /\ \A e \in Events : Fresh(p, e, taken)
          /\ \A q \in Publishers : q # p =>
                batch'[q] = batch[q] /\ item'[q] = item[q] /\ answer'[q] = answer[q]
          /\ \A q \in Publishers : batch[q] \subseteq Events /\ batch'[q] \subseteq Events
      BY <1>2, ClaimEffect DEF Batches, TypeOK
    <2>2. \A e \in Events : retry'[e] = IF e \in taken THEN Attempt(e) ELSE retry[e]
      BY <1>2 DEF TypeOK, Claim
    <2>3. stream' = stream /\ taken \subseteq Events
      BY <1>2 DEF Claim, Batches
    <2>4. \A e \in taken : retry[e] \in Nat /\ Attempt(e) = retry[e] + 1
      BY <2>3 DEF TypeOK, Attempt
    <2>5. \A e \in Events : retry[e] \in Nat /\ retry'[e] \in Nat /\ retry[e] <= retry'[e]
      BY <2>2, <2>4 DEF TypeOK
    <2>6. \A q \in Publishers : \A e \in batch'[q] :
            /\ item'[q][e] \in 1 .. retry'[e]
            /\ answer'[q][e] = "unsent" => <<e, item'[q][e]>> \notin stream
            /\ answer'[q][e] = "acked" => <<e, item'[q][e]>> \in stream
      <3>1. ASSUME NEW e \in taken
            PROVE  item'[p][e] \in 1 .. retry'[e] /\ <<e, item'[p][e]>> \notin stream
        BY <2>1, <2>2, <2>3, <2>4 DEF Fresh, AttemptsUnique
      <3>2. ASSUME NEW q \in Publishers, q # p, NEW e \in batch[q]
            PROVE  item[q][e] \in 1 .. retry'[e]
        <4>1. e \in Events /\ item[q][e] \in 1 .. retry[e]
          BY <2>1, <3>2 DEF AttemptsUnique
        <4>2. QED
          BY <2>5, <4>1
      <3>3. ASSUME NEW q \in Publishers, NEW e \in batch'[q]
            PROVE  /\ item'[q][e] \in 1 .. retry'[e]
                   /\ answer'[q][e] = "unsent" => <<e, item'[q][e]>> \notin stream
                   /\ answer'[q][e] = "acked" => <<e, item'[q][e]>> \in stream
        <4>1. CASE q = p
          BY <2>1, <2>3, <3>1, <3>3, <4>1 DEF Fresh
        <4>2. CASE q # p
          BY <2>1, <3>2, <3>3, <4>2 DEF AttemptsUnique
        <4>3. QED
          BY <4>1, <4>2
      <3>4. QED
        BY <3>3
    <2>7. ASSUME NEW q \in Publishers, NEW o \in Publishers, NEW e \in batch'[q], e \in batch'[o],
                 item'[q][e] = item'[o][e]
          PROVE  q = o
      <3>1. e \in Events
        BY <2>1, <2>7
      <3>2. ASSUME NEW r \in Publishers, r # p, e \in batch'[r] PROVE item'[r][e] <= retry[e]
        <4>1. e \in batch[r] /\ item'[r][e] = item[r][e]
          BY <2>1, <3>2
        <4>2. item[r][e] \in 1 .. retry[e]
          BY <4>1 DEF AttemptsUnique
        <4>3. QED
          BY <2>5, <3>1, <4>1, <4>2
      <3>3. e \in batch'[p] => item'[p][e] = retry[e] + 1
        BY <2>1, <2>4, <3>1 DEF Fresh
      <3>4. CASE q = p \/ o = p
        BY <2>5, <2>7, <3>1, <3>2, <3>3, <3>4
      <3>5. CASE q # p /\ o # p
        BY <2>1, <2>7, <3>5 DEF AttemptsUnique
      <3>6. QED
        BY <3>4, <3>5
    <2>8. \A s \in stream' : s[2] <= retry'[s[1]]
      BY <2>3, <2>5 DEF TypeOK, AttemptsUnique
    <2>9. \A q \in Publishers, e \in Events : e \notin batch'[q] => answer'[q][e] = "unsent"
      BY <2>1 DEF Fresh, AttemptsUnique
    <2>10. QED
      BY <2>3, <2>6, <2>7, <2>8, <2>9 DEF AttemptsUnique
  <1>3. ASSUME NEW p \in Publishers, NEW e \in Events, NEW stored \in BOOLEAN, NEW heard \in BOOLEAN,
               Publish(p, e, stored, heard)
        PROVE  AttemptsUnique'
    <2>1. /\ answer'[p][e] \in {"acked", "error"}
          /\ answer'[p][e] = "acked" => <<e, item[p][e]>> \in stream'
          /\ \A q \in Publishers, f \in Events : q # p \/ f # e => answer'[q][f] = answer[q][f]
      BY <1>3 DEF TypeOK, Publish
    <2>2. UNCHANGED <<retry, batch, item>> /\ e \in batch[p]
      BY <1>3 DEF Publish, row
    <2>3. stream \subseteq stream' /\ \A s \in stream' : s \in stream \/ s = <<e, item[p][e]>>
      BY <1>3 DEF Publish
    <2>4. \A q \in Publishers : \A f \in batch[q] :
            /\ answer'[q][f] = "unsent" => <<f, item[q][f]>> \notin stream'
            /\ answer'[q][f] = "acked" => <<f, item[q][f]>> \in stream'
      <3>1. ASSUME NEW q \in Publishers, NEW f \in batch[q], <<f, item[q][f]>> = <<e, item[p][e]>>
            PROVE  q = p /\ f = e
        BY <2>2, <3>1 DEF AttemptsUnique
      <3>2. \A q \in Publishers : batch[q] \subseteq Events
        BY DEF TypeOK
      <3>3. QED
        BY <2>1, <2>2, <2>3, <3>1, <3>2 DEF AttemptsUnique
    <2>5. \A s \in stream' : s[2] <= retry[s[1]]
      BY <2>2, <2>3 DEF TypeOK, AttemptsUnique
    <2>6. QED
      BY <2>1, <2>2, <2>4, <2>5 DEF TypeOK, AttemptsUnique
  <1>4. ASSUME NEW p \in Publishers, NEW e \in Events, Leave(p, e), UNCHANGED retry
        PROVE  AttemptsUnique'
    <2>1. /\ batch'[p] = batch[p] \ {e} /\ answer'[p][e] = "unsent" /\ stream' = stream
          /\ \A q \in Publishers : q # p => batch'[q] = batch[q]
          /\ \A q \in Publishers, f \in Events :
                q # p \/ f # e => item'[q][f] = item[q][f] /\ answer'[q][f] = answer[q][f]
      BY <1>4, LeaveEffect
    <2>2. \A q \in Publishers : \A f \in batch'[q] :
            f \in batch[q] /\ item'[q][f] = item[q][f] /\ answer'[q][f] = answer[q][f]
      BY <2>1 DEF TypeOK
    <2>3. \A q \in Publishers, f \in Events : f \notin batch'[q] => answer'[q][f] = "unsent"
      BY <2>1 DEF AttemptsUnique
    <2>4. QED
      BY <1>4, <2>1, <2>2, <2>3 DEF AttemptsUnique
  <1>5. ASSUME NEW p \in Publishers, Crash(p) PROVE AttemptsUnique'
    <2>1. /\ batch'[p] = {} /\ \A e \in Events : answer'[p][e] = "unsent"
          /\ \A q \in Publishers : q # p =>
                batch'[q] = batch[q] /\ item'[q] = item[q] /\ answer'[q] = answer[q]
          /\ retry' = retry /\ stream' = stream
      BY <1>5 DEF TypeOK, Crash, row
    <2>2. QED
      BY <2>1 DEF AttemptsUnique
  <1>6. QED
    BY <1>1, <1>2, <1>3, <1>4, <1>5
    DEF Next, Record, Expire, BecomeDue, MarkPublished, MarkFailed, NoMark, row, vars

LEMMA InitInvariant == Init => LeaseShape /\ AttemptsUnique /\ PublishedIsStored
  BY DEF Init, LeaseShape, AttemptsUnique, PublishedIsStored, NoToken

\* Once a publisher has claimed a row, only its own marks publish it.
LEMMA NextPublishedIsStored ==
  ASSUME TypeOK, AttemptsUnique, PublishedIsStored, [Next]_vars
  PROVE  PublishedIsStored'
  <1>1. stream \subseteq stream'
    BY DEF Next, Record, Expire, BecomeDue, Claim, Publish, Leave, MarkPublished, MarkFailed, NoMark,
           Crash, vars
  <1>2. ASSUME NEW e \in Events, Stored(e) PROVE Stored(e)'
    BY <1>1, <1>2 DEF Stored
  <1>3. ASSUME NEW p \in Publishers, NEW e \in Events, MarkPublished(p, e) PROVE PublishedIsStored'
    <2>1. Stored(e)
      BY <1>3 DEF TypeOK, AttemptsUnique, Stored, MarkPublished, Leave, Delivered
    <2>2. \A f \in Events : f # e => status'[f] = status[f]
      BY <1>3 DEF TypeOK, MarkPublished
    <2>3. QED
      BY <1>2, <2>1, <2>2 DEF PublishedIsStored
  <1>4. \/ \E p \in Publishers, e \in Events : MarkPublished(p, e)
        \/ \A e \in Events : status'[e] = "published" => status[e] = "published"
    BY DEF TypeOK, Next, Record, Expire, BecomeDue, Claim, Publish, MarkFailed, NoMark,
           Crash, row, vars
  <1>5. QED
    BY <1>2, <1>3, <1>4 DEF PublishedIsStored

LEMMA InvariantHolds == Spec => [](TypeOK /\ LeaseShape /\ AttemptsUnique /\ PublishedIsStored)
  BY InitTypeOK, InitInvariant, NextTypeOK, NextLeaseShape, NextAttemptsUnique,
     NextPublishedIsStored, PTL DEF Spec

\* A row marked published is in the stream.
THEOREM PublishedRowsStored == Spec => []PublishedIsStored
  BY InvariantHolds, PTL

\* A published row stays published.
THEOREM PublishedRowsFinal == Spec => PublishedIsFinal
  <1>1. ASSUME TypeOK, [Next]_vars, NEW e \in Events, status[e] = "published"
        PROVE  status'[e] = "published"
    <2>1. ASSUME NEW f \in Events, Record(f) PROVE status'[e] = "published"
      BY <1>1, <2>1 DEF TypeOK, Record
    <2>2. ASSUME NEW p \in Publishers, NEW expired \in Batches, NEW taken \in Batches,
                 Claim(p, expired, taken)
          PROVE  status'[e] = "published"
      BY <1>1, <2>2 DEF TypeOK, Claim, Claimable, Stale
    <2>3. ASSUME NEW p \in Publishers, NEW f \in Events, MarkPublished(p, f) \/ MarkFailed(p, f)
          PROVE  status'[e] = "published"
      BY <1>1, <2>3 DEF TypeOK, MarkPublished, MarkFailed, Holds
    <2>4. CASE UNCHANGED status
      BY <1>1, <2>4
    <2>5. QED
      BY <1>1, <2>1, <2>2, <2>3, <2>4
      DEF Next, Expire, BecomeDue, Publish, NoMark, Crash, row, vars
  <1>2. TypeOK /\ [Next]_vars =>
            [\A e \in Events : status[e] = "published" => status'[e] = "published"]_vars
    BY <1>1
  <1>3. QED
    BY <1>2, TypeCorrect, PTL DEF Spec, PublishedIsFinal

\* No attempt sends its event twice.
THEOREM CopiesLimited == Spec => OneCopyPerAttempt
  <1>1. ASSUME TypeOK, AttemptsUnique, [Next]_vars, NEW p \in Publishers, NEW e \in Events,
               answer[p][e] = "unsent", answer'[p][e] # "unsent"
        PROVE  <<e, item[p][e]>> \notin stream
    <2>1. ASSUME NEW q \in Publishers, NEW expired \in Batches, NEW taken \in Batches,
                 Claim(q, expired, taken)
          PROVE  FALSE
      <3>1. answer' = [answer EXCEPT ![q] = [f \in Events |-> "unsent"]]
        BY <2>1 DEF Claim
      <3>2. QED
        BY <1>1, <3>1 DEF TypeOK
    <2>2. ASSUME NEW q \in Publishers, NEW f \in Events, Leave(q, f) PROVE FALSE
      BY <1>1, <2>2, LeaveEffect
    <2>3. ASSUME NEW q \in Publishers, Crash(q) PROVE FALSE
      BY <1>1, <2>3 DEF TypeOK, Crash
    <2>4. ASSUME NEW q \in Publishers, NEW f \in Events, NEW stored \in BOOLEAN, NEW heard \in BOOLEAN,
                 Publish(q, f, stored, heard)
          PROVE  e \in batch[p]
      BY <1>1, <2>4 DEF TypeOK, Publish
    <2>5. CASE UNCHANGED answer
      BY <1>1, <2>5
    <2>6. e \in batch[p]
      BY <1>1, <2>1, <2>2, <2>3, <2>4, <2>5
      DEF Next, Record, Expire, BecomeDue, MarkPublished, MarkFailed, NoMark, publisher, vars
    <2>7. QED
      BY <1>1, <2>6 DEF AttemptsUnique
  <1>2. TypeOK /\ AttemptsUnique /\ [Next]_vars =>
            [\A p \in Publishers, e \in Events :
                answer[p][e] = "unsent" /\ answer'[p][e] # "unsent"
                    => <<e, item[p][e]>> \notin stream]_vars
    BY <1>1
  <1>3. QED
    BY <1>2, InvariantHolds, PTL DEF Spec, OneCopyPerAttempt

-----------------------------------------------------------------------------
(* The hop of the outbox *)

LEMMA NextRecorded == TypeOK /\ Recorded /\ [Next]_vars => Recorded'
  <1> SUFFICES ASSUME TypeOK, Recorded, [Next]_vars PROVE Recorded'
    OBVIOUS
  <1>1. ASSUME retry' = retry, \A e \in Events : status'[e] = "absent" => status[e] = "absent"
        PROVE  Recorded'
    BY <1>1 DEF Recorded
  <1>2. ASSUME NEW e \in Events, Record(e) \/ Expire(e) \/ BecomeDue(e) PROVE Recorded'
    BY <1>1, <1>2 DEF TypeOK, Record, Expire, BecomeDue
  <1>3. ASSUME NEW p \in Publishers, NEW expired \in Batches, NEW taken \in Batches,
               Claim(p, expired, taken)
        PROVE  Recorded'
    BY <1>3 DEF TypeOK, Recorded, Claim, Batches
  <1>4. ASSUME NEW p \in Publishers, NEW e \in Events, MarkPublished(p, e) \/ MarkFailed(p, e)
        PROVE  Recorded'
    BY <1>1, <1>4 DEF TypeOK, MarkPublished, MarkFailed
  <1>5. CASE UNCHANGED row
    BY <1>1, <1>5 DEF row
  <1> QED
    BY <1>2, <1>3, <1>4, <1>5 DEF Next, Publish, NoMark, Crash, vars

\* How one step looks from outside.
LEMMA NextHop ==
  ASSUME TypeOK, AttemptsUnique, Recorded, [Next]_vars
  PROVE  [Hop!Next]_(Hop!vars)
  <1> DEFINE accepted == {e \in Events : status[e] # "absent"}
             arrived == {e \in Events : Stored(e)}
             settled == {e \in Events : status[e] = "published"}
  <1>1. ASSUME \A e \in Events : /\ status'[e] = "absent" <=> status[e] = "absent"
                                 /\ status'[e] = "published" <=> status[e] = "published",
               stream' = stream
        PROVE  [Hop!Next]_(Hop!vars)
    <2>1. accepted' = accepted /\ settled' = settled
      BY <1>1
    <2>2. arrived' = arrived
      BY <1>1 DEF Stored
    <2> QED
      BY <2>1, <2>2 DEF Hop!vars
  <1>2. ASSUME NEW e \in Events, Record(e) PROVE [Hop!Next]_(Hop!vars)
    <2>1. /\ status[e] = "absent" /\ status'[e] = "pending" /\ stream' = stream
          /\ \A f \in Events : f # e => status'[f] = status[f]
      BY <1>2 DEF TypeOK, Record
    <2>2. accepted' = accepted \cup {e} /\ e \notin accepted /\ settled' = settled
      BY <2>1
    <2>3. arrived' = arrived
      BY <2>1 DEF Stored
    <2>4. Hop!Accept(e)
      BY <2>2, <2>3 DEF Hop!Accept
    <2> QED
      BY <2>4 DEF Hop!Next
  <1>3. ASSUME NEW e \in Events, Expire(e) \/ BecomeDue(e) PROVE [Hop!Next]_(Hop!vars)
    BY <1>1, <1>3 DEF Expire, BecomeDue
  <1>4. ASSUME NEW p \in Publishers, NEW expired \in Batches, NEW taken \in Batches,
               Claim(p, expired, taken)
        PROVE  [Hop!Next]_(Hop!vars)
    <2>1. /\ \A e \in expired : status[e] = "leased"
          /\ \A e \in taken : status[e] \in {"pending", "failed", "leased"}
          /\ \A e \in Events : status'[e] = IF e \in expired THEN "failed"
                                            ELSE IF e \in taken THEN "leased" ELSE status[e]
          /\ stream' = stream
      BY <1>4 DEF Claim, Claimable, Stale
    <2> QED
      BY <1>1, <2>1
  <1>5. ASSUME NEW p \in Publishers, NEW e \in Events, NEW stored \in BOOLEAN, NEW heard \in BOOLEAN,
               Publish(p, e, stored, heard)
        PROVE  [Hop!Next]_(Hop!vars)
    <2>1. status' = status /\ stream' = (IF stored THEN stream \cup {<<e, item[p][e]>>} ELSE stream)
          /\ e \in batch[p]
      BY <1>5 DEF Publish, row
    <2>2. CASE ~ stored
      BY <1>1, <2>1, <2>2
    <2>3. CASE stored
      <3>1. e \in accepted
        <4>1. item[p][e] \in 1 .. retry[e] /\ retry[e] \in Nat
          <5>1. item[p][e] \in 1 .. retry[e]
            BY <2>1 DEF AttemptsUnique
          <5>2. retry[e] \in Nat
            BY DEF TypeOK
          <5> QED
            BY <5>1, <5>2
        <4>2. retry[e] # 0
          BY <4>1
        <4> QED
          BY <4>2 DEF Recorded
      <3>2. item[p][e] \in 0 .. MaxAttempts
        BY DEF TypeOK
      <3>3. \A f \in Events : Stored(f)' <=> Stored(f) \/ f = e
        BY <2>1, <2>3, <3>2 DEF Stored
      <3>4. arrived' = arrived \cup {e} /\ accepted' = accepted /\ settled' = settled
        BY <2>1, <3>3
      <3>5. Hop!Arrive(e)
        BY <3>1, <3>4 DEF Hop!Arrive
      <3> QED
        BY <3>5 DEF Hop!Next
    <2> QED
      BY <2>2, <2>3
  <1>6. ASSUME NEW p \in Publishers, NEW e \in Events, MarkPublished(p, e) PROVE [Hop!Next]_(Hop!vars)
    <2>1. /\ status[e] = "leased" /\ status'[e] = "published" /\ stream' = stream
          /\ \A f \in Events : f # e => status'[f] = status[f]
      BY <1>6 DEF TypeOK, MarkPublished, Holds, Leave
    <2>2. Stored(e)
      BY <1>6 DEF TypeOK, AttemptsUnique, Stored, MarkPublished, Leave, Delivered
    <2>3. settled' = settled \cup {e} /\ e \notin settled /\ accepted' = accepted
      BY <2>1
    <2>4. arrived' = arrived /\ e \in arrived
      BY <2>1, <2>2 DEF Stored
    <2>5. Hop!Settle(e)
      BY <2>3, <2>4 DEF Hop!Settle
    <2> QED
      BY <2>5 DEF Hop!Next
  <1>7. ASSUME NEW p \in Publishers, NEW e \in Events, MarkFailed(p, e) PROVE [Hop!Next]_(Hop!vars)
    <2>1. /\ status[e] = "leased" /\ status'[e] = "failed" /\ stream' = stream
          /\ \A f \in Events : f # e => status'[f] = status[f]
      BY <1>7 DEF TypeOK, MarkFailed, Holds, Leave
    <2> QED
      BY <1>1, <2>1
  <1>8. ASSUME NEW p \in Publishers, NEW e \in Events, NoMark(p, e) PROVE [Hop!Next]_(Hop!vars)
    BY <1>1, <1>8 DEF NoMark, Leave, row
  <1>9. ASSUME NEW p \in Publishers, Crash(p) PROVE [Hop!Next]_(Hop!vars)
    BY <1>1, <1>9 DEF Crash, row
  <1>10. CASE UNCHANGED vars
    BY <1>1, <1>10 DEF vars, row
  <1> QED
    BY <1>2, <1>3, <1>4, <1>5, <1>6, <1>7, <1>8, <1>9, <1>10 DEF Next

\* The outbox is an at-least-once hop: every step of a settling transaction, of
\* a publisher or of time accepts, brings or settles one row as Delivery allows,
\* or is not seen outside (CreateOutbox, publishPendingOutbox, markOutboxPublished,
\* recordOutboxPublishFailure).
THEOREM OutboxImplementsDelivery == Spec => ImplementsDelivery
  <1>1. Init => Recorded /\ Hop!Init
    BY DEF Init, Recorded, Hop!Init, Stored
  <1>2. TypeOK /\ AttemptsUnique /\ Recorded /\ [Next]_vars => [Hop!Next]_(Hop!vars)
    BY NextHop
  <1> QED
    BY <1>1, <1>2, NextRecorded, InvariantHolds, PTL DEF Spec, ImplementsDelivery, Hop!Spec

================================================================================
