------------------------------ MODULE Delivery ------------------------------
(***************************************************************************)
(* What each hop of an event promises, from the transaction that records   *)
(* it to the handler of its consumer: at least once.  The sender accepts   *)
(* an item for good, copies of it arrive while the sender likes, also      *)
(* after it counts the item as delivered, and it counts as delivered for   *)
(* good only what has arrived.  Leases, retries, lost answers and dead     *)
(* letters are left to the hops: JudgeOutbox and EventBus.                 *)
(***************************************************************************)

CONSTANT Items

VARIABLES
    accepted,   \* the items the sender has taken over
    arrived,    \* those of which the receiver has a copy
    settled     \* those the sender counts as delivered

vars == <<accepted, arrived, settled>>

Init == accepted = {} /\ arrived = {} /\ settled = {}

Accept(i) ==
    /\ i \notin accepted
    /\ accepted' = accepted \cup {i}
    /\ UNCHANGED <<arrived, settled>>

Arrive(i) ==
    /\ i \in accepted
    /\ arrived' = arrived \cup {i}
    /\ UNCHANGED <<accepted, settled>>

Settle(i) ==
    /\ i \in arrived \ settled
    /\ settled' = settled \cup {i}
    /\ UNCHANGED <<accepted, arrived>>

Next == \E i \in Items : Accept(i) \/ Arrive(i) \/ Settle(i)

Spec == Init /\ [][Next]_vars
=============================================================================
