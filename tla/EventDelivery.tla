--------------------------- MODULE EventDelivery ---------------------------
(***************************************************************************)
(* What the transactional outbox promises to the services that write and   *)
(* to the services that consume domain events (ADR 003): an event becomes  *)
(* known when its domain transaction commits, a known event is delivered   *)
(* to JetStream at least once or parked in the dead-letter table until an  *)
(* operator replays it, and nothing is ever delivered that was not         *)
(* committed.  A delivered event stays delivered.                          *)
(***************************************************************************)

CONSTANT Events

VARIABLE status   \* [Events -> {"none", "pending", "parked", "delivered"}]

Init == status = [e \in Events |-> "none"]

\* The domain transaction that wrote e commits.
Commit(e) ==
    /\ status[e] = "none"
    /\ status' = [status EXCEPT ![e] = "pending"]

\* JetStream stores e for the first time.
Deliver(e) ==
    /\ status[e] = "pending"
    /\ status' = [status EXCEPT ![e] = "delivered"]

\* The events of S are parked together: a relay batch is one transaction.
Park(S) ==
    /\ S # {}
    /\ \A e \in S : status[e] = "pending"
    /\ status' = [e \in Events |-> IF e \in S THEN "parked" ELSE status[e]]

\* An operator replays a parked event.
Replay(e) ==
    /\ status[e] = "parked"
    /\ status' = [status EXCEPT ![e] = "pending"]

Next ==
    \/ \E e \in Events : Commit(e) \/ Deliver(e) \/ Replay(e)
    \/ \E S \in SUBSET Events : Park(S)

Spec == Init /\ [][Next]_status

=============================================================================
