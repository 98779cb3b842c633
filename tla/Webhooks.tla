------------------------------ MODULE Webhooks ------------------------------
(***************************************************************************)
(* Outbound webhooks: integration-service consumes domain events from      *)
(* JetStream, inserts one delivery for each active subscribed endpoint,    *)
(* and dispatchers (the poll loop and /internal dispatch of every replica) *)
(* claim due deliveries, POST them and write the result; core's governance *)
(* API creates, rotates and disables endpoints and replays deliveries.     *)
(*                                                                         *)
(* A claim commits before the POST, so nothing but the lease of a          *)
(* `delivering` row keeps two dispatchers apart, and results are written   *)
(* with the endpoint's failure_count as it was read by the claim.          *)
(*                                                                         *)
(* Time is abstracted to due[d]: next_retry_at has passed (pending,        *)
(* failed), or the lease on updated_at is over (delivering).               *)
(***************************************************************************)
EXTENDS Naturals, FiniteSets, TLC

CONSTANTS
    Endpoints,     \* webhook_endpoint rows of an organization
    Events,        \* event_id of the consumed envelopes
    Subscribed,    \* pairs of an endpoint and an event its event_types match
    Dispatchers,   \* concurrent callers of dispatch_once
    Limit,         \* claim LIMIT
    MaxAttempts,   \* MAX_ATTEMPTS
    PauseFailures, \* AUTO_PAUSE_FAILURES
    MaxFaults,     \* bound on crashes, failed transactions and lost acks
    MaxAdmin       \* bound on rotations, disables and replays

ASSUME WebhooksAssumption ==
    /\ Subscribed \subseteq Endpoints \X Events
    /\ IsFiniteSet(Dispatchers)
    /\ Limit \in Nat \ {0}
    /\ MaxAttempts \in Nat \ {0}
    /\ PauseFailures \in Nat \ {0}
    /\ MaxFaults \in Nat
    /\ MaxAdmin \in Nat

VARIABLES
    msg,         \* JetStream consumer state of each event
    ep,          \* webhook_endpoint.status
    failures,    \* webhook_endpoint.failure_count
    row,         \* webhook_delivery.status
    attempt,     \* webhook_delivery.attempt
    due,         \* the row's timer is over
    created_at,  \* webhook_delivery.created_at
    clock,       \* source of created_at
    batch,       \* each dispatcher's claimed deliveries, with the values read by
                 \* the claim and the outcome that is still to be written
    posts,       \* history: POSTs sent for a delivery
    expiries,    \* history: leases of a delivery that ran out
    faults,
    admin

vars == <<msg, ep, failures, row, attempt, due, created_at, clock, batch,
          posts, expiries, faults, admin>>

table == <<row, attempt, due, created_at, clock>>
history == <<posts, expiries>>

Deliveries == Endpoints \X Events

Claimed == [d : Deliveries, attempt : Nat, failures : Nat,
            result : {"none", "ok", "fail", "ssrf"}]

TypeOK ==
    /\ msg \in [Events -> {"none", "queued", "acked"}]
    /\ ep \in [Endpoints -> {"absent", "active", "paused", "disabled"}]
    /\ failures \in [Endpoints -> 0..PauseFailures]
    /\ row \in [Deliveries ->
                  {"none", "pending", "delivering", "delivered", "failed", "dead"}]
    /\ attempt \in [Deliveries -> 0..(MaxAttempts + MaxAdmin)]
    /\ due \in [Deliveries -> BOOLEAN]
    /\ created_at \in [Deliveries -> Nat]
    /\ clock \in Nat
    /\ batch \in [Dispatchers -> SUBSET Claimed]
    /\ posts \in [Deliveries -> Nat]
    /\ expiries \in [Deliveries -> Nat]
    /\ faults \in 0..MaxFaults
    /\ admin \in 0..MaxAdmin

Init ==
    /\ msg = [v \in Events |-> "none"]
    /\ ep = [e \in Endpoints |-> "absent"]
    /\ failures = [e \in Endpoints |-> 0]
    /\ row = [d \in Deliveries |-> "none"]
    /\ attempt = [d \in Deliveries |-> 0]
    /\ due = [d \in Deliveries |-> FALSE]
    /\ created_at = [d \in Deliveries |-> 0]
    /\ clock = 1
    /\ batch = [w \in Dispatchers |-> {}]
    /\ posts = [d \in Deliveries |-> 0]
    /\ expiries = [d \in Deliveries |-> 0]
    /\ faults = 0
    /\ admin = 0

-----------------------------------------------------------------------------
(* JetStream consumer *)

\* The outbox relay publishes an event (external to the service).
Publish(v) ==
    /\ msg[v] = "none"
    /\ msg' = [msg EXCEPT ![v] = "queued"]
    /\ UNCHANGED <<ep, failures, table, batch, history, faults, admin>>

\* Endpoints of enqueue_event_tx: active, and subscribed to the event.
Matching(v) == {e \in Endpoints : ep[e] = "active" /\ <<e, v>> \in Subscribed}

\* Mutant: ON CONFLICT DO UPDATE, a redelivered event resets its deliveries.
EnqueueEventResets(v, acked) ==
    LET new == {<<e, v>> : e \in Matching(v)} IN
    /\ msg[v] = "queued"
    /\ acked \/ faults < MaxFaults
    /\ faults' = IF acked THEN faults ELSE faults + 1
    /\ msg' = IF acked THEN [msg EXCEPT ![v] = "acked"] ELSE msg
    /\ row' = [d \in Deliveries |-> IF d \in new THEN "pending" ELSE row[d]]
    /\ attempt' = [d \in Deliveries |-> IF d \in new THEN 0 ELSE attempt[d]]
    /\ due' = [d \in Deliveries |-> IF d \in new THEN TRUE ELSE due[d]]
    /\ created_at' = [d \in Deliveries |-> IF d \in new THEN clock ELSE created_at[d]]
    /\ clock' = clock + 1
    /\ UNCHANGED <<ep, failures, batch, history, admin>>

\* enqueue_event inserts the missing deliveries (ON CONFLICT DO NOTHING), and
\* the message is acknowledged unless the ack is lost: then it comes again.
EnqueueEvent(v, acked) ==
    LET new == {d \in {<<e, v>> : e \in Matching(v)} : row[d] = "none"} IN
    /\ msg[v] = "queued"
    /\ acked \/ faults < MaxFaults
    /\ faults' = IF acked THEN faults ELSE faults + 1
    /\ msg' = IF acked THEN [msg EXCEPT ![v] = "acked"] ELSE msg
    /\ row' = [d \in Deliveries |-> IF d \in new THEN "pending" ELSE row[d]]
    /\ due' = [d \in Deliveries |-> IF d \in new THEN TRUE ELSE due[d]]
    /\ created_at' = [d \in Deliveries |-> IF d \in new THEN clock ELSE created_at[d]]
    /\ clock' = IF new = {} THEN clock ELSE clock + 1
    /\ UNCHANGED <<ep, failures, attempt, batch, history, admin>>

-----------------------------------------------------------------------------
(* Dispatchers: dispatch_once *)

\* Mutant: a delivering row is never claimed again.
ClaimableNoLease(d) ==
    /\ row[d] \in {"pending", "failed"}
    /\ due[d]
    /\ ep[d[1]] = "active"
    /\ attempt[d] < MaxAttempts

\* Mutant: a delivering row is claimed again before its lease is over.
ClaimableInLease(d) ==
    /\ row[d] \in {"pending", "failed", "delivering"}
    /\ due[d] \/ row[d] = "delivering"
    /\ ep[d[1]] = "active"
    /\ attempt[d] < MaxAttempts

\* The WHERE clause of the claim: due pending and failed rows, delivering rows
\* whose lease is over; endpoint active; attempt below MAX_ATTEMPTS.
Claimable(d) ==
    /\ row[d] \in {"pending", "failed", "delivering"}
    /\ due[d]
    /\ ep[d[1]] = "active"
    /\ attempt[d] < MaxAttempts

\* S is what ORDER BY created_at LIMIT Limit may return of T.
OldestOf(S, T) ==
    /\ Cardinality(S) = IF Cardinality(T) < Limit THEN Cardinality(T) ELSE Limit
    /\ \A d \in S, f \in T \ S : created_at[d] <= created_at[f]

\* A reclaimed delivering row keeps the attempt it was counted for.
NextAttempt(d) == IF row[d] = "delivering" THEN attempt[d] ELSE attempt[d] + 1

\* The claim transaction: FOR UPDATE SKIP LOCKED makes claims atomic.
Claim(w) ==
    /\ batch[w] = {}
    /\ \E S \in SUBSET {d \in Deliveries : Claimable(d)} :
          /\ S # {}
          /\ OldestOf(S, {d \in Deliveries : Claimable(d)})
          /\ row' = [d \in Deliveries |-> IF d \in S THEN "delivering" ELSE row[d]]
          /\ attempt' = [d \in Deliveries |->
                            IF d \in S THEN NextAttempt(d) ELSE attempt[d]]
          /\ due' = [d \in Deliveries |-> IF d \in S THEN FALSE ELSE due[d]]
          /\ batch' = [batch EXCEPT ![w] =
                          {[d |-> d, attempt |-> NextAttempt(d),
                            failures |-> failures[d[1]], result |-> "none"] : d \in S}]
    /\ UNCHANGED <<msg, ep, failures, created_at, clock, history,
                   faults, admin>>

\* The delivery that `for delivery in claimed` is at.
Current(w, c) ==
    /\ c \in batch[w]
    /\ \A b \in batch[w] : created_at[c.d] <= created_at[b.d]
    /\ \A b \in batch[w] \ {c} : b.result = "none"

SetResult(w, c, outcome) ==
    batch' = [batch EXCEPT ![w] = (@ \ {c}) \cup {[c EXCEPT !.result = outcome]}]

\* process_one: the SSRF check refuses the URL, or a step before the POST
\* fails, or the POST is sent and answered with 2xx or not (or times out).
ProcessOne(w, c, outcome, posted) ==
    /\ Current(w, c)
    /\ c.result = "none"
    /\ outcome = "ok" => posted = 1
    /\ outcome = "ssrf" => posted = 0
    /\ SetResult(w, c, outcome)
    /\ posts' = [posts EXCEPT ![c.d] = @ + posted]
    /\ UNCHANGED <<msg, ep, failures, table, expiries, faults, admin>>

Done(w, c) == batch' = [batch EXCEPT ![w] = @ \ {c}]

\* mark_delivered does not look at the row's or the endpoint's status.
MarkDelivered(w, c) ==
    /\ Current(w, c)
    /\ c.result = "ok"
    /\ row' = [row EXCEPT ![c.d] = "delivered"]
    /\ failures' = [failures EXCEPT ![c.d[1]] = 0]
    /\ Done(w, c)
    /\ UNCHANGED <<msg, ep, attempt, due, created_at, clock, history, faults,
                   admin>>

\* Mutant: the auto-pause forgets AND status = 'active'.
MarkFailedPausesAny(w, c) ==
    LET dead == c.result = "ssrf" \/ c.attempt >= MaxAttempts
        e == c.d[1]
        new_failures == c.failures + 1 IN
    /\ Current(w, c)
    /\ c.result \in {"fail", "ssrf"}
    /\ row' = [row EXCEPT ![c.d] = IF dead THEN "dead" ELSE "failed"]
    /\ due' = [due EXCEPT ![c.d] = FALSE]
    /\ failures' = [failures EXCEPT ![e] = new_failures]
    /\ ep' = IF new_failures >= PauseFailures THEN [ep EXCEPT ![e] = "paused"] ELSE ep
    /\ Done(w, c)
    /\ UNCHANGED <<msg, attempt, created_at, clock, history, faults, admin>>

\* Mutant: the count is written, the endpoint is not paused.
MarkFailedNoPause(w, c) ==
    LET dead == c.result = "ssrf" \/ c.attempt >= MaxAttempts IN
    /\ Current(w, c)
    /\ c.result \in {"fail", "ssrf"}
    /\ row' = [row EXCEPT ![c.d] = IF dead THEN "dead" ELSE "failed"]
    /\ due' = [due EXCEPT ![c.d] = FALSE]
    /\ failures' = [failures EXCEPT ![c.d[1]] = c.failures + 1]
    /\ Done(w, c)
    /\ UNCHANGED <<msg, ep, attempt, created_at, clock, history, faults, admin>>

\* mark_failed: failed with a backoff, or dead; the endpoint's failure_count
\* is the claim's value plus one, and reaching the threshold pauses an active
\* endpoint.
MarkFailed(w, c) ==
    LET dead == c.result = "ssrf" \/ c.attempt >= MaxAttempts
        e == c.d[1]
        new_failures == c.failures + 1
        pause == new_failures >= PauseFailures IN
    /\ Current(w, c)
    /\ c.result \in {"fail", "ssrf"}
    /\ row' = [row EXCEPT ![c.d] = IF dead THEN "dead" ELSE "failed"]
    /\ due' = [due EXCEPT ![c.d] = FALSE]
    /\ ep' = IF pause /\ ep[e] = "active" THEN [ep EXCEPT ![e] = "paused"] ELSE ep
    /\ failures' = IF pause /\ ep[e] # "active" THEN failures
                   ELSE [failures EXCEPT ![e] = new_failures]
    /\ Done(w, c)
    /\ UNCHANGED <<msg, attempt, created_at, clock, history, faults, admin>>

\* The transaction of the mark fails.  dispatch_once then marks the delivery
\* failed (not permanently); when that fails too the row stays delivering.
MarkError(w, c) ==
    /\ Current(w, c)
    /\ faults < MaxFaults
    /\ faults' = faults + 1
    /\ \/ /\ c.result \in {"ok", "ssrf"}
          /\ SetResult(w, c, "fail")
       \/ /\ c.result = "fail"
          /\ Done(w, c)
    /\ UNCHANGED <<msg, ep, failures, table, history, admin>>

\* The dispatcher dies (a restarted one starts with an empty batch).
Crash(w) ==
    /\ batch[w] # {}
    /\ faults < MaxFaults
    /\ faults' = faults + 1
    /\ batch' = [batch EXCEPT ![w] = {}]
    /\ UNCHANGED <<msg, ep, failures, table, history, admin>>

\* backoff_secs or the lease of delivering_lease_secs runs out; a dispatcher
\* can still hold the row, a batch of POSTs outlasts the lease.
TimePasses(d) ==
    /\ row[d] \in {"failed", "delivering"}
    /\ ~due[d]
    /\ due' = [due EXCEPT ![d] = TRUE]
    /\ expiries' = [expiries EXCEPT ![d] = @ + IF row[d] = "delivering" THEN 1 ELSE 0]
    /\ UNCHANGED <<msg, ep, failures, row, attempt, created_at, clock, batch,
                   posts, faults, admin>>

-----------------------------------------------------------------------------
(* Governance API *)

CreateEndpoint(e) ==
    /\ ep[e] = "absent"
    /\ ep' = [ep EXCEPT ![e] = "active"]
    /\ UNCHANGED <<msg, failures, table, batch, history, faults, admin>>

\* Mutant: the rotation re-activates the endpoint but keeps its count.
RotateSecretKeepsCount(e) ==
    /\ ep[e] # "absent"
    /\ admin < MaxAdmin
    /\ admin' = admin + 1
    /\ ep' = [ep EXCEPT ![e] = IF @ = "paused" THEN "active" ELSE @]
    /\ UNCHANGED <<msg, failures, table, batch, history, faults>>

\* rotate_secret re-activates a paused endpoint and clears its count.
RotateSecret(e) ==
    /\ ep[e] # "absent"
    /\ admin < MaxAdmin
    /\ admin' = admin + 1
    /\ ep' = [ep EXCEPT ![e] = IF @ = "paused" THEN "active" ELSE @]
    /\ failures' = [failures EXCEPT ![e] = IF ep[e] = "paused" THEN 0 ELSE @]
    /\ UNCHANGED <<msg, table, batch, history, faults>>

DisableEndpoint(e) ==
    /\ ep[e] # "absent"
    /\ admin < MaxAdmin
    /\ admin' = admin + 1
    /\ ep' = [ep EXCEPT ![e] = "disabled"]
    /\ UNCHANGED <<msg, failures, table, batch, history, faults>>

\* replay_delivery resets the row whatever its status, counting one attempt.
ReplayDelivery(d) ==
    /\ row[d] # "none"
    /\ admin < MaxAdmin
    /\ admin' = admin + 1
    /\ row' = [row EXCEPT ![d] = "pending"]
    /\ attempt' = [attempt EXCEPT ![d] = @ + 1]
    /\ due' = [due EXCEPT ![d] = TRUE]
    /\ UNCHANGED <<msg, ep, failures, created_at, clock, batch,
                   history, faults>>

-----------------------------------------------------------------------------

DispatchStep(w) ==
    \/ Claim(w)
    \/ \E c \in batch[w] :
          \/ \E outcome \in {"ok", "fail", "ssrf"}, posted \in {0, 1} :
                ProcessOne(w, c, outcome, posted)
          \/ MarkDelivered(w, c)
          \/ MarkFailed(w, c)

Next ==
    \/ \E v \in Events : Publish(v) \/ \E acked \in BOOLEAN : EnqueueEvent(v, acked)
    \/ \E w \in Dispatchers :
          DispatchStep(w) \/ Crash(w) \/ \E c \in batch[w] : MarkError(w, c)
    \/ \E d \in Deliveries : TimePasses(d) \/ ReplayDelivery(d)
    \/ \E e \in Endpoints : CreateEndpoint(e) \/ RotateSecret(e) \/ DisableEndpoint(e)

Spec == Init /\ [][Next]_vars

\* run_poll_loop ticks for ever, the HTTP client times out, and time passes.
FairSpec ==
    /\ Spec
    /\ \A w \in Dispatchers : WF_vars(DispatchStep(w))
    /\ \A d \in Deliveries : WF_vars(TimePasses(d))

\* The instances for TLC: every endpoint matches every event; dispatchers and
\* events are interchangeable, for safety only.
AllSubscribed == Endpoints \X Events
Symmetry == Permutations(Dispatchers) \cup Permutations(Events)

-----------------------------------------------------------------------------
(* Properties *)

\* At-least-once stays explained: a receiver sees no more POSTs of a delivery
\* than its counted attempts and the leases that ran out -- whatever batches
\* overlap, dispatchers crash, acks are lost and operators replay.
PostsExplained ==
    \A d \in Deliveries : posts[d] <= attempt[d] + expiries[d]

\* An active endpoint is below the auto-pause threshold, also after results
\* were written late and after a rotation re-activated it.
ActiveBelowThreshold ==
    \A e \in Endpoints : ep[e] = "active" => failures[e] < PauseFailures

\* No result that is written late and no rotation revives an endpoint that an
\* administrator disabled.
DisabledStaysDisabled ==
    [][\A e \in Endpoints : ep[e] = "disabled" => ep'[e] = "disabled"]_vars

\* The lease recovers a delivery: while attempts are left and its endpoint is
\* active, every delivery is delivered or dead in the end, whatever marks are
\* lost and dispatchers die.
Settles ==
    \A d \in Deliveries :
        (row[d] \in {"pending", "failed", "delivering"} /\ attempt[d] < MaxAttempts)
            ~> (\/ row[d] \in {"delivered", "dead"}
                \/ attempt[d] >= MaxAttempts
                \/ ep[d[1]] # "active")

\* DispatchOptions.delivering_lease_secs (dispatcher.rs:132-137): a row left in
\* `delivering` by a worker that died is reclaimed, it does not "sit forever
\* outside the pending/failed claim set".
LeaseRecovers ==
    \A d \in Deliveries :
        row[d] = "delivering" ~> (row[d] # "delivering" \/ ep[d[1]] # "active")

\* docs/developers/webhooks.md:42-43: a replay "re-enqueues a logged delivery",
\* so a pending delivery of an active endpoint is claimed again.
ReplayReattempted ==
    \A d \in Deliveries :
        row[d] = "pending" ~> (row[d] # "pending" \/ ep[d[1]] # "active")

=============================================================================
