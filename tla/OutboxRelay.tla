---------------------------- MODULE OutboxRelay ----------------------------
(***************************************************************************)
(* The transactional outbox and its relay (crates/outbox): services insert *)
(* an envelope in the transaction of their domain write; relay workers     *)
(* claim unpublished rows with FOR UPDATE SKIP LOCKED, publish them to     *)
(* JetStream while they hold the row locks, and mark them published or     *)
(* move them to outbox_dlq in the transaction of the claim; an operator    *)
(* replays a dead letter as a new outbox row.                              *)
(*                                                                         *)
(* A relay's open transaction is its record: `claimed` holds the row       *)
(* locks, `marked` and `dead` are its uncommitted UPDATEs and INSERTs.     *)
(* Dead letters of one outbox row are interchangeable, so the table is     *)
(* kept as two counts per outbox row: replayed_at IS NULL (dlq) and        *)
(* replayed_at set (replayed).                                             *)
(***************************************************************************)
EXTENDS Naturals, FiniteSets

CONSTANTS
    Events,      \* envelopes the services write; event_id is the first row's id
    ReplayIds,   \* the fresh ids that replay_dlq_row can draw
    Relays,      \* relay processes polling the same table
    NoEvent,     \* a row that is not in the table
    BatchSize,   \* LIMIT of the claim
    MaxAttempts, \* max_attempts_before_dlq
    MaxErrors,   \* bound on failed publish calls
    MaxAborts    \* bound on relay transactions that roll back

ASSUME OutboxAssumption ==
    /\ Events \cap ReplayIds = {}
    /\ NoEvent \notin Events
    /\ BatchSize \in Nat \ {0}
    /\ MaxAttempts \in Nat \ {0}
    /\ MaxErrors \in Nat
    /\ MaxAborts \in Nat

VARIABLES
    tx,          \* domain transaction of each event
    row,         \* outbox_event.payload, by row id
    created_at,  \* outbox_event.created_at
    published,   \* outbox_event.published_at IS NOT NULL
    dlq,         \* unreplayed dead letters, by outbox_id
    replayed,    \* replayed dead letters, by outbox_id
    relay,       \* each relay's open transaction
    attempt,     \* each relay's loop counter: publish calls for the row it is at
    stream,      \* copies of each event that JetStream stored
    excused,     \* history: copies that a lost ack or a rollback explains
    errors,      \* failed publish calls so far
    aborts,      \* rolled back relay transactions so far
    clock        \* source of created_at

vars == <<tx, row, created_at, published, dlq, replayed, relay, attempt,
          stream, excused, errors, aborts, clock>>

Ids == Events \cup ReplayIds

Idle == [claimed |-> {}, marked |-> {}, dead |-> {}]

RelayState == [claimed : SUBSET Ids, marked : SUBSET Ids, dead : SUBSET Ids]

TypeOK ==
    /\ tx \in [Events -> {"idle", "open", "committed", "rolledback"}]
    /\ row \in [Ids -> Events \cup {NoEvent}]
    /\ created_at \in [Ids -> Nat]
    /\ published \in [Ids -> BOOLEAN]
    /\ dlq \in [Ids -> Nat]
    /\ replayed \in [Ids -> Nat]
    /\ relay \in [Relays -> RelayState]
    /\ attempt \in [Relays -> 1..MaxAttempts]
    /\ stream \in [Events -> Nat]
    /\ excused \in [Events -> Nat]
    /\ errors \in 0..MaxErrors
    /\ aborts \in 0..MaxAborts
    /\ clock \in Nat

Init ==
    /\ tx = [e \in Events |-> "idle"]
    /\ row = [i \in Ids |-> NoEvent]
    /\ created_at = [i \in Ids |-> 0]
    /\ published = [i \in Ids |-> FALSE]
    /\ dlq = [i \in Ids |-> 0]
    /\ replayed = [i \in Ids |-> 0]
    /\ relay = [r \in Relays |-> Idle]
    /\ attempt = [r \in Relays |-> 1]
    /\ stream = [e \in Events |-> 0]
    /\ excused = [e \in Events |-> 0]
    /\ errors = 0
    /\ aborts = 0
    /\ clock = 1

-----------------------------------------------------------------------------
(* Writers *)

\* Mutant: insert_event runs outside of the domain transaction.
BeginWriteInsertsNow(e) ==
    /\ tx[e] = "idle"
    /\ tx' = [tx EXCEPT ![e] = "open"]
    /\ created_at' = [created_at EXCEPT ![e] = clock]
    /\ clock' = clock + 1
    /\ row' = [row EXCEPT ![e] = e]
    /\ UNCHANGED <<published, dlq, replayed, relay, attempt, stream, excused,
                   errors, aborts>>

\* EventEnvelope::new stamps occurred_at inside the open domain transaction,
\* so rows can become visible in another order than their created_at.
BeginWrite(e) ==
    /\ tx[e] = "idle"
    /\ tx' = [tx EXCEPT ![e] = "open"]
    /\ created_at' = [created_at EXCEPT ![e] = clock]
    /\ clock' = clock + 1
    /\ UNCHANGED <<row, published, dlq, replayed, relay, attempt, stream,
                   excused, errors, aborts>>

\* The domain write and insert_event commit together.
InsertEvent(e) ==
    /\ tx[e] = "open"
    /\ tx' = [tx EXCEPT ![e] = "committed"]
    /\ row' = [row EXCEPT ![e] = e]
    /\ UNCHANGED <<created_at, published, dlq, replayed, relay, attempt,
                   stream, excused, errors, aborts, clock>>

RollbackWrite(e) ==
    /\ tx[e] = "open"
    /\ tx' = [tx EXCEPT ![e] = "rolledback"]
    /\ UNCHANGED <<row, created_at, published, dlq, replayed, relay, attempt,
                   stream, excused, errors, aborts, clock>>

-----------------------------------------------------------------------------
(* Relay: publish_batch *)

Locked == UNION {relay[r].claimed : r \in Relays}

\* Mutant: the claim forgets SKIP LOCKED.
ClaimableUnlocked == {i \in Ids : row[i] # NoEvent /\ ~published[i]}

\* Mutant: the claim keeps a created_at cursor behind the newest published row.
ClaimableAfterCursor ==
    {i \in Ids : /\ row[i] # NoEvent /\ ~published[i] /\ i \notin Locked
                 /\ \A j \in Ids : published[j] => created_at[j] < created_at[i]}

\* SELECT ... WHERE published_at IS NULL ... FOR UPDATE SKIP LOCKED
Claimable == {i \in Ids : row[i] # NoEvent /\ ~published[i] /\ i \notin Locked}

\* ORDER BY created_at ASC LIMIT n
Oldest(S, n) ==
    {i \in S : Cardinality({j \in S : created_at[j] < created_at[i]}) < n}

Claim(r) ==
    /\ relay[r] = Idle
    /\ Claimable # {}
    /\ relay' = [relay EXCEPT ![r].claimed = Oldest(Claimable, BatchSize)]
    /\ UNCHANGED <<tx, row, created_at, published, dlq, replayed, attempt,
                   stream, excused, errors, aborts, clock>>

\* The rest of the batch, and the row that `for event in &batch` is at.
Todo(r) == relay[r].claimed \ (relay[r].marked \cup relay[r].dead)

IsCurrent(r, i) == i \in Oldest(Todo(r), 1)

\* publisher.publish returned Ok: mark_published_tx in the open transaction.
PublishOk(r, i) ==
    /\ IsCurrent(r, i)
    /\ stream' = [stream EXCEPT ![row[i]] = @ + 1]
    /\ relay' = [relay EXCEPT ![r].marked = @ \cup {i}]
    /\ attempt' = [attempt EXCEPT ![r] = 1]
    /\ UNCHANGED <<tx, row, created_at, published, dlq, replayed, excused,
                   errors, aborts, clock>>

\* Mutant: one attempt too many before the dead letter.
PublishErrOneMore(r, i, stored) ==
    /\ IsCurrent(r, i)
    /\ errors < MaxErrors
    /\ errors' = errors + 1
    /\ stream' = [stream EXCEPT ![row[i]] = @ + stored]
    /\ excused' = [excused EXCEPT ![row[i]] = @ + stored]
    /\ IF attempt[r] <= MaxAttempts
       THEN /\ attempt' = [attempt EXCEPT ![r] = @ + 1]
            /\ UNCHANGED relay
       ELSE /\ attempt' = [attempt EXCEPT ![r] = 1]
            /\ relay' = [relay EXCEPT ![r].dead = @ \cup {i}]
    /\ UNCHANGED <<tx, row, created_at, published, dlq, replayed, aborts,
                   clock>>

\* publisher.publish returned Err: the next attempt, or move_to_dlq after the
\* last one.  `stored` is 1 when JetStream kept the message and only its
\* acknowledgement was lost.
PublishErr(r, i, stored) ==
    /\ IsCurrent(r, i)
    /\ errors < MaxErrors
    /\ errors' = errors + 1
    /\ stream' = [stream EXCEPT ![row[i]] = @ + stored]
    /\ excused' = [excused EXCEPT ![row[i]] = @ + stored]
    /\ IF attempt[r] < MaxAttempts
       THEN /\ attempt' = [attempt EXCEPT ![r] = @ + 1]
            /\ UNCHANGED relay
       ELSE /\ attempt' = [attempt EXCEPT ![r] = 1]
            /\ relay' = [relay EXCEPT ![r].dead = @ \cup {i}]
    /\ UNCHANGED <<tx, row, created_at, published, dlq, replayed, aborts,
                   clock>>

\* Mutant: move_to_dlq marks the row published without the INSERT.
CommitBatchNoDlq(r) ==
    /\ relay[r].claimed # {}
    /\ Todo(r) = {}
    /\ published' = [i \in Ids |->
                        published[i] \/ i \in relay[r].marked \cup relay[r].dead]
    /\ relay' = [relay EXCEPT ![r] = Idle]
    /\ UNCHANGED <<tx, row, created_at, dlq, replayed, attempt, stream,
                   excused, errors, aborts, clock>>

\* tx.commit(): published_at of every row of the batch, and the dead letters.
CommitBatch(r) ==
    /\ relay[r].claimed # {}
    /\ Todo(r) = {}
    /\ published' = [i \in Ids |->
                        published[i] \/ i \in relay[r].marked \cup relay[r].dead]
    /\ dlq' = [i \in Ids |-> IF i \in relay[r].dead THEN dlq[i] + 1 ELSE dlq[i]]
    /\ relay' = [relay EXCEPT ![r] = Idle]
    /\ UNCHANGED <<tx, row, created_at, replayed, attempt, stream, excused,
                   errors, aborts, clock>>

\* The relay crashes, or a statement of its transaction fails: Postgres rolls
\* back and drops the row locks.  What JetStream stored stays stored.
AbortBatch(r) ==
    /\ relay[r].claimed # {}
    /\ aborts < MaxAborts
    /\ aborts' = aborts + 1
    /\ excused' = [e \in Events |->
                      IF \E i \in relay[r].marked : row[i] = e
                      THEN excused[e] + 1 ELSE excused[e]]
    /\ relay' = [relay EXCEPT ![r] = Idle]
    /\ attempt' = [attempt EXCEPT ![r] = 1]
    /\ UNCHANGED <<tx, row, created_at, published, dlq, replayed, stream,
                   errors, clock>>

-----------------------------------------------------------------------------
(* Operator: outbox-relay replay *)

\* Mutant: replay_dlq_row does not look at replayed_at.
ReplayDlqRowAgain(i, new) ==
    /\ dlq[i] + replayed[i] > 0
    /\ row[new] = NoEvent
    /\ row' = [row EXCEPT ![new] = row[i]]
    /\ created_at' = [created_at EXCEPT ![new] = clock]
    /\ clock' = clock + 1
    /\ dlq' = [dlq EXCEPT ![i] = 0]
    /\ replayed' = [replayed EXCEPT ![i] = 1]
    /\ UNCHANGED <<tx, published, relay, attempt, stream, excused, errors,
                   aborts>>

\* replay_dlq_row locks the dead letter, refuses a replayed one, re-inserts
\* its payload under a fresh id with created_at = now() and marks it replayed.
ReplayDlqRow(i, new) ==
    /\ dlq[i] > 0
    /\ row[new] = NoEvent
    /\ row' = [row EXCEPT ![new] = row[i]]
    /\ created_at' = [created_at EXCEPT ![new] = clock]
    /\ clock' = clock + 1
    /\ dlq' = [dlq EXCEPT ![i] = @ - 1]
    /\ replayed' = [replayed EXCEPT ![i] = @ + 1]
    /\ UNCHANGED <<tx, published, relay, attempt, stream, excused, errors,
                   aborts>>

-----------------------------------------------------------------------------

RelayStep(r) ==
    \/ Claim(r)
    \/ \E i \in Ids : PublishOk(r, i)
    \/ \E i \in Ids, stored \in {0, 1} : PublishErr(r, i, stored)
    \/ CommitBatch(r)

Next ==
    \/ \E e \in Events : BeginWrite(e) \/ InsertEvent(e) \/ RollbackWrite(e)
    \/ \E r \in Relays : RelayStep(r) \/ AbortBatch(r)
    \/ \E i \in Ids, new \in ReplayIds : ReplayDlqRow(i, new)

Spec == Init /\ [][Next]_vars

\* run_relay_loop polls for ever and the publisher's acknowledgement wait
\* times out, so a live relay always takes its next step.
FairSpec == Spec /\ \A r \in Relays : WF_vars(RelayStep(r))

-----------------------------------------------------------------------------
(* Properties *)

\* A committed domain write is never lost to the consumers: JetStream has its
\* event, or a row of it still waits for a relay, or a dead letter waits for
\* an operator -- whatever relays crash, publishes fail and replays happen
\* (publish_batch, move_to_dlq, replay_dlq_row).
NoLostEvent ==
    \A e \in Events :
        tx[e] = "committed" =>
            \/ stream[e] > 0
            \/ \E i \in Ids : row[i] = e /\ (~published[i] \/ dlq[i] > 0)

\* At-least-once stays close to once: every copy of an event in the stream
\* beyond the first is explained by a publish whose acknowledgement was lost
\* or by a relay transaction that rolled back after it published.  Two relays,
\* or a replay next to a relay, never publish an event twice by themselves.
DuplicatesExplained ==
    \A e \in Events : stream[e] <= excused[e] + 1

\* A replay never forks an event: of all the rows that carry an event at most
\* one is still to be published or is an unreplayed dead letter.
NoForkedEvent ==
    \A e \in Events : \A i, j \in Ids :
        /\ row[i] = e /\ (~published[i] \/ dlq[i] > 0)
        /\ row[j] = e /\ (~published[j] \/ dlq[j] > 0)
        => i = j /\ dlq[i] <= 1

\* The abstract status of an event, for the refinement of EventDelivery.
Status(e) ==
    IF tx[e] # "committed" THEN "none"
    ELSE IF stream[e] > 0 THEN "delivered"
    ELSE IF \E i \in Ids : row[i] = e /\ dlq[i] > 0 THEN "parked"
    ELSE "pending"

DeliveryStatus == [e \in Events |-> Status(e)]

Abstract == INSTANCE EventDelivery WITH status <- DeliveryStatus

\* The outbox implements EventDelivery: only committed events reach the
\* stream, a delivered event stays delivered, and an event is parked or
\* un-parked only while no copy of it was stored.
ImplementsEventDelivery == Abstract!Spec

\* Every committed event reaches the stream or the dead-letter table, also
\* when it became visible after younger rows were published.
DeliveredOrParked ==
    \A e \in Events :
        tx[e] = "committed" ~>
            (stream[e] > 0 \/ \E i \in Ids : row[i] = e /\ dlq[i] > 0)

=============================================================================
