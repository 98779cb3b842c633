-------------------------- MODULE OutboxRelayProofs --------------------------
(***************************************************************************)
(* Theorems about OutboxRelay for every set of events, relays and replay   *)
(* ids, every batch size and every bound: types, no lost event, explained  *)
(* duplicates, no forked event, and the refinement of EventDelivery.       *)
(***************************************************************************)
EXTENDS OutboxRelay, TLAPS

(* The parts of the inductive invariant. *)

\* Rows carry committed events, and an event's first row has its own id.
RowsCommitted ==
    /\ \A i \in Ids : row[i] # NoEvent => tx[row[i]] = "committed"
    /\ \A e \in Events : row[e] = (IF tx[e] = "committed" THEN e ELSE NoEvent)

\* A relay holds locks on unpublished rows only, and no two share a row.
LocksSound ==
    /\ \A r \in Relays : \A i \in relay[r].claimed :
          row[i] # NoEvent /\ ~published[i]
    /\ \A r \in Relays :
          /\ relay[r].marked \subseteq relay[r].claimed
          /\ relay[r].dead \subseteq relay[r].claimed
          /\ relay[r].marked \cap relay[r].dead = {}
    /\ \A r, s \in Relays : \A i \in Ids :
          i \in relay[r].claimed /\ i \in relay[s].claimed => r = s

\* Dead letters belong to published rows, one for each row at most.
DeadLettersSound ==
    \A i \in Ids :
        /\ dlq[i] + replayed[i] <= 1
        /\ dlq[i] + replayed[i] > 0 => published[i]
        /\ published[i] => row[i] # NoEvent

Waiting(i) == row[i] # NoEvent /\ (~published[i] \/ dlq[i] > 0)

\* At most one row of an event waits for a relay or for an operator.
OneWaiting ==
    \A i, j \in Ids : Waiting(i) /\ Waiting(j) /\ row[i] = row[j] => i = j

\* What was published is in the stream.
MarkedStored ==
    \A r \in Relays : \A i \in relay[r].marked : stream[row[i]] > 0

StreamCommitted ==
    \A e \in Events : tx[e] # "committed" => stream[e] = 0

Marked(i) == \E r \in Relays : i \in relay[r].marked

\* While a row of an event waits and its publish was not acknowledged, every
\* stored copy of the event is explained.
CopiesExplained ==
    /\ \A e \in Events : stream[e] <= excused[e] + 1
    /\ \A i \in Ids : Waiting(i) /\ ~Marked(i) => stream[row[i]] <= excused[row[i]]

IInv ==
    /\ TypeOK
    /\ RowsCommitted
    /\ LocksSound
    /\ DeadLettersSound
    /\ OneWaiting
    /\ MarkedStored
    /\ StreamCommitted
    /\ CopiesExplained
    /\ NoLostEvent

-----------------------------------------------------------------------------
(* Facts about the operators *)

\* ORDER BY ... LIMIT returns some of the rows it is given.
LEMMA OldestSubset ==
    ASSUME NEW S, NEW n
    PROVE  Oldest(S, n) \subseteq S
BY DEF Oldest

\* A relay without an open transaction is well typed.
LEMMA IdleType == Idle \in RelayState
BY OutboxAssumption DEF Idle, RelayState

\* Setting one field of a relay's transaction to a set of row ids.
LEMMA FieldType ==
    ASSUME NEW f \in [Relays -> RelayState], NEW r \in Relays,
           NEW X \in SUBSET Ids
    PROVE  /\ [f EXCEPT ![r].claimed = X] \in [Relays -> RelayState]
           /\ [f EXCEPT ![r].marked = X] \in [Relays -> RelayState]
           /\ [f EXCEPT ![r].dead = X] \in [Relays -> RelayState]
<1> DEFINE t == f[r]
<1>1. t \in RelayState
  OBVIOUS
<1> HIDE DEF t
<1>2. /\ [t EXCEPT !.claimed = X] \in RelayState
      /\ [t EXCEPT !.marked = X] \in RelayState
      /\ [t EXCEPT !.dead = X] \in RelayState
  BY <1>1 DEF RelayState
<1> QED
  BY <1>2 DEF t

\* Counting one more copy keeps the type of a counter per event.
LEMMA CopyCounted ==
    ASSUME NEW count \in [Events -> Nat], NEW x, NEW n \in Nat
    PROVE  [count EXCEPT ![x] = @ + n] \in [Events -> Nat]
<1>1. CASE x \in Events
  BY <1>1
<1>2. CASE x \notin Events
  <2>1. [count EXCEPT ![x] = @ + n] = count
    BY <1>2
  <2> QED
    BY <2>1
<1> QED
  BY <1>1, <1>2

\* The row a relay publishes is one it locks and has not decided yet.
LEMMA CurrentRow ==
    ASSUME IInv, NEW r \in Relays, NEW i, IsCurrent(r, i)
    PROVE  /\ i \in Ids
           /\ i \in relay[r].claimed
           /\ i \notin relay[r].marked
           /\ i \notin relay[r].dead
           /\ row[i] \in Events
           /\ ~published[i]
           /\ Waiting(i)
           /\ ~Marked(i)
<1>1. i \in Todo(r)
  BY OldestSubset DEF IsCurrent
<1>2. /\ i \in relay[r].claimed
      /\ i \notin relay[r].marked
      /\ i \notin relay[r].dead
  BY <1>1 DEF Todo
<1>3. relay[r] \in RelayState
  BY DEF IInv, TypeOK
<1>4. i \in Ids
  BY <1>2, <1>3 DEF RelayState
<1>5. row[i] # NoEvent /\ ~published[i]
  BY <1>2 DEF IInv, LocksSound
<1>6. row[i] \in Events
  BY <1>4, <1>5 DEF IInv, TypeOK
<1>7. ~Marked(i)
  BY <1>2, <1>4 DEF IInv, LocksSound, Marked
<1> QED
  BY <1>2, <1>4, <1>5, <1>6, <1>7 DEF Waiting

-----------------------------------------------------------------------------
(* Type correctness *)

\* The empty outbox is well typed.
LEMMA TypeInit == Init => TypeOK
BY OutboxAssumption, IdleType DEF Init, TypeOK, Ids

\* Every step of a writer, a relay or an operator keeps the types.
LEMMA TypeStep == TypeOK /\ [Next]_vars => TypeOK'
<1> SUFFICES ASSUME TypeOK, [Next]_vars PROVE TypeOK'
  OBVIOUS
<1> USE OutboxAssumption DEF TypeOK
<1>1. ASSUME NEW e \in Events, BeginWrite(e) PROVE TypeOK'
  BY <1>1 DEF BeginWrite, Ids
<1>2. ASSUME NEW e \in Events, InsertEvent(e) PROVE TypeOK'
  BY <1>2 DEF InsertEvent, Ids
<1>3. ASSUME NEW e \in Events, RollbackWrite(e) PROVE TypeOK'
  BY <1>3 DEF RollbackWrite
<1>4. ASSUME NEW r \in Relays, Claim(r) PROVE TypeOK'
  <2> DEFINE C == Oldest(Claimable, BatchSize)
  <2>1. C \subseteq Ids
    BY OldestSubset DEF Claimable
  <2>2. relay' = [relay EXCEPT ![r].claimed = C]
    BY <1>4 DEF Claim
  <2> HIDE DEF C
  <2>3. relay' \in [Relays -> RelayState]
    BY <2>1, <2>2, FieldType
  <2> QED
    BY <1>4, <2>3 DEF Claim
<1>5. ASSUME NEW r \in Relays, NEW i \in Ids, PublishOk(r, i) PROVE TypeOK'
  <2>1. relay' \in [Relays -> RelayState]
    <3>1. relay[r].marked \cup {i} \in SUBSET Ids
      BY DEF RelayState
    <3>2. relay' = [relay EXCEPT ![r].marked = relay[r].marked \cup {i}]
      BY <1>5 DEF PublishOk
    <3> QED
      BY <3>1, <3>2, FieldType
  <2>2. stream' \in [Events -> Nat]
    BY <1>5, CopyCounted DEF PublishOk
  <2> QED
    BY <1>5, <2>1, <2>2 DEF PublishOk
<1>6. ASSUME NEW r \in Relays, NEW i \in Ids, NEW stored \in {0, 1},
             PublishErr(r, i, stored)
      PROVE  TypeOK'
  <2>1. relay' \in [Relays -> RelayState]
    <3>1. CASE attempt[r] < MaxAttempts
      BY <1>6, <3>1 DEF PublishErr
    <3>2. CASE ~(attempt[r] < MaxAttempts)
      <4>1. relay[r].dead \cup {i} \in SUBSET Ids
        BY DEF RelayState
      <4>2. relay' = [relay EXCEPT ![r].dead = relay[r].dead \cup {i}]
        BY <1>6, <3>2 DEF PublishErr
      <4> QED
        BY <4>1, <4>2, FieldType
    <3> QED
      BY <3>1, <3>2
  <2>2. stream' \in [Events -> Nat] /\ excused' \in [Events -> Nat]
    BY <1>6, CopyCounted DEF PublishErr
  <2>3. errors' \in 0..MaxErrors
    BY <1>6 DEF PublishErr
  <2> QED
    BY <1>6, <2>1, <2>2, <2>3 DEF PublishErr
<1>7. ASSUME NEW r \in Relays, CommitBatch(r) PROVE TypeOK'
  BY <1>7, IdleType DEF CommitBatch
<1>8. ASSUME NEW r \in Relays, AbortBatch(r) PROVE TypeOK'
  BY <1>8, IdleType DEF AbortBatch
<1>9. ASSUME NEW i \in Ids, NEW new \in ReplayIds, ReplayDlqRow(i, new)
      PROVE  TypeOK'
  <2>1. dlq[i] - 1 \in Nat
    BY <1>9 DEF ReplayDlqRow
  <2> QED
    BY <1>9, <2>1 DEF ReplayDlqRow, Ids
<1>10. CASE UNCHANGED vars
  BY <1>10 DEF vars
<1> QED
  BY <1>1, <1>2, <1>3, <1>4, <1>5, <1>6, <1>7, <1>8, <1>9, <1>10
     DEF Next, RelayStep

\* Every reachable state of the outbox and its relays is well typed: no
\* relay's attempt counter leaves 1..max_attempts_before_dlq.
THEOREM TypeCorrect == Spec => []TypeOK
<1>1. Init => TypeOK
  BY TypeInit
<1>2. TypeOK /\ [Next]_vars => TypeOK'
  BY TypeStep
<1> QED
  BY <1>1, <1>2, PTL DEF Spec

-----------------------------------------------------------------------------
(* The inductive invariant *)

\* The empty outbox satisfies the inductive invariant.
LEMMA InvInit == Init => IInv
<1> SUFFICES ASSUME Init PROVE IInv
  OBVIOUS
<1> USE DEF Init, Ids, Idle
<1>1. TypeOK
  BY TypeInit
<1>2. RowsCommitted
  BY DEF RowsCommitted
<1>3. LocksSound
  BY DEF LocksSound
<1>4. DeadLettersSound
  BY DEF DeadLettersSound
<1>5. OneWaiting
  BY DEF OneWaiting, Waiting
<1>6. MarkedStored
  BY DEF MarkedStored
<1>7. StreamCommitted
  BY DEF StreamCommitted
<1>8. CopiesExplained
  BY DEF CopiesExplained, Waiting
<1>9. NoLostEvent
  BY DEF NoLostEvent
<1> QED
  BY <1>1, <1>2, <1>3, <1>4, <1>5, <1>6, <1>7, <1>8, <1>9 DEF IInv

\* A domain transaction opens: no row changes.
LEMMA InvBeginWrite ==
    ASSUME IInv, TypeOK', NEW e \in Events, BeginWrite(e)
    PROVE  IInv'
<1> USE DEF IInv, BeginWrite
<1>1. e \in Ids /\ tx'[e] # "committed" /\ \A f \in Events : f # e => tx'[f] = tx[f]
  BY DEF TypeOK, Ids
<1>2. RowsCommitted'
  BY <1>1 DEF RowsCommitted, TypeOK
<1>3. LocksSound' /\ DeadLettersSound' /\ MarkedStored'
  BY DEF LocksSound, DeadLettersSound, MarkedStored
<1>4. OneWaiting' /\ CopiesExplained'
  BY DEF OneWaiting, CopiesExplained, Waiting, Marked
<1>5. StreamCommitted'
  BY <1>1 DEF StreamCommitted
<1>6. NoLostEvent'
  BY <1>1 DEF NoLostEvent
<1> QED
  BY <1>2, <1>3, <1>4, <1>5, <1>6

\* The event's first row appears, under an id no other row has used.
LEMMA InvInsertEvent ==
    ASSUME IInv, TypeOK', NEW e \in Events, InsertEvent(e)
    PROVE  IInv'
<1> USE DEF IInv, InsertEvent
<1>1. /\ e \in Ids
      /\ e # NoEvent
      /\ row'[e] = e
      /\ tx'[e] = "committed"
      /\ \A i \in Ids : i # e => row'[i] = row[i]
      /\ \A f \in Events : f # e => tx'[f] = tx[f]
  BY OutboxAssumption DEF TypeOK, Ids
<1>2. /\ row[e] = NoEvent
      /\ ~published[e] /\ dlq[e] = 0
      /\ \A i \in Ids : row[i] # e
      /\ stream[e] = 0
  <2>1. row[e] = NoEvent
    BY <1>1 DEF RowsCommitted
  <2>2. ~published[e]
    BY <1>1, <2>1 DEF DeadLettersSound
  <2>3. dlq[e] = 0
    <3>1. ~(dlq[e] + replayed[e] > 0)
      BY <1>1, <2>2 DEF DeadLettersSound
    <3>2. dlq[e] \in Nat /\ replayed[e] \in Nat
      BY <1>1 DEF TypeOK
    <3> QED
      BY <3>1, <3>2
  <2>4. \A i \in Ids : row[i] # e
    BY <1>1 DEF RowsCommitted
  <2> QED
    BY <1>1, <2>1, <2>2, <2>3, <2>4 DEF StreamCommitted
<1>3. RowsCommitted'
  BY <1>1, <1>2 DEF RowsCommitted, TypeOK
<1>4. LocksSound'
  <2>1. \A r \in Relays : \A i \in relay[r].claimed : i \in Ids
    BY DEF TypeOK, RelayState
  <2> QED
    BY <1>1, <1>2, <2>1 DEF LocksSound
<1>5. DeadLettersSound'
  BY <1>1, <1>2 DEF DeadLettersSound
<1>6. OneWaiting'
  BY <1>1, <1>2 DEF OneWaiting, Waiting
<1>7. MarkedStored'
  <2>1. \A r \in Relays : \A i \in relay[r].marked : i \in Ids /\ i # e
    BY <1>2 DEF TypeOK, RelayState, LocksSound
  <2> QED
    BY <1>1, <2>1 DEF MarkedStored
<1>8. StreamCommitted'
  BY <1>1 DEF StreamCommitted
<1>9. CopiesExplained'
  <2>1. \A i \in Ids : Waiting(i)' /\ ~Marked(i)' => stream'[row'[i]] <= excused'[row'[i]]
    <3> SUFFICES ASSUME NEW i \in Ids, Waiting(i)', ~Marked(i)'
                 PROVE  stream[row'[i]] <= excused[row'[i]]
      OBVIOUS
    <3>1. CASE i = e
      BY <1>1, <1>2, <3>1 DEF TypeOK
    <3>2. CASE i # e
      <4>1. Waiting(i) /\ ~Marked(i)
        BY <1>1, <3>2 DEF Waiting, Marked
      <4> QED
        BY <1>1, <3>2, <4>1 DEF CopiesExplained
    <3> QED
      BY <3>1, <3>2
  <2> QED
    BY <2>1 DEF CopiesExplained
<1>10. NoLostEvent'
  <2> SUFFICES ASSUME NEW f \in Events, tx'[f] = "committed"
               PROVE  \/ stream[f] > 0
                      \/ \E i \in Ids : row'[i] = f /\ (~published[i] \/ dlq[i] > 0)
    BY DEF NoLostEvent
  <2>1. CASE f = e
    BY <1>1, <1>2, <2>1
  <2>2. CASE f # e
    <3>1. \/ stream[f] > 0
          \/ \E i \in Ids : row[i] = f /\ (~published[i] \/ dlq[i] > 0)
      BY <1>1, <2>2 DEF NoLostEvent
    <3>2. \A i \in Ids : row[i] = f => row'[i] = f
      BY <1>1, <1>2, OutboxAssumption
    <3> QED
      BY <3>1, <3>2
  <2> QED
    BY <2>1, <2>2
<1> QED
  BY <1>3, <1>4, <1>5, <1>6, <1>7, <1>8, <1>9, <1>10

\* A domain transaction that rolls back leaves no row.
LEMMA InvRollbackWrite ==
    ASSUME IInv, TypeOK', NEW e \in Events, RollbackWrite(e)
    PROVE  IInv'
<1> USE DEF IInv, RollbackWrite
<1>1. e \in Ids /\ tx'[e] # "committed" /\ \A f \in Events : f # e => tx'[f] = tx[f]
  BY DEF TypeOK, Ids
<1>2. RowsCommitted'
  BY <1>1 DEF RowsCommitted, TypeOK
<1>3. LocksSound' /\ DeadLettersSound' /\ MarkedStored'
  BY DEF LocksSound, DeadLettersSound, MarkedStored
<1>4. OneWaiting' /\ CopiesExplained'
  BY DEF OneWaiting, CopiesExplained, Waiting, Marked
<1>5. StreamCommitted'
  BY <1>1 DEF StreamCommitted
<1>6. NoLostEvent'
  BY <1>1 DEF NoLostEvent
<1> QED
  BY <1>2, <1>3, <1>4, <1>5, <1>6

\* SKIP LOCKED: the claimed rows are unpublished and nobody else's.
LEMMA InvClaim ==
    ASSUME IInv, TypeOK', NEW r \in Relays, Claim(r)
    PROVE  IInv'
<1> USE DEF IInv, Claim
<1> DEFINE C == Oldest(Claimable, BatchSize)
<1>1. \A i \in C : i \in Ids /\ row[i] # NoEvent /\ ~published[i] /\ i \notin Locked
  BY OldestSubset DEF Claimable
<1>2. /\ relay'[r].claimed = C
      /\ relay'[r].marked = {} /\ relay'[r].dead = {}
      /\ \A s \in Relays : s # r => relay'[s] = relay[s]
      /\ \A s \in Relays : relay'[s].marked = relay[s].marked
  <2> HIDE DEF C
  <2>1. relay' = [relay EXCEPT ![r].claimed = C]
    BY DEF C
  <2>2. relay \in [Relays -> RelayState]
    BY DEF TypeOK
  <2>3. relay'[r] = [relay[r] EXCEPT !.claimed = C]
    BY <2>1, <2>2
  <2>4. relay'[r] = [claimed |-> C, marked |-> {}, dead |-> {}]
    BY <2>3 DEF Idle
  <2>5. \A s \in Relays : s # r => relay'[s] = relay[s]
    BY <2>1, <2>2
  <2>6. relay[r].marked = {}
    BY DEF Idle
  <2> QED
    BY <2>4, <2>5, <2>6
<1> HIDE DEF C
<1>3. LocksSound'
  <2>1. \A s \in Relays : \A i \in relay'[s].claimed : row[i] # NoEvent /\ ~published[i]
    BY <1>1, <1>2 DEF LocksSound
  <2>2. \A s \in Relays :
          /\ relay'[s].marked \subseteq relay'[s].claimed
          /\ relay'[s].dead \subseteq relay'[s].claimed
          /\ relay'[s].marked \cap relay'[s].dead = {}
    BY <1>2 DEF LocksSound
  <2>3. \A s, t \in Relays : \A i \in Ids :
          i \in relay'[s].claimed /\ i \in relay'[t].claimed => s = t
    <3>1. \A s \in Relays : \A i \in relay[s].claimed : i \in Locked
      BY DEF Locked
    <3> QED
      BY <1>1, <1>2, <3>1 DEF LocksSound
  <2> QED
    BY <2>1, <2>2, <2>3 DEF LocksSound
<1>4. RowsCommitted' /\ DeadLettersSound' /\ OneWaiting' /\ StreamCommitted' /\ NoLostEvent'
  BY DEF RowsCommitted, DeadLettersSound, OneWaiting, Waiting, StreamCommitted, NoLostEvent
<1>5. MarkedStored'
  BY <1>2 DEF MarkedStored
<1>6. CopiesExplained'
  BY <1>2 DEF CopiesExplained, Waiting, Marked
<1> QED
  BY <1>3, <1>4, <1>5, <1>6

\* An acknowledged publish is the one copy that no failure explains.
LEMMA InvPublishOk ==
    ASSUME IInv, TypeOK', NEW r \in Relays, NEW i \in Ids, PublishOk(r, i)
    PROVE  IInv'
<1> USE DEF IInv
<1> DEFINE e == row[i]
<1>1. /\ i \in relay[r].claimed
      /\ i \notin relay[r].dead
      /\ e \in Events
      /\ Waiting(i) /\ ~Marked(i)
  BY CurrentRow DEF PublishOk
<1>2. /\ stream'[e] = stream[e] + 1
      /\ \A f \in Events : f # e => stream'[f] = stream[f]
      /\ \A f \in Events : stream'[f] \in Nat /\ stream[f] \in Nat /\ excused[f] \in Nat
  BY <1>1 DEF PublishOk, TypeOK
<1>3. /\ relay'[r].claimed = relay[r].claimed
      /\ relay'[r].marked = relay[r].marked \cup {i}
      /\ relay'[r].dead = relay[r].dead
      /\ \A s \in Relays : s # r => relay'[s] = relay[s]
  BY DEF PublishOk, TypeOK, RelayState
<1>4. UNCHANGED <<tx, row, published, dlq, replayed, excused>>
  BY DEF PublishOk
<1>5. RowsCommitted' /\ DeadLettersSound' /\ OneWaiting'
  BY <1>4 DEF RowsCommitted, DeadLettersSound, OneWaiting, Waiting
<1>6. LocksSound'
  <2>1. \A s \in Relays : relay'[s].claimed = relay[s].claimed
    BY <1>3
  <2>2. \A s \in Relays :
          /\ relay'[s].marked \subseteq relay'[s].claimed
          /\ relay'[s].dead \subseteq relay'[s].claimed
          /\ relay'[s].marked \cap relay'[s].dead = {}
    BY <1>1, <1>3 DEF LocksSound
  <2> QED
    BY <1>4, <2>1, <2>2 DEF LocksSound
<1>7. MarkedStored'
  <2> SUFFICES ASSUME NEW s \in Relays, NEW j \in relay'[s].marked
               PROVE  stream'[row[j]] > 0
    BY <1>4 DEF MarkedStored
  <2>1. CASE j = i
    BY <1>1, <1>2, <2>1
  <2>2. CASE j # i
    <3>1. j \in relay[s].marked
      BY <1>3, <2>2
    <3>2. row[j] \in Events /\ stream[row[j]] > 0
      BY <3>1 DEF MarkedStored, LocksSound, TypeOK, RelayState
    <3> QED
      BY <1>2, <3>2
  <2> QED
    BY <2>1, <2>2
<1>8. StreamCommitted'
  <2>1. tx[e] = "committed"
    BY <1>1 DEF RowsCommitted, Waiting
  <2> QED
    BY <1>2, <1>4, <2>1 DEF StreamCommitted
<1>9. CopiesExplained'
  <2>1. \A f \in Events : stream'[f] <= excused[f] + 1
    <3>1. stream[e] <= excused[e]
      BY <1>1 DEF CopiesExplained
    <3> QED
      BY <1>1, <1>2, <3>1 DEF CopiesExplained
  <2>2. ASSUME NEW j \in Ids, Waiting(j)', ~Marked(j)'
        PROVE  stream'[row[j]] <= excused[row[j]]
    <3>1. Waiting(j) /\ j # i /\ ~Marked(j)
      BY <1>3, <1>4, <2>2 DEF Waiting, Marked
    <3>2. row[j] # e
      BY <1>1, <3>1 DEF OneWaiting
    <3>3. row[j] \in Events
      BY <3>1 DEF Waiting, TypeOK
    <3> QED
      BY <1>2, <3>1, <3>2, <3>3 DEF CopiesExplained
  <2> QED
    BY <1>4, <2>1, <2>2 DEF CopiesExplained
<1>10. NoLostEvent'
  <2>1. \A f \in Events : stream[f] > 0 => stream'[f] > 0
    BY <1>1, <1>2
  <2> QED
    BY <1>4, <2>1 DEF NoLostEvent
<1> QED
  BY <1>5, <1>6, <1>7, <1>8, <1>9, <1>10

\* A copy stored by a publish that failed is excused at once.
LEMMA InvPublishErr ==
    ASSUME IInv, TypeOK', NEW r \in Relays, NEW i \in Ids,
           NEW stored \in {0, 1}, PublishErr(r, i, stored)
    PROVE  IInv'
<1> USE DEF IInv
<1> DEFINE e == row[i]
<1>1. /\ i \in relay[r].claimed
      /\ i \notin relay[r].marked
      /\ e \in Events
      /\ Waiting(i)
  BY CurrentRow DEF PublishErr
<1>2. /\ stream'[e] = stream[e] + stored /\ excused'[e] = excused[e] + stored
      /\ \A f \in Events : f # e => stream'[f] = stream[f] /\ excused'[f] = excused[f]
      /\ \A f \in Events : stream[f] \in Nat /\ excused[f] \in Nat
  BY <1>1 DEF PublishErr, TypeOK
<1>3. /\ \A s \in Relays : relay'[s].claimed = relay[s].claimed
      /\ \A s \in Relays : relay'[s].marked = relay[s].marked
      /\ \A s \in Relays : \A j : j \in relay'[s].dead =>
            j \in relay[s].dead \/ (s = r /\ j = i)
  <2>1. CASE UNCHANGED relay
    BY <2>1
  <2>2. CASE relay' = [relay EXCEPT ![r].dead = @ \cup {i}]
    BY <2>2 DEF TypeOK, RelayState
  <2> QED
    BY <2>1, <2>2 DEF PublishErr
<1>4. UNCHANGED <<tx, row, published, dlq, replayed>>
  BY DEF PublishErr
<1>5. RowsCommitted' /\ DeadLettersSound' /\ OneWaiting'
  BY <1>4 DEF RowsCommitted, DeadLettersSound, OneWaiting, Waiting
<1>6. LocksSound'
  <2>1. \A s \in Relays :
          /\ relay'[s].marked \subseteq relay'[s].claimed
          /\ relay'[s].dead \subseteq relay'[s].claimed
          /\ relay'[s].marked \cap relay'[s].dead = {}
    BY <1>1, <1>3 DEF LocksSound
  <2> QED
    BY <1>3, <1>4, <2>1 DEF LocksSound
<1>7. MarkedStored'
  <2> SUFFICES ASSUME NEW s \in Relays, NEW j \in relay[s].marked
               PROVE  stream'[row[j]] > 0
    BY <1>3, <1>4 DEF MarkedStored
  <2>1. row[j] \in Events /\ stream[row[j]] > 0
    BY DEF MarkedStored, LocksSound, TypeOK, RelayState
  <2> QED
    BY <1>2, <2>1
<1>8. StreamCommitted'
  <2>1. tx[e] = "committed"
    BY <1>1 DEF RowsCommitted, Waiting
  <2> QED
    BY <1>2, <1>4, <2>1 DEF StreamCommitted
<1>9. CopiesExplained'
  <2>1. \A f \in Events : stream'[f] <= excused'[f] + 1
    BY <1>1, <1>2 DEF CopiesExplained
  <2>2. ASSUME NEW j \in Ids, Waiting(j)', ~Marked(j)'
        PROVE  stream'[row[j]] <= excused'[row[j]]
    <3>1. Waiting(j) /\ ~Marked(j)
      BY <1>3, <1>4, <2>2 DEF Waiting, Marked
    <3>2. row[j] \in Events
      BY <3>1 DEF Waiting, TypeOK
    <3>3. stream[row[j]] <= excused[row[j]]
      BY <3>1 DEF CopiesExplained
    <3> QED
      BY <1>1, <1>2, <3>2, <3>3
  <2> QED
    BY <1>4, <2>1, <2>2 DEF CopiesExplained
<1>10. NoLostEvent'
  <2>1. \A f \in Events : stream[f] > 0 => stream'[f] > 0
    BY <1>1, <1>2
  <2> QED
    BY <1>4, <2>1 DEF NoLostEvent
<1> QED
  BY <1>5, <1>6, <1>7, <1>8, <1>9, <1>10

\* What an unpublished row has no part in yet.
LEMMA UnpublishedRow ==
    ASSUME IInv, NEW i \in Ids, ~published[i]
    PROVE  dlq[i] = 0 /\ replayed[i] = 0
<1>1. ~(dlq[i] + replayed[i] > 0)
  BY DEF IInv, DeadLettersSound
<1>2. dlq[i] \in Nat /\ replayed[i] \in Nat
  BY DEF IInv, TypeOK
<1> QED
  BY <1>1, <1>2

\* Every row of the batch is marked, with a copy in the stream, or dead, with
\* its dead letter in the same commit.
LEMMA InvCommitBatch ==
    ASSUME IInv, TypeOK', NEW r \in Relays, CommitBatch(r)
    PROVE  IInv'
<1> USE DEF IInv
<1> DEFINE M == relay[r].marked
           D == relay[r].dead
<1>1. /\ relay[r].claimed = M \cup D
      /\ M \cap D = {}
      /\ M \subseteq Ids /\ D \subseteq Ids
      /\ \A i \in M \cup D : row[i] # NoEvent /\ ~published[i]
      /\ \A i \in M \cup D : dlq[i] = 0 /\ replayed[i] = 0
  <2>1. relay[r].claimed = M \cup D /\ M \cap D = {}
    BY DEF CommitBatch, Todo, LocksSound
  <2>2. M \subseteq Ids /\ D \subseteq Ids
    BY DEF TypeOK, RelayState
  <2>3. \A i \in M \cup D : row[i] # NoEvent /\ ~published[i]
    BY <2>1 DEF LocksSound
  <2> QED
    BY <2>1, <2>2, <2>3, UnpublishedRow
<1>2. /\ relay'[r] = Idle
      /\ \A s \in Relays : s # r => relay'[s] = relay[s]
      /\ Idle.claimed = {} /\ Idle.marked = {} /\ Idle.dead = {}
  BY DEF CommitBatch, TypeOK, Idle
<1>3. /\ \A i \in Ids : published'[i] <=> (published[i] \/ i \in M \cup D)
      /\ \A i \in D : dlq'[i] = 1
      /\ \A i \in Ids : i \notin D => dlq'[i] = dlq[i]
  <2>1. \A i \in Ids : published'[i] <=> (published[i] \/ i \in M \cup D)
    BY DEF CommitBatch
  <2>2. \A i \in Ids : dlq'[i] = IF i \in D THEN dlq[i] + 1 ELSE dlq[i]
    BY DEF CommitBatch
  <2> HIDE DEF M, D
  <2>3. \A i \in D : i \in Ids /\ dlq[i] = 0
    BY <1>1
  <2> QED
    BY <2>1, <2>2, <2>3
<1>4. UNCHANGED <<tx, row, replayed, stream, excused>>
  BY DEF CommitBatch
<1> HIDE DEF M, D
<1>5. \A j \in Ids : Waiting(j)' => Waiting(j) /\ j \notin M
  <2> SUFFICES ASSUME NEW j \in Ids, Waiting(j)'
               PROVE  Waiting(j) /\ j \notin M
    OBVIOUS
  <2>1. row[j] # NoEvent /\ (~published'[j] \/ dlq'[j] > 0)
    BY <1>4 DEF Waiting
  <2>2. CASE j \in D
    BY <1>1, <2>1, <2>2 DEF Waiting
  <2>3. CASE j \notin D
    <3>1. dlq'[j] = dlq[j]
      BY <1>3, <2>3
    <3>2. CASE j \in M
      BY <1>1, <1>3, <2>1, <3>1, <3>2
    <3>3. CASE j \notin M
      BY <1>3, <2>1, <2>3, <3>1, <3>3 DEF Waiting
    <3> QED
      BY <3>2, <3>3
  <2> QED
    BY <2>2, <2>3
<1>6. RowsCommitted' /\ StreamCommitted'
  BY <1>4 DEF RowsCommitted, StreamCommitted
<1>7. LocksSound'
  <2>1. ASSUME NEW s \in Relays, NEW i \in relay'[s].claimed
        PROVE  row[i] # NoEvent /\ ~published'[i]
    <3>1. s # r /\ i \in relay[s].claimed
      BY <1>2, <2>1
    <3>2. i \in Ids
      BY <3>1 DEF TypeOK, RelayState
    <3>3. i \notin relay[r].claimed
      BY <3>1, <3>2 DEF LocksSound
    <3> QED
      BY <1>1, <1>3, <3>1, <3>2, <3>3 DEF LocksSound
  <2>2. \A s \in Relays :
          /\ relay'[s].marked \subseteq relay'[s].claimed
          /\ relay'[s].dead \subseteq relay'[s].claimed
          /\ relay'[s].marked \cap relay'[s].dead = {}
    BY <1>2 DEF LocksSound
  <2>3. \A s, t \in Relays : \A i \in Ids :
          i \in relay'[s].claimed /\ i \in relay'[t].claimed => s = t
    BY <1>2 DEF LocksSound
  <2> QED
    BY <1>4, <2>1, <2>2, <2>3 DEF LocksSound
<1>8. DeadLettersSound'
  <2> SUFFICES ASSUME NEW i \in Ids
               PROVE  /\ dlq'[i] + replayed[i] <= 1
                      /\ dlq'[i] + replayed[i] > 0 => published'[i]
                      /\ published'[i] => row[i] # NoEvent
    BY <1>4 DEF DeadLettersSound
  <2>1. CASE i \in D
    BY <1>1, <1>3, <2>1
  <2>2. CASE i \notin D
    <3>1. dlq'[i] = dlq[i]
      BY <1>3, <2>2
    <3>2. published[i] => published'[i]
      BY <1>3
    <3>3. published'[i] => row[i] # NoEvent
      BY <1>1, <1>3 DEF DeadLettersSound
    <3> QED
      BY <3>1, <3>2, <3>3 DEF DeadLettersSound
  <2> QED
    BY <2>1, <2>2
<1>9. OneWaiting'
  BY <1>4, <1>5 DEF OneWaiting
<1>10. MarkedStored'
  BY <1>2, <1>4 DEF MarkedStored
<1>11. CopiesExplained'
  <2>1. ASSUME NEW j \in Ids, Waiting(j)', ~Marked(j)'
        PROVE  stream[row[j]] <= excused[row[j]]
    <3>1. Waiting(j) /\ j \notin M
      BY <1>5, <2>1
    <3>2. ~Marked(j)
      BY <1>2, <2>1, <3>1 DEF Marked, M
    <3> QED
      BY <3>1, <3>2 DEF CopiesExplained
  <2> QED
    BY <1>4, <2>1 DEF CopiesExplained
<1>12. NoLostEvent'
  <2> SUFFICES ASSUME NEW e \in Events, tx[e] = "committed", ~(stream[e] > 0)
               PROVE  \E i \in Ids : row[i] = e /\ (~published'[i] \/ dlq'[i] > 0)
    BY <1>4 DEF NoLostEvent
  <2>1. PICK i \in Ids : row[i] = e /\ (~published[i] \/ dlq[i] > 0)
    BY DEF NoLostEvent
  <2>2. i \notin M
    BY <2>1 DEF MarkedStored, M
  <2>3. CASE i \in D
    BY <1>3, <2>1, <2>3
  <2>4. CASE i \notin D
    BY <1>3, <2>1, <2>2, <2>4
  <2> QED
    BY <2>3, <2>4
<1> QED
  BY <1>6, <1>7, <1>8, <1>9, <1>10, <1>11, <1>12

\* A rollback leaves the copies it had published, and excuses them.
LEMMA InvAbortBatch ==
    ASSUME IInv, TypeOK', NEW r \in Relays, AbortBatch(r)
    PROVE  IInv'
<1> USE DEF IInv
<1>1. /\ relay'[r] = Idle
      /\ \A s \in Relays : s # r => relay'[s] = relay[s]
      /\ Idle.claimed = {} /\ Idle.marked = {} /\ Idle.dead = {}
  BY DEF AbortBatch, TypeOK, Idle
<1>2. UNCHANGED <<tx, row, published, dlq, replayed, stream>>
  BY DEF AbortBatch
<1>3. \A e \in Events :
        /\ stream[e] \in Nat /\ excused[e] \in Nat
        /\ excused'[e] = IF \E i \in relay[r].marked : row[i] = e
                         THEN excused[e] + 1 ELSE excused[e]
  BY DEF AbortBatch, TypeOK
<1>4. RowsCommitted' /\ DeadLettersSound' /\ OneWaiting' /\ StreamCommitted' /\ NoLostEvent'
  BY <1>2 DEF RowsCommitted, DeadLettersSound, OneWaiting, Waiting, StreamCommitted, NoLostEvent
<1>5. LocksSound'
  BY <1>1, <1>2 DEF LocksSound
<1>6. MarkedStored'
  BY <1>1, <1>2 DEF MarkedStored
<1>7. CopiesExplained'
  <2>1. \A e \in Events : stream[e] <= excused'[e] + 1
    BY <1>3 DEF CopiesExplained
  <2>2. ASSUME NEW j \in Ids, Waiting(j)', ~Marked(j)'
        PROVE  stream[row[j]] <= excused'[row[j]]
    <3>1. Waiting(j) /\ row[j] \in Events
      BY <1>2, <2>2 DEF Waiting, TypeOK
    <3>2. CASE j \in relay[r].marked
      BY <1>3, <3>1, <3>2 DEF CopiesExplained
    <3>3. CASE j \notin relay[r].marked
      <4>1. ~Marked(j)
        BY <1>1, <2>2, <3>3 DEF Marked
      <4>2. stream[row[j]] <= excused[row[j]]
        BY <3>1, <4>1 DEF CopiesExplained
      <4> QED
        BY <1>3, <3>1, <4>2
    <3> QED
      BY <3>2, <3>3
  <2> QED
    BY <1>2, <2>1, <2>2 DEF CopiesExplained
<1> QED
  BY <1>4, <1>5, <1>6, <1>7

\* The replayed row takes over from the dead letter, under a fresh id.
LEMMA InvReplayDlqRow ==
    ASSUME IInv, TypeOK', NEW i \in Ids, NEW new \in ReplayIds,
           ReplayDlqRow(i, new)
    PROVE  IInv'
<1> USE DEF IInv
<1>1. /\ new \in Ids /\ new \notin Events
      /\ row[new] = NoEvent /\ ~published[new]
      /\ dlq[new] = 0 /\ replayed[new] = 0
  <2>1. new \in Ids /\ new \notin Events /\ row[new] = NoEvent
    BY OutboxAssumption DEF Ids, ReplayDlqRow
  <2>2. ~published[new]
    BY <2>1 DEF DeadLettersSound
  <2> QED
    BY <2>1, <2>2, UnpublishedRow
<1>2. /\ dlq[i] = 1 /\ replayed[i] = 0
      /\ published[i] /\ row[i] # NoEvent /\ i # new
      /\ row[i] \in Events
      /\ Waiting(i) /\ ~Marked(i)
  <2>1. dlq[i] \in Nat /\ replayed[i] \in Nat /\ dlq[i] > 0
    BY DEF TypeOK, ReplayDlqRow
  <2>2. dlq[i] + replayed[i] <= 1
    BY DEF DeadLettersSound
  <2>3. dlq[i] + replayed[i] > 0
    BY <2>1
  <2>4. published[i] /\ row[i] # NoEvent
    BY <2>3 DEF DeadLettersSound
  <2>5. ~Marked(i)
    BY <2>4 DEF LocksSound, Marked
  <2>6. dlq[i] = 1 /\ replayed[i] = 0
    BY <2>1, <2>2
  <2>7. row[i] \in Events
    BY <2>4 DEF TypeOK
  <2> QED
    BY <1>1, <2>1, <2>4, <2>5, <2>6, <2>7 DEF Waiting
<1>3. /\ row'[new] = row[i]
      /\ \A j \in Ids : j # new => row'[j] = row[j]
      /\ dlq'[i] = 0 /\ replayed'[i] = 1
      /\ \A j \in Ids : j # i => dlq'[j] = dlq[j] /\ replayed'[j] = replayed[j]
  BY <1>1, <1>2 DEF ReplayDlqRow, TypeOK
<1>4. UNCHANGED <<tx, published, relay, stream, excused>>
  BY DEF ReplayDlqRow
<1>5. \A r \in Relays : \A j \in relay[r].claimed : j \in Ids /\ j # new
  BY <1>1 DEF LocksSound, TypeOK, RelayState
<1>6. RowsCommitted'
  <2>1. \A j \in Ids : row'[j] # NoEvent => tx[row'[j]] = "committed"
    BY <1>2, <1>3 DEF RowsCommitted
  <2>2. \A e \in Events : e \in Ids /\ row'[e] = row[e]
    BY <1>1, <1>3 DEF Ids
  <2> QED
    BY <1>4, <2>1, <2>2 DEF RowsCommitted
<1>7. LocksSound'
  BY <1>3, <1>4, <1>5 DEF LocksSound
<1>8. DeadLettersSound'
  <2> SUFFICES ASSUME NEW j \in Ids
               PROVE  /\ dlq'[j] + replayed'[j] <= 1
                      /\ dlq'[j] + replayed'[j] > 0 => published[j]
                      /\ published[j] => row'[j] # NoEvent
    BY <1>4 DEF DeadLettersSound
  <2>1. CASE j = i
    BY <1>2, <1>3, <2>1
  <2>2. CASE j # i
    <3>1. published[j] => row'[j] # NoEvent
      BY <1>1, <1>3, <2>2 DEF DeadLettersSound
    <3> QED
      BY <1>3, <2>2, <3>1 DEF DeadLettersSound
  <2> QED
    BY <2>1, <2>2
<1>9. ~Waiting(i)' /\ \A j \in Ids : j # new => (Waiting(j)' <=> Waiting(j) /\ j # i)
  <2>1. ~Waiting(i)'
    BY <1>2, <1>3, <1>4 DEF Waiting
  <2>2. \A j \in Ids : j # new /\ j # i => (Waiting(j)' <=> Waiting(j))
    BY <1>3, <1>4 DEF Waiting
  <2> QED
    BY <2>1, <2>2
<1>10. OneWaiting'
  <2>1. ASSUME NEW j \in Ids, NEW k \in Ids, Waiting(j)', Waiting(k)',
               row'[j] = row'[k], j # new
        PROVE  j = k
    <3>1. Waiting(j) /\ j # i /\ row'[j] = row[j]
      BY <1>3, <1>9, <2>1
    <3>2. CASE k = new
      BY <1>2, <1>3, <2>1, <3>1, <3>2 DEF OneWaiting
    <3>3. CASE k # new
      BY <1>3, <1>9, <2>1, <3>1, <3>3 DEF OneWaiting
    <3> QED
      BY <3>2, <3>3
  <2> QED
    BY <2>1 DEF OneWaiting
<1>11. MarkedStored'
  <2>1. \A r \in Relays : \A j \in relay[r].marked : row'[j] = row[j]
    BY <1>3, <1>5 DEF LocksSound
  <2> QED
    BY <1>4, <2>1 DEF MarkedStored
<1>12. StreamCommitted'
  BY <1>4 DEF StreamCommitted
<1>13. CopiesExplained'
  <2>1. ASSUME NEW j \in Ids, Waiting(j)', ~Marked(j)'
        PROVE  stream[row'[j]] <= excused[row'[j]]
    <3>1. CASE j = new
      BY <1>2, <1>3, <3>1 DEF CopiesExplained
    <3>2. CASE j # new
      BY <1>3, <1>4, <1>9, <2>1, <3>2 DEF CopiesExplained, Marked
    <3> QED
      BY <3>1, <3>2
  <2> QED
    BY <1>4, <2>1 DEF CopiesExplained
<1>14. NoLostEvent'
  <2> SUFFICES ASSUME NEW e \in Events, tx[e] = "committed", ~(stream[e] > 0)
               PROVE  \E j \in Ids : row'[j] = e /\ (~published[j] \/ dlq'[j] > 0)
    BY <1>4 DEF NoLostEvent
  <2>1. PICK j \in Ids : row[j] = e /\ (~published[j] \/ dlq[j] > 0)
    BY DEF NoLostEvent
  <2>2. j # new
    BY <1>1, <2>1, OutboxAssumption
  <2>3. CASE j = i
    BY <1>1, <1>3, <2>1, <2>3
  <2>4. CASE j # i
    BY <1>3, <2>1, <2>2, <2>4
  <2> QED
    BY <2>3, <2>4
<1> QED
  BY <1>4, <1>6, <1>7, <1>8, <1>10, <1>11, <1>12, <1>13, <1>14

\* Every step keeps the inductive invariant: one lemma per action.
LEMMA InvStep == IInv /\ [Next]_vars => IInv'
<1> SUFFICES ASSUME IInv, [Next]_vars PROVE IInv'
  OBVIOUS
<1>1. TypeOK'
  BY TypeStep DEF IInv
<1>2. CASE UNCHANGED vars
  BY <1>2 DEF vars, IInv, TypeOK, RowsCommitted, LocksSound, DeadLettersSound,
              OneWaiting, Waiting, MarkedStored, StreamCommitted,
              CopiesExplained, Marked, NoLostEvent
<1>3. CASE Next
  BY <1>1, <1>3, InvBeginWrite, InvInsertEvent, InvRollbackWrite, InvClaim,
     InvPublishOk, InvPublishErr, InvCommitBatch, InvAbortBatch,
     InvReplayDlqRow
     DEF Next, RelayStep
<1> QED
  BY <1>2, <1>3

\* The relay's inductive invariant: row locks are exclusive, an open batch
\* decides only rows it has locked, and each event's copies, dead letters and
\* rows are accounted for, between any two steps of writers and relays.
THEOREM Invariant == Spec => []IInv
<1>1. Init => IInv
  BY InvInit
<1>2. IInv /\ [Next]_vars => IInv'
  BY InvStep
<1> QED
  BY <1>1, <1>2, PTL DEF Spec

-----------------------------------------------------------------------------
(* What the invariant gives *)

\* No committed domain event is lost, whatever crashes, failures and replays.
THEOREM NoLost == Spec => []NoLostEvent
<1>1. IInv => NoLostEvent
  BY DEF IInv
<1> QED
  BY <1>1, Invariant, PTL

\* Every stored copy beyond the first has a lost ack or a rollback behind it.
THEOREM Duplicates == Spec => []DuplicatesExplained
<1>1. IInv => DuplicatesExplained
  BY DEF IInv, CopiesExplained, DuplicatesExplained
<1> QED
  BY <1>1, Invariant, PTL

\* No sequence of publishes, dead letters and replays forks an event.
THEOREM NoFork == Spec => []NoForkedEvent
<1>1. IInv => NoForkedEvent
  <2> SUFFICES ASSUME IInv, NEW e \in Events, NEW i \in Ids, NEW j \in Ids,
                      row[i] = e /\ (~published[i] \/ dlq[i] > 0),
                      row[j] = e /\ (~published[j] \/ dlq[j] > 0)
               PROVE  i = j /\ dlq[i] <= 1
    BY DEF NoForkedEvent
  <2>1. i = j
    BY OutboxAssumption DEF IInv, OneWaiting, Waiting
  <2>2. dlq[i] \in Nat /\ replayed[i] \in Nat /\ dlq[i] + replayed[i] <= 1
    BY DEF IInv, TypeOK, DeadLettersSound
  <2> QED
    BY <2>1, <2>2
<1> QED
  BY <1>1, Invariant, PTL

-----------------------------------------------------------------------------
(* Refinement *)

\* The refinement mapping, event by event, before and after a step.
LEMMA StatusValue ==
    ASSUME NEW e \in Events
    PROVE  DeliveryStatus[e] = Status(e) /\ DeliveryStatus'[e] = Status(e)'
BY DEF DeliveryStatus

\* A step that changes no event's status stutters.
LEMMA SameStatus ==
    ASSUME \A e \in Events : Status(e)' = Status(e)
    PROVE  DeliveryStatus' = DeliveryStatus
BY DEF DeliveryStatus

\* A copy of e reaches the stream: its first delivery, or nothing new.
LEMMA StoreMaps ==
    ASSUME IInv, NEW r \in Relays, NEW i \in Ids, IsCurrent(r, i),
           NEW n \in Nat,
           stream' = [stream EXCEPT ![row[i]] = @ + n],
           UNCHANGED <<tx, row, dlq>>
    PROVE  [Abstract!Next]_DeliveryStatus
<1> DEFINE e == row[i]
<1>1. e \in Events /\ Waiting(i) /\ ~published[i]
  BY CurrentRow
<1>2. /\ stream'[e] = stream[e] + n
      /\ \A f \in Events : f # e => stream'[f] = stream[f]
      /\ stream[e] \in Nat
  BY <1>1 DEF IInv, TypeOK
<1>3. \A f \in Events : f # e => Status(f)' = Status(f)
  BY <1>2 DEF Status
<1>4. CASE stream[e] > 0 \/ n = 0
  <2>1. Status(e)' = Status(e)
    BY <1>2, <1>4 DEF Status
  <2> QED
    BY <1>3, <2>1, SameStatus
<1>5. CASE stream[e] = 0 /\ n > 0
  <2>1. tx[e] = "committed"
    BY <1>1 DEF IInv, RowsCommitted, Waiting
  <2>2. dlq[i] = 0
    BY <1>1, UnpublishedRow
  <2>3. ~ \E j \in Ids : row[j] = e /\ dlq[j] > 0
    BY <1>1, <2>2, OutboxAssumption DEF IInv, OneWaiting, Waiting
  <2>4. Status(e) = "pending" /\ Status(e)' = "delivered"
    BY <1>2, <1>5, <2>1, <2>3 DEF Status
  <2>5. Abstract!Deliver(e)
    BY <1>1, <1>3, <2>4 DEF Abstract!Deliver, DeliveryStatus
  <2> QED
    BY <1>1, <2>5 DEF Abstract!Next
<1> QED
  BY <1>2, <1>4, <1>5

\* The commit of a domain transaction is the abstract commit of its event.
LEMMA InsertMaps ==
    ASSUME IInv, NEW e \in Events, InsertEvent(e)
    PROVE  Abstract!Commit(e)
<1>1. /\ e \in Ids
      /\ row[e] = NoEvent /\ row'[e] = e
      /\ \A i \in Ids : i # e => row'[i] = row[i]
      /\ \A i \in Ids : row[i] # e
      /\ tx[e] # "committed" /\ tx'[e] = "committed"
      /\ \A f \in Events : f # e => tx'[f] = tx[f]
      /\ stream[e] = 0 /\ ~published[e]
  <2>1. /\ e \in Ids
        /\ tx[e] # "committed" /\ tx'[e] = "committed"
        /\ \A f \in Events : f # e => tx'[f] = tx[f]
    BY DEF IInv, InsertEvent, TypeOK, Ids
  <2>2. row'[e] = e /\ \A i \in Ids : i # e => row'[i] = row[i]
    BY <2>1 DEF IInv, InsertEvent, TypeOK
  <2>3. row[e] = NoEvent /\ \A i \in Ids : row[i] # e
    BY <2>1, OutboxAssumption DEF IInv, RowsCommitted
  <2>4. stream[e] = 0 /\ ~published[e]
    BY <2>1, <2>3 DEF IInv, StreamCommitted, DeadLettersSound
  <2> QED
    BY <2>1, <2>2, <2>3, <2>4
<1>2. UNCHANGED <<stream, dlq>>
  BY DEF InsertEvent
<1>3. dlq[e] = 0
  BY <1>1, UnpublishedRow
<1>4. Status(e) = "none" /\ Status(e)' = "pending"
  BY <1>1, <1>2, <1>3 DEF Status
<1>5. ASSUME NEW f \in Events, f # e PROVE Status(f)' = Status(f)
  <2>1. \A i \in Ids : row'[i] = f <=> row[i] = f
    BY <1>1, <1>5, OutboxAssumption
  <2> QED
    BY <1>1, <1>2, <1>5, <2>1 DEF Status
<1> QED
  BY <1>4, <1>5 DEF Abstract!Commit, DeliveryStatus

\* The batch parks the events of its dead letters that have no stored copy.
LEMMA CommitMaps ==
    ASSUME IInv, NEW r \in Relays, CommitBatch(r)
    PROVE  [Abstract!Next]_DeliveryStatus
<1> DEFINE D == relay[r].dead
           S == {e \in Events : stream[e] = 0 /\ \E i \in D : row[i] = e}
<1>1. /\ \A i \in D : i \in Ids /\ ~published[i] /\ row[i] # NoEvent /\ dlq[i] = 0
      /\ \A i \in Ids : dlq'[i] = IF i \in D THEN dlq[i] + 1 ELSE dlq[i]
      /\ UNCHANGED <<tx, row, stream>>
  <2>1. \A i \in D : i \in Ids /\ ~published[i] /\ row[i] # NoEvent
    BY DEF IInv, TypeOK, RelayState, LocksSound
  <2> QED
    BY <2>1, UnpublishedRow DEF CommitBatch
<1> HIDE DEF D
<1>2. ASSUME NEW e \in S
      PROVE  Status(e) = "pending" /\ Status(e)' = "parked"
  <2>1. PICK i \in D : row[i] = e
    OBVIOUS
  <2>2. e \in Events /\ stream[e] = 0 /\ tx[e] = "committed"
    BY <1>1, <2>1 DEF IInv, RowsCommitted
  <2>3. ~ \E j \in Ids : row[j] = e /\ dlq[j] > 0
    BY <1>1, <2>1, <2>2, OutboxAssumption DEF IInv, OneWaiting, Waiting
  <2>4. i \in Ids /\ row[i] = e /\ dlq'[i] > 0
    BY <1>1, <2>1
  <2> QED
    BY <1>1, <2>2, <2>3, <2>4 DEF Status
<1>3. ASSUME NEW e \in Events, e \notin S
      PROVE  Status(e)' = Status(e)
  <2>1. stream[e] \in Nat
    BY DEF IInv, TypeOK
  <2>2. CASE stream[e] > 0
    BY <1>1, <2>2 DEF Status
  <2>3. CASE stream[e] = 0
    <3>1. \A i \in Ids : row[i] = e => dlq'[i] = dlq[i]
      BY <1>1, <1>3, <2>3
    <3> QED
      BY <1>1, <2>3, <3>1 DEF Status
  <2> QED
    BY <2>1, <2>2, <2>3
<1> HIDE DEF S
<1>4. CASE S = {}
  BY <1>3, <1>4, SameStatus
<1>5. CASE S # {}
  <2>1. S \subseteq Events
    BY DEF S
  <2>2. Abstract!Park(S)
    BY <1>2, <1>3, <1>5, <2>1 DEF Abstract!Park, DeliveryStatus
  <2> QED
    BY <2>1, <2>2 DEF Abstract!Next
<1> QED
  BY <1>4, <1>5

\* A replay un-parks an event that has no stored copy, or changes nothing.
LEMMA ReplayMaps ==
    ASSUME IInv, NEW i \in Ids, NEW new \in ReplayIds, ReplayDlqRow(i, new)
    PROVE  [Abstract!Next]_DeliveryStatus
<1>1. dlq[i] \in Nat /\ replayed[i] \in Nat /\ dlq[i] > 0 /\ dlq[i] + replayed[i] <= 1
  BY DEF IInv, TypeOK, DeadLettersSound, ReplayDlqRow
<1>2. published[i] /\ row[i] # NoEvent
  <2>1. dlq[i] + replayed[i] > 0
    BY <1>1
  <2> QED
    BY <2>1 DEF IInv, DeadLettersSound
<1>3. PICK e \in Events : e = row[i] /\ tx[e] = "committed"
  BY <1>2 DEF IInv, TypeOK, RowsCommitted
<1>4. new \in Ids /\ row[new] = NoEvent /\ ~published[new]
  BY DEF ReplayDlqRow, Ids, IInv, DeadLettersSound
<1>5. dlq[new] = 0
  BY <1>4, UnpublishedRow
<1>6. /\ row'[new] = e
      /\ \A j \in Ids : j # new => row'[j] = row[j]
      /\ dlq'[i] = 0 /\ \A j \in Ids : j # i => dlq'[j] = dlq[j]
      /\ UNCHANGED <<tx, stream>>
  BY <1>1, <1>3, <1>4 DEF ReplayDlqRow, IInv, TypeOK
<1>7. \A f \in Events : f # e => Status(f)' = Status(f)
  <2> SUFFICES ASSUME NEW f \in Events, f # e PROVE Status(f)' = Status(f)
    OBVIOUS
  <2>1. \A j \in Ids : (row'[j] = f /\ dlq'[j] > 0) <=> (row[j] = f /\ dlq[j] > 0)
    BY <1>2, <1>3, <1>4, <1>5, <1>6, OutboxAssumption
  <2> QED
    BY <1>6, <2>1 DEF Status
<1>8. CASE stream[e] > 0
  <2>1. Status(e)' = Status(e)
    BY <1>6, <1>8 DEF Status
  <2> QED
    BY <1>7, <2>1, SameStatus
<1>9. CASE ~(stream[e] > 0)
  <2>1. Status(e) = "parked"
    BY <1>1, <1>3, <1>9 DEF Status
  <2>2. ~ \E j \in Ids : row'[j] = e /\ dlq'[j] > 0
    <3> SUFFICES ASSUME NEW j \in Ids, row'[j] = e, dlq'[j] > 0 PROVE FALSE
      OBVIOUS
    <3>1. j # i
      BY <1>6
    <3>2. j # new
      BY <1>4, <1>5, <1>6, <3>1
    <3> QED
      BY <1>1, <1>2, <1>3, <1>6, <3>1, <3>2 DEF IInv, OneWaiting, Waiting
  <2>3. Status(e)' = "pending"
    BY <1>3, <1>6, <1>9, <2>2 DEF Status
  <2>4. Abstract!Replay(e)
    BY <1>3, <1>7, <2>1, <2>3 DEF Abstract!Replay, DeliveryStatus
  <2> QED
    BY <1>3, <2>4 DEF Abstract!Next
<1> QED
  BY <1>8, <1>9

\* Every step of the outbox is a step of the contract, or a stutter.
LEMMA StepMaps == IInv /\ [Next]_vars => [Abstract!Next]_DeliveryStatus
<1> SUFFICES ASSUME IInv, [Next]_vars PROVE [Abstract!Next]_DeliveryStatus
  OBVIOUS
<1>1. ASSUME NEW e \in Events, BeginWrite(e) \/ RollbackWrite(e)
      PROVE  DeliveryStatus' = DeliveryStatus
  <2>1. /\ tx[e] # "committed" /\ tx'[e] # "committed"
        /\ \A f \in Events : f # e => tx'[f] = tx[f]
        /\ UNCHANGED <<row, dlq, stream>>
    BY <1>1 DEF BeginWrite, RollbackWrite, IInv, TypeOK
  <2> QED
    BY <2>1, SameStatus DEF Status
<1>2. ASSUME NEW e \in Events, InsertEvent(e)
      PROVE  Abstract!Next
  BY <1>2, InsertMaps DEF Abstract!Next
<1>3. ASSUME NEW r \in Relays, Claim(r) \/ AbortBatch(r)
      PROVE  DeliveryStatus' = DeliveryStatus
  BY <1>3, SameStatus DEF Claim, AbortBatch, Status
<1>4. ASSUME NEW r \in Relays, NEW i \in Ids, PublishOk(r, i)
      PROVE  [Abstract!Next]_DeliveryStatus
  BY <1>4, StoreMaps DEF PublishOk
<1>5. ASSUME NEW r \in Relays, NEW i \in Ids, NEW stored \in {0, 1},
             PublishErr(r, i, stored)
      PROVE  [Abstract!Next]_DeliveryStatus
  BY <1>5, StoreMaps DEF PublishErr
<1>6. ASSUME NEW r \in Relays, CommitBatch(r)
      PROVE  [Abstract!Next]_DeliveryStatus
  BY <1>6, CommitMaps
<1>7. ASSUME NEW i \in Ids, NEW new \in ReplayIds, ReplayDlqRow(i, new)
      PROVE  [Abstract!Next]_DeliveryStatus
  BY <1>7, ReplayMaps
<1>8. CASE UNCHANGED vars
  BY <1>8, SameStatus DEF vars, Status
<1> QED
  BY <1>1, <1>2, <1>3, <1>4, <1>5, <1>6, <1>7, <1>8 DEF Next, RelayStep

\* The outbox with its relays and its replays, for every number of each,
\* implements the delivery contract EventDelivery.
THEOREM Refinement == Spec => ImplementsEventDelivery
<1>1. Init => Abstract!Init
  BY DEF Init, Abstract!Init, DeliveryStatus, Status
<1>2. IInv /\ [Next]_vars => [Abstract!Next]_DeliveryStatus
  BY StepMaps
<1> QED
  BY <1>1, <1>2, Invariant, PTL DEF Spec, ImplementsEventDelivery, Abstract!Spec

=============================================================================
