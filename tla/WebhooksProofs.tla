--------------------------- MODULE WebhooksProofs ---------------------------
(***************************************************************************)
(* Theorems about Webhooks for every set of endpoints, events and          *)
(* subscriptions, every finite set of dispatchers and every limit: types,  *)
(* explained POSTs, the auto-pause threshold, and disabled endpoints.      *)
(***************************************************************************)
EXTENDS Webhooks, FiniteSetTheorems, TLAPS

(* The parts of the inductive invariant. *)

\* Only a replay counts an attempt above MAX_ATTEMPTS.
AttemptsBounded == \A d \in Deliveries : attempt[d] <= MaxAttempts + admin

\* A claim carries the failure_count of an endpoint that was active.
ClaimsBelowThreshold ==
    \A w \in Dispatchers : \A c \in batch[w] : c.failures < PauseFailures

\* An endpoint that is active, or can be created active, is below the threshold.
EndpointsBelowThreshold ==
    \A e \in Endpoints : ep[e] \in {"absent", "active"} => failures[e] < PauseFailures

\* A dispatcher claims a delivery once in a batch.
OneClaimPerDelivery ==
    \A w \in Dispatchers : \A b, c \in batch[w] : b.d = c.d => b = c

\* The dispatchers that may still POST a delivery.
Posters(d) == {w \in Dispatchers : \E c \in batch[w] : c.d = d /\ c.result = "none"}

\* A lease that ran out and was not taken up yet allows one more.
Spare(d) == IF row[d] = "delivering" /\ due[d] THEN 1 ELSE 0

\* Every POST, sent or to come, is covered by an attempt or by an expired lease.
PostsCovered ==
    \A d \in Deliveries :
        posts[d] + Cardinality(Posters(d)) + Spare(d) <= attempt[d] + expiries[d]

IInv ==
    /\ TypeOK
    /\ AttemptsBounded
    /\ ClaimsBelowThreshold
    /\ EndpointsBelowThreshold
    /\ OneClaimPerDelivery
    /\ PostsCovered


-----------------------------------------------------------------------------
(* Counting dispatchers *)

\* The Posters of a delivery can be counted, and a subset has no more.
LEMMA CountPosters ==
    ASSUME NEW S \in SUBSET Dispatchers
    PROVE  /\ IsFiniteSet(S)
           /\ Cardinality(S) \in Nat
           /\ \A T \in SUBSET S : Cardinality(T) \in Nat /\ Cardinality(T) <= Cardinality(S)
           /\ \A w : Cardinality(S \cup {w}) <= Cardinality(S) + 1
           /\ \A w \in S : Cardinality(S \ {w}) = Cardinality(S) - 1
  <1>1. IsFiniteSet(S)
    BY FS_Subset, WebhooksAssumption
  <1>2. Cardinality(S) \in Nat
    BY <1>1, FS_CardinalityType
  <1>3. \A T \in SUBSET S : Cardinality(T) \in Nat /\ Cardinality(T) <= Cardinality(S)
    BY <1>1, FS_Subset, FS_CardinalityType
  <1>4. ASSUME NEW w PROVE Cardinality(S \cup {w}) <= Cardinality(S) + 1
    <2>1. Cardinality(S \cup {w}) = IF w \in S THEN Cardinality(S) ELSE Cardinality(S) + 1
      BY <1>1, FS_AddElement
    <2>q. QED  BY <1>2, <2>1
  <1>5. \A w \in S : Cardinality(S \ {w}) = Cardinality(S) - 1
    BY <1>1, FS_RemoveElement
  <1>q. QED  BY <1>1, <1>2, <1>3, <1>4, <1>5

\* The terms of PostsCovered are numbers.
LEMMA PostsTypes ==
    ASSUME TypeOK, NEW d \in Deliveries
    PROVE  /\ posts[d] \in Nat /\ attempt[d] \in Nat /\ expiries[d] \in Nat
           /\ Posters(d) \in SUBSET Dispatchers
           /\ Cardinality(Posters(d)) \in Nat
           /\ Spare(d) \in {0, 1}
  <1>1. Posters(d) \in SUBSET Dispatchers
    BY DEF Posters
  <1>q. QED  BY <1>1, CountPosters DEF TypeOK, Spare

\* The same after a step.
LEMMA PostsTypesNext ==
    ASSUME TypeOK', NEW d \in Deliveries
    PROVE  /\ posts'[d] \in Nat /\ attempt'[d] \in Nat /\ expiries'[d] \in Nat
           /\ Posters(d)' \in SUBSET Dispatchers
           /\ Cardinality(Posters(d)') \in Nat
           /\ Spare(d)' \in {0, 1}
  <1>1. Posters(d)' \in SUBSET Dispatchers
    BY DEF Posters
  <1>q. QED  BY <1>1, CountPosters DEF TypeOK, Spare

\* Setting the outcome of a claim replaces it by one that differs in that only.
LEMMA OutcomeSet ==
    ASSUME TypeOK, NEW w \in Dispatchers, NEW c \in batch[w],
           NEW outcome \in {"ok", "fail", "ssrf"}, SetResult(w, c, outcome)
    PROVE  \E b \in Claimed :
              /\ b.d = c.d
              /\ b.failures = c.failures
              /\ b.result = outcome
              /\ batch' = [batch EXCEPT ![w] = (@ \ {c}) \cup {b}]
  <1> DEFINE b == [c EXCEPT !.result = outcome]
  <1>1. c \in Claimed
    BY DEF TypeOK
  <1>2. b \in Claimed /\ b.d = c.d /\ b.failures = c.failures /\ b.result = outcome
    BY <1>1 DEF Claimed
  <1>3. batch' = [batch EXCEPT ![w] = (@ \ {c}) \cup {b}]
    BY DEF SetResult
  <1> HIDE DEF b
  <1>q. QED  BY <1>2, <1>3

-----------------------------------------------------------------------------
(* Steps *)

\* Publish keeps the invariant.
LEMMA PublishStep ==
    ASSUME IInv, NEW v \in Events, Publish(v)
    PROVE  IInv'
  <1>1. TypeOK'
    BY DEF IInv, TypeOK, Publish, table, history
  <1>2. /\ AttemptsBounded'
        /\ ClaimsBelowThreshold'
        /\ EndpointsBelowThreshold'
        /\ OneClaimPerDelivery'
    BY DEF IInv, AttemptsBounded, ClaimsBelowThreshold, EndpointsBelowThreshold,
       OneClaimPerDelivery, Publish, table
  <1>3. PostsCovered'
    BY DEF IInv, PostsCovered, Posters, Spare, Publish, table, history
  <1>q. QED  BY <1>1, <1>2, <1>3 DEF IInv

\* EnqueueEvent keeps the invariant.
LEMMA EnqueueEventStep ==
    ASSUME IInv, NEW v \in Events, NEW acked \in BOOLEAN, EnqueueEvent(v, acked)
    PROVE  IInv'
  <1>1. TypeOK'
    <2>1. TypeOK
      BY DEF IInv
    <2>2. row' \in [Deliveries -> {"none", "pending", "delivering", "delivered", "failed", "dead"}]
      BY <2>1 DEF TypeOK, EnqueueEvent
    <2>3. created_at' \in [Deliveries -> Nat] /\ clock' \in Nat
      BY <2>1 DEF TypeOK, EnqueueEvent
    <2>4. due' \in [Deliveries -> BOOLEAN]
      BY <2>1, Zenon DEF TypeOK, EnqueueEvent
    <2>5. msg' \in [Events -> {"none", "queued", "acked"}] /\ faults' \in 0..MaxFaults
      BY <2>1, WebhooksAssumption DEF TypeOK, EnqueueEvent
    <2>q. QED  BY <2>1, <2>2, <2>3, <2>4, <2>5 DEF TypeOK, EnqueueEvent, history
  <1>2. /\ AttemptsBounded'
        /\ ClaimsBelowThreshold'
        /\ EndpointsBelowThreshold'
        /\ OneClaimPerDelivery'
    BY DEF IInv, AttemptsBounded, ClaimsBelowThreshold, EndpointsBelowThreshold,
       OneClaimPerDelivery, EnqueueEvent
  <1>3. PostsCovered'
    <2>1. SUFFICES ASSUME NEW f \in Deliveries
                   PROVE  (posts[f] + Cardinality(Posters(f)) + Spare(f) <= attempt[f] + expiries[f])'
      BY DEF PostsCovered
    <2>2. posts[f] + Cardinality(Posters(f)) + Spare(f) <= attempt[f] + expiries[f]
      BY DEF IInv, PostsCovered
    <2>3. TypeOK /\ TypeOK'
      BY <1>1 DEF IInv
    <2>4. Posters(f)' = Posters(f)
      BY DEF EnqueueEvent, Posters
    <2>5. Spare(f)' <= Spare(f) /\ UNCHANGED <<posts[f], attempt[f], expiries[f]>>
      BY DEF EnqueueEvent, Spare, history
    <2>q. QED  BY <2>2, <2>3, <2>4, <2>5, PostsTypes, PostsTypesNext
  <1>q. QED  BY <1>1, <1>2, <1>3 DEF IInv

\* Claim keeps the invariant.
LEMMA ClaimStep ==
    ASSUME IInv, NEW w \in Dispatchers, Claim(w)
    PROVE  IInv'
  <1>1. TypeOK'
    <2>1. TypeOK
      BY DEF IInv
    <2>2. PICK S \in SUBSET {d \in Deliveries : Claimable(d)} :
            /\ row' = [d \in Deliveries |-> IF d \in S THEN "delivering" ELSE row[d]]
            /\ attempt' = [d \in Deliveries |-> IF d \in S THEN NextAttempt(d) ELSE attempt[d]]
            /\ due' = [d \in Deliveries |-> IF d \in S THEN FALSE ELSE due[d]]
            /\ batch' = [batch EXCEPT ![w] =
                            {[d |-> d, attempt |-> NextAttempt(d),
                              failures |-> failures[d[1]], result |-> "none"] : d \in S}]
      BY DEF Claim
    <2>3. row' \in [Deliveries -> {"none", "pending", "delivering", "delivered", "failed", "dead"}]
      BY <2>1, <2>2 DEF TypeOK
    <2>4. \A d \in S : NextAttempt(d) \in 0..(MaxAttempts + MaxAdmin) /\ failures[d[1]] \in Nat
      BY <2>1, WebhooksAssumption DEF TypeOK, NextAttempt, Claimable, Deliveries
    <2>5. attempt' \in [Deliveries -> 0..(MaxAttempts + MaxAdmin)]
      BY <2>1, <2>2, <2>4 DEF TypeOK
    <2>6. due' \in [Deliveries -> BOOLEAN]
      BY <2>1, <2>2, Zenon DEF TypeOK
    <2>7. batch' \in [Dispatchers -> SUBSET Claimed]
      <3>1. \A d \in S : [d |-> d, attempt |-> NextAttempt(d),
                          failures |-> failures[d[1]], result |-> "none"] \in Claimed
        BY <2>4 DEF Claimed
      <3>q. QED  BY <2>1, <2>2, <3>1 DEF TypeOK
    <2>q. QED  BY <2>1, <2>3, <2>5, <2>6, <2>7 DEF TypeOK, Claim, history
  <1>2. AttemptsBounded'
    BY WebhooksAssumption DEF IInv, TypeOK, AttemptsBounded, Claim, Claimable, NextAttempt
  <1>3. ClaimsBelowThreshold'
    BY DEF IInv, TypeOK, ClaimsBelowThreshold, Claim, Claimable, Deliveries,
       EndpointsBelowThreshold
  <1>4. OneClaimPerDelivery'
    BY DEF IInv, TypeOK, OneClaimPerDelivery, Claim
  <1>5. EndpointsBelowThreshold'
    BY DEF IInv, EndpointsBelowThreshold, Claim
  <1>6. PostsCovered'
    <2>1. SUFFICES ASSUME NEW f \in Deliveries
                   PROVE  (posts[f] + Cardinality(Posters(f)) + Spare(f) <= attempt[f] + expiries[f])'
      BY DEF PostsCovered
    <2>2. posts[f] + Cardinality(Posters(f)) + Spare(f) <= attempt[f] + expiries[f]
      BY DEF IInv, PostsCovered
    <2>3. TypeOK /\ TypeOK'
      BY <1>1 DEF IInv
    <2>4. PICK S \in SUBSET {d \in Deliveries : Claimable(d)} :
            /\ row' = [d \in Deliveries |-> IF d \in S THEN "delivering" ELSE row[d]]
            /\ attempt' = [d \in Deliveries |-> IF d \in S THEN NextAttempt(d) ELSE attempt[d]]
            /\ due' = [d \in Deliveries |-> IF d \in S THEN FALSE ELSE due[d]]
            /\ batch' = [batch EXCEPT ![w] =
                            {[d |-> d, attempt |-> NextAttempt(d),
                              failures |-> failures[d[1]], result |-> "none"] : d \in S}]
      BY DEF Claim
    <2>5. batch[w] = {} /\ UNCHANGED <<posts, expiries>>
      BY DEF Claim, history
    <2>6. CASE f \in S
      <3>1. Posters(f)' \subseteq Posters(f) \cup {w}
        BY <2>3, <2>4 DEF Posters, TypeOK
      <3>2. Posters(f) \cup {w} \in SUBSET Dispatchers
        BY DEF Posters
      <3>3. Cardinality(Posters(f)') <= Cardinality(Posters(f) \cup {w})
        BY <3>1, <3>2, CountPosters
      <3>4. Cardinality(Posters(f) \cup {w}) <= Cardinality(Posters(f)) + 1
        BY <2>3, PostsTypes, CountPosters
      <3>5. Cardinality(Posters(f) \cup {w}) \in Nat
        BY <3>2, CountPosters
      <3>6. Spare(f)' = 0
        BY <2>4, <2>6 DEF Spare
      <3>7. attempt'[f] = attempt[f] + 1 - Spare(f)
        BY <2>3, <2>4, <2>6 DEF TypeOK, NextAttempt, Claimable, Spare
      <3>q. QED
        BY <2>2, <2>3, <2>5, <3>3, <3>4, <3>5, <3>6, <3>7, PostsTypes, PostsTypesNext
    <2>7. CASE f \notin S
      <3>1. Posters(f)' \subseteq Posters(f)
        BY <2>3, <2>4, <2>7 DEF Posters, TypeOK
      <3>2. Cardinality(Posters(f)') <= Cardinality(Posters(f))
        BY <2>3, <3>1, PostsTypes, CountPosters
      <3>3. Spare(f)' = Spare(f) /\ attempt'[f] = attempt[f]
        BY <2>4, <2>7 DEF Spare
      <3>q. QED  BY <2>2, <2>3, <2>5, <3>2, <3>3, PostsTypes, PostsTypesNext
    <2>q. QED  BY <2>6, <2>7
  <1>q. QED  BY <1>1, <1>2, <1>3, <1>4, <1>5, <1>6 DEF IInv

\* ProcessOne keeps the invariant.
LEMMA ProcessOneStep ==
    ASSUME IInv, NEW w \in Dispatchers, NEW c \in batch[w],
           NEW outcome \in {"ok", "fail", "ssrf"}, NEW posted \in {0, 1},
           ProcessOne(w, c, outcome, posted)
    PROVE  IInv'
  <1>1. TypeOK'
    <2>1. TypeOK /\ c \in Claimed /\ c.d \in Deliveries
      BY DEF IInv, TypeOK, Claimed
    <2>2. batch' \in [Dispatchers -> SUBSET Claimed]
      <3>1. PICK b \in Claimed :
            /\ b.d = c.d /\ b.failures = c.failures
            /\ batch' = [batch EXCEPT ![w] = (@ \ {c}) \cup {b}]
        BY <2>1, OutcomeSet DEF ProcessOne
      <3>q. QED  BY <2>1, <3>1 DEF TypeOK
    <2>3. posts' \in [Deliveries -> Nat]
      BY <2>1 DEF TypeOK, ProcessOne
    <2>q. QED  BY <2>1, <2>2, <2>3 DEF TypeOK, ProcessOne, table
  <1>2. ClaimsBelowThreshold'
    <2>1. PICK b \in Claimed :
            /\ b.d = c.d /\ b.failures = c.failures
            /\ batch' = [batch EXCEPT ![w] = (@ \ {c}) \cup {b}]
      BY OutcomeSet DEF IInv, ProcessOne
    <2>q. QED  BY <2>1 DEF IInv, TypeOK, ClaimsBelowThreshold
  <1>3. OneClaimPerDelivery'
    <2>1. PICK b \in Claimed :
            /\ b.d = c.d /\ b.failures = c.failures
            /\ batch' = [batch EXCEPT ![w] = (@ \ {c}) \cup {b}]
      BY OutcomeSet DEF IInv, ProcessOne
    <2>q. QED  BY <2>1 DEF IInv, TypeOK, OneClaimPerDelivery
  <1>4. /\ AttemptsBounded'
        /\ EndpointsBelowThreshold'
    BY DEF IInv, AttemptsBounded, EndpointsBelowThreshold, ProcessOne, table
  <1>5. PostsCovered'
    <2>1. SUFFICES ASSUME NEW f \in Deliveries
                   PROVE  (posts[f] + Cardinality(Posters(f)) + Spare(f) <= attempt[f] + expiries[f])'
      BY DEF PostsCovered
    <2>2. posts[f] + Cardinality(Posters(f)) + Spare(f) <= attempt[f] + expiries[f]
      BY DEF IInv, PostsCovered
    <2>3. TypeOK /\ TypeOK'
      BY <1>1 DEF IInv
    <2>4. /\ batch' = [batch EXCEPT ![w] = (@ \ {c}) \cup {[c EXCEPT !.result = outcome]}]
          /\ posts' = [posts EXCEPT ![c.d] = @ + posted]
          /\ c.result = "none" /\ outcome # "none"
          /\ UNCHANGED <<attempt, expiries, row, due>>
      BY DEF ProcessOne, SetResult, table
    <2>5. Spare(f)' = Spare(f)
      BY <2>4 DEF Spare
    <2>6. CASE f = c.d
      <3>1. w \in Posters(f)
        BY <2>4, <2>6 DEF Posters
      <3>2. Posters(f)' \subseteq Posters(f) \ {w}
        BY <2>3, <2>4, <2>6 DEF IInv, OneClaimPerDelivery, Posters, TypeOK, Claimed
      <3>3. Posters(f) \ {w} \in SUBSET Dispatchers
        BY DEF Posters
      <3>4. Cardinality(Posters(f)') <= Cardinality(Posters(f) \ {w})
        BY <3>2, <3>3, CountPosters
      <3>5. Cardinality(Posters(f) \ {w}) = Cardinality(Posters(f)) - 1
        BY <2>3, <3>1, PostsTypes, CountPosters
      <3>6. posts'[f] = posts[f] + posted
        BY <2>3, <2>4, <2>6 DEF TypeOK
      <3>q. QED  BY <2>2, <2>3, <2>4, <2>5, <3>4, <3>5, <3>6, PostsTypes, PostsTypesNext
    <2>7. CASE f # c.d
      <3>1. Posters(f)' \subseteq Posters(f)
        BY <2>3, <2>4, <2>7 DEF Posters, TypeOK, Claimed
      <3>2. Cardinality(Posters(f)') <= Cardinality(Posters(f))
        BY <2>3, <3>1, PostsTypes, CountPosters
      <3>3. posts'[f] = posts[f]
        BY <2>3, <2>4, <2>7 DEF TypeOK
      <3>q. QED  BY <2>2, <2>3, <2>4, <2>5, <3>2, <3>3, PostsTypes, PostsTypesNext
    <2>q. QED  BY <2>6, <2>7
  <1>q. QED  BY <1>1, <1>2, <1>3, <1>4, <1>5 DEF IInv

\* MarkDelivered keeps the invariant.
LEMMA MarkDeliveredStep ==
    ASSUME IInv, NEW w \in Dispatchers, NEW c \in batch[w], MarkDelivered(w, c)
    PROVE  IInv'
  <1>1. TypeOK'
    BY WebhooksAssumption DEF IInv, TypeOK, MarkDelivered, Done, history, Claimed,
       Deliveries
  <1>2. ClaimsBelowThreshold'
    BY DEF IInv, TypeOK, ClaimsBelowThreshold, MarkDelivered, Done
  <1>3. EndpointsBelowThreshold'
    BY WebhooksAssumption DEF IInv, TypeOK, EndpointsBelowThreshold, MarkDelivered
  <1>4. OneClaimPerDelivery'
    BY DEF IInv, TypeOK, OneClaimPerDelivery, MarkDelivered, Done
  <1>5. AttemptsBounded'
    BY DEF IInv, AttemptsBounded, MarkDelivered
  <1>6. PostsCovered'
    <2>1. SUFFICES ASSUME NEW f \in Deliveries
                   PROVE  (posts[f] + Cardinality(Posters(f)) + Spare(f) <= attempt[f] + expiries[f])'
      BY DEF PostsCovered
    <2>2. posts[f] + Cardinality(Posters(f)) + Spare(f) <= attempt[f] + expiries[f]
      BY DEF IInv, PostsCovered
    <2>3. TypeOK /\ TypeOK'
      BY <1>1 DEF IInv
    <2>4. Posters(f)' \subseteq Posters(f)
      BY <2>3 DEF MarkDelivered, Done, Posters, TypeOK
    <2>5. Cardinality(Posters(f)') <= Cardinality(Posters(f))
      BY <2>3, <2>4, PostsTypes, CountPosters
    <2>6. Spare(f)' <= Spare(f) /\ UNCHANGED <<posts[f], attempt[f], expiries[f]>>
      BY <2>3 DEF MarkDelivered, history, Spare, TypeOK
    <2>q. QED  BY <2>2, <2>3, <2>5, <2>6, PostsTypes, PostsTypesNext
  <1>q. QED  BY <1>1, <1>2, <1>3, <1>4, <1>5, <1>6 DEF IInv

\* MarkFailed keeps the invariant.
LEMMA MarkFailedStep ==
    ASSUME IInv, NEW w \in Dispatchers, NEW c \in batch[w], MarkFailed(w, c)
    PROVE  IInv'
  <1>1. TypeOK'
    BY WebhooksAssumption DEF IInv, TypeOK, MarkFailed, Done, history, Claimed, Deliveries,
       ClaimsBelowThreshold
  <1>2. ClaimsBelowThreshold'
    BY DEF IInv, TypeOK, ClaimsBelowThreshold, MarkFailed, Done
  <1>3. EndpointsBelowThreshold'
    BY WebhooksAssumption DEF IInv, TypeOK, EndpointsBelowThreshold, MarkFailed, Claimed
  <1>4. OneClaimPerDelivery'
    BY DEF IInv, TypeOK, OneClaimPerDelivery, MarkFailed, Done
  <1>5. AttemptsBounded'
    BY DEF IInv, AttemptsBounded, MarkFailed
  <1>6. PostsCovered'
    <2>1. SUFFICES ASSUME NEW f \in Deliveries
                   PROVE  (posts[f] + Cardinality(Posters(f)) + Spare(f) <= attempt[f] + expiries[f])'
      BY DEF PostsCovered
    <2>2. posts[f] + Cardinality(Posters(f)) + Spare(f) <= attempt[f] + expiries[f]
      BY DEF IInv, PostsCovered
    <2>3. TypeOK /\ TypeOK'
      BY <1>1 DEF IInv
    <2>4. Posters(f)' \subseteq Posters(f)
      BY <2>3 DEF MarkFailed, Done, Posters, TypeOK
    <2>5. Cardinality(Posters(f)') <= Cardinality(Posters(f))
      BY <2>3, <2>4, PostsTypes, CountPosters
    <2>6. Spare(f)' <= Spare(f) /\ UNCHANGED <<posts[f], attempt[f], expiries[f]>>
      BY <2>3 DEF MarkFailed, history, Spare, TypeOK
    <2>q. QED  BY <2>2, <2>3, <2>5, <2>6, PostsTypes, PostsTypesNext
  <1>q. QED  BY <1>1, <1>2, <1>3, <1>4, <1>5, <1>6 DEF IInv

\* MarkError keeps the invariant.
LEMMA MarkErrorStep ==
    ASSUME IInv, NEW w \in Dispatchers, NEW c \in batch[w], MarkError(w, c)
    PROVE  IInv'
  <1>1. TypeOK'
    <2>1. TypeOK
      BY DEF IInv
    <2>2. CASE Done(w, c)
      BY <2>1, <2>2, WebhooksAssumption DEF TypeOK, MarkError, Done, table, history
    <2>3. CASE SetResult(w, c, "fail")
      <3>1. PICK b \in Claimed :
            /\ b.d = c.d /\ b.failures = c.failures
            /\ batch' = [batch EXCEPT ![w] = (@ \ {c}) \cup {b}]
        BY <2>1, <2>3, OutcomeSet
      <3>q. QED  BY <2>1, <3>1, WebhooksAssumption DEF TypeOK, MarkError, table, history
    <2>q. QED  BY <2>2, <2>3 DEF MarkError
  <1>2. ClaimsBelowThreshold'
    <2>1. CASE Done(w, c)
      BY <2>1 DEF IInv, TypeOK, ClaimsBelowThreshold, Done
    <2>2. CASE SetResult(w, c, "fail")
      <3>1. PICK b \in Claimed :
            /\ b.d = c.d /\ b.failures = c.failures
            /\ batch' = [batch EXCEPT ![w] = (@ \ {c}) \cup {b}]
        BY <2>2, OutcomeSet DEF IInv
      <3>q. QED  BY <3>1 DEF IInv, TypeOK, ClaimsBelowThreshold
    <2>q. QED  BY <2>1, <2>2 DEF MarkError
  <1>3. OneClaimPerDelivery'
    <2>1. CASE Done(w, c)
      BY <2>1 DEF IInv, TypeOK, OneClaimPerDelivery, Done
    <2>2. CASE SetResult(w, c, "fail")
      <3>1. PICK b \in Claimed :
            /\ b.d = c.d /\ b.failures = c.failures
            /\ batch' = [batch EXCEPT ![w] = (@ \ {c}) \cup {b}]
        BY <2>2, OutcomeSet DEF IInv
      <3>q. QED  BY <3>1 DEF IInv, TypeOK, OneClaimPerDelivery
    <2>q. QED  BY <2>1, <2>2 DEF MarkError
  <1>4. /\ AttemptsBounded'
        /\ EndpointsBelowThreshold'
    BY DEF IInv, AttemptsBounded, EndpointsBelowThreshold, MarkError, table
  <1>5. PostsCovered'
    <2>1. SUFFICES ASSUME NEW f \in Deliveries
                   PROVE  (posts[f] + Cardinality(Posters(f)) + Spare(f) <= attempt[f] + expiries[f])'
      BY DEF PostsCovered
    <2>2. posts[f] + Cardinality(Posters(f)) + Spare(f) <= attempt[f] + expiries[f]
      BY DEF IInv, PostsCovered
    <2>3. TypeOK /\ TypeOK'
      BY <1>1 DEF IInv
    <2>4. Posters(f)' \subseteq Posters(f)
      BY <2>3 DEF MarkError, SetResult, Done, Posters, TypeOK, Claimed
    <2>5. Cardinality(Posters(f)') <= Cardinality(Posters(f))
      BY <2>3, <2>4, PostsTypes, CountPosters
    <2>6. Spare(f)' <= Spare(f) /\ UNCHANGED <<posts[f], attempt[f], expiries[f]>>
      BY <2>3 DEF MarkError, table, history, Spare, TypeOK
    <2>q. QED  BY <2>2, <2>3, <2>5, <2>6, PostsTypes, PostsTypesNext
  <1>q. QED  BY <1>1, <1>2, <1>3, <1>4, <1>5 DEF IInv

\* Crash keeps the invariant.
LEMMA CrashStep ==
    ASSUME IInv, NEW w \in Dispatchers, Crash(w)
    PROVE  IInv'
  <1>1. TypeOK'
    BY WebhooksAssumption DEF IInv, TypeOK, Crash, table, history
  <1>2. ClaimsBelowThreshold'
    BY DEF IInv, TypeOK, ClaimsBelowThreshold, Crash
  <1>3. OneClaimPerDelivery'
    BY DEF IInv, TypeOK, OneClaimPerDelivery, Crash
  <1>4. /\ AttemptsBounded'
        /\ EndpointsBelowThreshold'
    BY DEF IInv, AttemptsBounded, EndpointsBelowThreshold, Crash, table
  <1>5. PostsCovered'
    <2>1. SUFFICES ASSUME NEW f \in Deliveries
                   PROVE  (posts[f] + Cardinality(Posters(f)) + Spare(f) <= attempt[f] + expiries[f])'
      BY DEF PostsCovered
    <2>2. posts[f] + Cardinality(Posters(f)) + Spare(f) <= attempt[f] + expiries[f]
      BY DEF IInv, PostsCovered
    <2>3. TypeOK /\ TypeOK'
      BY <1>1 DEF IInv
    <2>4. Posters(f)' \subseteq Posters(f)
      BY <2>3 DEF Crash, Posters, TypeOK
    <2>5. Cardinality(Posters(f)') <= Cardinality(Posters(f))
      BY <2>3, <2>4, PostsTypes, CountPosters
    <2>6. Spare(f)' <= Spare(f) /\ UNCHANGED <<posts[f], attempt[f], expiries[f]>>
      BY <2>3 DEF Crash, table, history, Spare, TypeOK
    <2>q. QED  BY <2>2, <2>3, <2>5, <2>6, PostsTypes, PostsTypesNext
  <1>q. QED  BY <1>1, <1>2, <1>3, <1>4, <1>5 DEF IInv

\* TimePasses keeps the invariant.
LEMMA TimePassesStep ==
    ASSUME IInv, NEW d \in Deliveries, TimePasses(d)
    PROVE  IInv'
  <1>1. TypeOK'
    BY DEF IInv, TypeOK, TimePasses
  <1>2. /\ AttemptsBounded'
        /\ ClaimsBelowThreshold'
        /\ EndpointsBelowThreshold'
        /\ OneClaimPerDelivery'
    BY DEF IInv, AttemptsBounded, ClaimsBelowThreshold, EndpointsBelowThreshold,
       OneClaimPerDelivery, TimePasses
  <1>3. PostsCovered'
    <2>1. SUFFICES ASSUME NEW f \in Deliveries
                   PROVE  (posts[f] + Cardinality(Posters(f)) + Spare(f) <= attempt[f] + expiries[f])'
      BY DEF PostsCovered
    <2>2. posts[f] + Cardinality(Posters(f)) + Spare(f) <= attempt[f] + expiries[f]
      BY DEF IInv, PostsCovered
    <2>3. TypeOK /\ TypeOK'
      BY <1>1 DEF IInv
    <2>4. Posters(f)' = Posters(f)
      BY DEF TimePasses, Posters
    <2>5. Spare(f)' + expiries[f] <= Spare(f) + expiries'[f]
      BY <2>3 DEF TimePasses, Spare, TypeOK
    <2>6. UNCHANGED <<posts[f], attempt[f]>>
      BY DEF TimePasses
    <2>q. QED  BY <2>2, <2>3, <2>4, <2>5, <2>6, PostsTypes, PostsTypesNext
  <1>q. QED  BY <1>1, <1>2, <1>3 DEF IInv

\* CreateEndpoint keeps the invariant.
LEMMA CreateEndpointStep ==
    ASSUME IInv, NEW e \in Endpoints, CreateEndpoint(e)
    PROVE  IInv'
  <1>1. TypeOK'
    BY DEF IInv, TypeOK, CreateEndpoint, table, history
  <1>2. EndpointsBelowThreshold'
    BY DEF IInv, TypeOK, EndpointsBelowThreshold, CreateEndpoint
  <1>3. /\ AttemptsBounded'
        /\ ClaimsBelowThreshold'
        /\ OneClaimPerDelivery'
    BY DEF IInv, AttemptsBounded, ClaimsBelowThreshold, OneClaimPerDelivery, CreateEndpoint,
       table
  <1>4. PostsCovered'
    BY DEF IInv, PostsCovered, Posters, Spare, CreateEndpoint, table, history
  <1>q. QED  BY <1>1, <1>2, <1>3, <1>4 DEF IInv

\* RotateSecret keeps the invariant.
LEMMA RotateSecretStep ==
    ASSUME IInv, NEW e \in Endpoints, RotateSecret(e)
    PROVE  IInv'
  <1>1. TypeOK'
    BY WebhooksAssumption DEF IInv, TypeOK, RotateSecret, table, history
  <1>2. AttemptsBounded'
    BY WebhooksAssumption DEF IInv, TypeOK, AttemptsBounded, RotateSecret, table
  <1>3. EndpointsBelowThreshold'
    BY WebhooksAssumption DEF IInv, TypeOK, EndpointsBelowThreshold, RotateSecret
  <1>4. /\ ClaimsBelowThreshold'
        /\ OneClaimPerDelivery'
    BY DEF IInv, ClaimsBelowThreshold, OneClaimPerDelivery, RotateSecret
  <1>5. PostsCovered'
    BY DEF IInv, PostsCovered, Posters, Spare, RotateSecret, table, history
  <1>q. QED  BY <1>1, <1>2, <1>3, <1>4, <1>5 DEF IInv

\* DisableEndpoint keeps the invariant.
LEMMA DisableEndpointStep ==
    ASSUME IInv, NEW e \in Endpoints, DisableEndpoint(e)
    PROVE  IInv'
  <1>1. TypeOK'
    BY WebhooksAssumption DEF IInv, TypeOK, DisableEndpoint, table, history
  <1>2. AttemptsBounded'
    BY WebhooksAssumption DEF IInv, TypeOK, AttemptsBounded, DisableEndpoint, table
  <1>3. EndpointsBelowThreshold'
    BY DEF IInv, TypeOK, EndpointsBelowThreshold, DisableEndpoint
  <1>4. /\ ClaimsBelowThreshold'
        /\ OneClaimPerDelivery'
    BY DEF IInv, ClaimsBelowThreshold, OneClaimPerDelivery, DisableEndpoint
  <1>5. PostsCovered'
    BY DEF IInv, PostsCovered, Posters, Spare, DisableEndpoint, table, history
  <1>q. QED  BY <1>1, <1>2, <1>3, <1>4, <1>5 DEF IInv

\* ReplayDelivery keeps the invariant.
LEMMA ReplayDeliveryStep ==
    ASSUME IInv, NEW d \in Deliveries, ReplayDelivery(d)
    PROVE  IInv'
  <1>1. TypeOK'
    BY WebhooksAssumption DEF IInv, TypeOK, ReplayDelivery, history, AttemptsBounded
  <1>2. AttemptsBounded'
    BY WebhooksAssumption DEF IInv, TypeOK, AttemptsBounded, ReplayDelivery
  <1>3. /\ ClaimsBelowThreshold'
        /\ EndpointsBelowThreshold'
        /\ OneClaimPerDelivery'
    BY DEF IInv, ClaimsBelowThreshold, EndpointsBelowThreshold, OneClaimPerDelivery,
       ReplayDelivery
  <1>4. PostsCovered'
    <2>1. SUFFICES ASSUME NEW f \in Deliveries
                   PROVE  (posts[f] + Cardinality(Posters(f)) + Spare(f) <= attempt[f] + expiries[f])'
      BY DEF PostsCovered
    <2>2. posts[f] + Cardinality(Posters(f)) + Spare(f) <= attempt[f] + expiries[f]
      BY DEF IInv, PostsCovered
    <2>3. TypeOK /\ TypeOK'
      BY <1>1 DEF IInv
    <2>4. Posters(f)' = Posters(f)
      BY DEF ReplayDelivery, Posters
    <2>5. Spare(f)' <= Spare(f) /\ attempt[f] <= attempt'[f]
      BY <2>3 DEF ReplayDelivery, Spare, TypeOK
    <2>6. UNCHANGED <<posts[f], expiries[f]>>
      BY DEF ReplayDelivery, history
    <2>q. QED  BY <2>2, <2>3, <2>4, <2>5, <2>6, PostsTypes, PostsTypesNext
  <1>q. QED  BY <1>1, <1>2, <1>3, <1>4 DEF IInv

\* The initial states satisfy the invariant.
LEMMA InitIInv == Init => IInv
  <1> SUFFICES ASSUME Init PROVE IInv
    OBVIOUS
  <1>1. TypeOK
    BY WebhooksAssumption DEF Init, TypeOK
  <1>2. /\ AttemptsBounded /\ ClaimsBelowThreshold
        /\ EndpointsBelowThreshold /\ OneClaimPerDelivery
    BY WebhooksAssumption DEF Init, AttemptsBounded, ClaimsBelowThreshold,
       EndpointsBelowThreshold, OneClaimPerDelivery
  <1>3. PostsCovered
    <2>1. \A d \in Deliveries : Posters(d) = {} /\ Spare(d) = 0
      BY DEF Init, Posters, Spare
    <2>q. QED  BY <2>1, FS_EmptySet DEF Init, PostsCovered
  <1>q. QED  BY <1>1, <1>2, <1>3 DEF IInv

\* Every step keeps the invariant.
LEMMA NextIInv == IInv /\ [Next]_vars => IInv'
  <1> SUFFICES ASSUME IInv, [Next]_vars PROVE IInv'
    OBVIOUS
  <1>1. CASE Next
    BY <1>1, PublishStep, EnqueueEventStep, ClaimStep, ProcessOneStep, MarkDeliveredStep,
       MarkFailedStep, MarkErrorStep, CrashStep, TimePassesStep, CreateEndpointStep,
       RotateSecretStep, DisableEndpointStep, ReplayDeliveryStep
    DEF Next, DispatchStep
  <1>2. CASE UNCHANGED vars
    BY <1>2 DEF vars, IInv, TypeOK, AttemptsBounded, ClaimsBelowThreshold,
       EndpointsBelowThreshold, OneClaimPerDelivery, PostsCovered, Posters, Spare
  <1>q. QED  BY <1>1, <1>2

-----------------------------------------------------------------------------
(* Theorems *)

\* The inductive invariant holds in every reachable state.
THEOREM Invariance == Spec => []IInv
  BY InitIInv, NextIInv, PTL DEF Spec

\* Rows and claims keep their types; failure_count stays within the threshold
\* although mark_failed writes the value that its claim read.
THEOREM TypeCorrect == Spec => []TypeOK
  <1>1. IInv => TypeOK  BY DEF IInv
  <1>q. QED  BY <1>1, Invariance, PTL

\* Every POST of dispatch_once is one of the delivery's counted attempts, or of
\* a lease that ran out, for any number of dispatchers.
THEOREM NoUnexplainedPost == Spec => []PostsExplained
  <1>1. IInv => PostsExplained
    <2>1. SUFFICES ASSUME IInv, NEW d \in Deliveries
                   PROVE  posts[d] <= attempt[d] + expiries[d]
      BY DEF PostsExplained
    <2>2. posts[d] + Cardinality(Posters(d)) + Spare(d) <= attempt[d] + expiries[d]
      BY <2>1 DEF IInv, PostsCovered
    <2>q. QED  BY <2>1, <2>2, PostsTypes DEF IInv
  <1>q. QED  BY <1>1, Invariance, PTL

\* mark_failed pauses in time: no interleaving of late results and rotations
\* leaves an endpoint active at the threshold.
THEOREM AutoPauseHolds == Spec => []ActiveBelowThreshold
  <1>1. IInv => ActiveBelowThreshold
    BY DEF IInv, EndpointsBelowThreshold, ActiveBelowThreshold
  <1>q. QED  BY <1>1, Invariance, PTL

\* The auto-pause and rotate_secret leave a disabled endpoint disabled.
THEOREM DisabledIsFinal == Spec => DisabledStaysDisabled
  <1>1. IInv /\ [Next]_vars =>
          [\A e \in Endpoints : ep[e] = "disabled" => ep'[e] = "disabled"]_vars
    <2>1. SUFFICES ASSUME IInv, Next, NEW e \in Endpoints, ep[e] = "disabled"
                   PROVE  ep'[e] = "disabled"
      OBVIOUS
    <2>2. TypeOK
      BY <2>1 DEF IInv
    <2>3. ASSUME NEW w \in Dispatchers, NEW c \in batch[w], MarkFailed(w, c)
          PROVE  ep'[e] = "disabled"
      BY <2>1, <2>2, <2>3 DEF MarkFailed, TypeOK
    <2>4. ASSUME NEW f \in Endpoints, CreateEndpoint(f) \/ RotateSecret(f) \/ DisableEndpoint(f)
          PROVE  ep'[e] = "disabled"
      BY <2>1, <2>2, <2>4 DEF CreateEndpoint, RotateSecret, DisableEndpoint, TypeOK
    <2>5. CASE UNCHANGED ep
      BY <2>1, <2>5
    <2>q. QED
      BY <2>1, <2>3, <2>4, <2>5 DEF Next, DispatchStep, Publish, EnqueueEvent, Claim,
         ProcessOne, MarkDelivered, MarkError, Crash, TimePasses, ReplayDelivery
  <1>q. QED  BY <1>1, Invariance, PTL DEF Spec, DisabledStaysDisabled

=============================================================================
