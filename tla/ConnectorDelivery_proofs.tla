---------------------- MODULE ConnectorDelivery_proofs ----------------------
(***************************************************************************)
(* What the connector worker guarantees for every set of rows, every       *)
(* number of processes and crashes, and every batch limit, lease and retry *)
(* schedule: under ExclusiveClaims, the inductive invariant DeliveryInv    *)
(* and what follows from it; without it, the bound on recorded attempts.   *)
(***************************************************************************)
EXTENDS ConnectorDelivery, FiniteSetTheorems, TLAPS

\* A retry is put off by a whole number of ticks, whatever its attempt.
LEMMA RetryDelayType ==
    ASSUME NEW a \in Nat
    PROVE  retry_delay(a) \in Nat
<1>1. Smaller(a, 7) + 1 \in 1..8
  BY SMT DEF Smaller
<1>2. \A i \in 1..8 : PowersOfTwo[i] \in Nat
  BY SMT DEF PowersOfTwo
<1>3. PowersOfTwo[Smaller(a, 7) + 1] \in Nat
  BY <1>1, <1>2
<1>4. RetryUnit * PowersOfTwo[Smaller(a, 7) + 1] \in Nat
  BY <1>3, OutboxAssumption
<1> QED
  BY <1>4, OutboxAssumption DEF retry_delay, Smaller

\* Rows, batches and counters keep their types through every step of a worker.
THEOREM TypeCorrect == Spec => []TypeOK
<1>1. Init => TypeOK
  BY DeliveryAssumption
     DEF Init, TypeOK, OutboxInit, OutboxTypeOK, RowStates, Forgotten
<1>2. TypeOK /\ [Next]_vars => TypeOK'
  <2> SUFFICES ASSUME TypeOK, [Next]_vars
               PROVE  TypeOK'
    OBVIOUS
  <2> USE DeliveryAssumption DEF TypeOK, OutboxTypeOK
  <2>1. ASSUME NEW r \in Rows, Dispatch(r)
        PROVE  TypeOK'
    BY <2>1 DEF Dispatch, Enqueue, workerVars, history, RowStates
  <2>2. ASSUME NEW w \in Workers, Claim(w)
        PROVE  TypeOK'
    <3>1. PICK B \in SUBSET Claimable :
              /\ Lease(B, LeaseTicks)
              /\ batch' = [batch EXCEPT ![w] = B]
              /\ mem' = [mem EXCEPT ![w] = [r \in Rows |-> IF r \in B THEN attempts[r] ELSE 0]]
      BY <2>2 DEF Claim
    <3>2. B \subseteq Owned
      BY <3>1 DEF Claimable
    <3>3. OutboxTypeOK'
      BY <3>1, <3>2 DEF Lease, RowStates
    <3> QED
      BY <2>2, <3>1, <3>2, <3>3 DEF Claim, history
  <2>3. ASSUME NEW w \in Workers, Call(w)
        PROVE  TypeOK'
    <3>1. \A r \in Rows, acts \in BOOLEAN : Effect(r, acts) \in Nat
      BY DEF Effect
    <3> QED
      BY <2>3, <3>1 DEF Call, outboxVars
  <2>4. ASSUME NEW w \in Workers, NEW r \in Rows, NextInBatch(w, r)
        PROVE  (/\ batch \in [Workers -> SUBSET Owned]
                /\ mem \in [Workers -> [Rows -> Nat]]
                /\ current \in [Workers -> Owned \cup {NoRow}]
                /\ landed \in [Workers -> BOOLEAN]
                /\ age \in [Workers -> 0..CallTicks]
                /\ crashes \in 0..MaxCrashes
                /\ calls \in [Rows -> Nat]
                /\ effects \in [Rows -> Nat])'
    BY <2>4 DEF NextInBatch, history
  <2>5. ASSUME NEW w \in Workers, Record(w)
        PROVE  TypeOK'
    <3> DEFINE r == current[w]
    <3>1. r \in Rows /\ NextInBatch(w, r)
      BY <2>5 DEF Record, Delivered, Retry, DeadLetter
    <3>2. Attempted(w, r) \in Nat
      BY <3>1 DEF Attempted
    <3>3. CASE Delivered(w)
      BY <3>1, <3>2, <3>3, <2>4 DEF Delivered, Settle, RowStates, Settled, NoLease
    <3>4. CASE Retry(w)
      <4>1. retry_delay(Attempted(w, r)) \in Nat
        BY <3>2, RetryDelayType
      <4> QED
        BY <3>1, <3>2, <3>4, <4>1, <2>4 DEF Retry, Settle, RowStates, NoLease
    <3>5. CASE DeadLetter(w)
      BY <3>1, <3>2, <3>5, <2>4 DEF DeadLetter, Settle, RowStates, Settled, NoLease
    <3> QED
      BY <2>5, <3>3, <3>4, <3>5 DEF Record
  <2>6. ASSUME NEW w \in Workers, Crash(w)
        PROVE  TypeOK'
    BY <2>6 DEF Crash, Forgotten, outboxVars, history
  <2>7. ASSUME Tick
        PROVE  TypeOK'
    <3>1. OutboxTypeOK'
      <4>1. Elapse
        BY <2>7 DEF Tick
      <4>2. \A r \in Rows :
               (IF lease[r] = NoLease THEN NoLease ELSE lease[r] - 1) \in Nat \cup {NoLease}
        BY DEF NoLease
      <4>3. lease' \in [Rows -> Nat \cup {NoLease}]
        BY <4>1, <4>2 DEF Elapse
      <4>4. \A r \in Rows : (IF available[r] = 0 THEN 0 ELSE available[r] - 1) \in Nat
        OBVIOUS
      <4>5. available' \in [Rows -> Nat]
        BY <4>1, <4>4 DEF Elapse
      <4> QED
        BY <4>1, <4>3, <4>5 DEF Elapse
    <3>2. age' \in [Workers -> 0..CallTicks]
      BY <2>7 DEF Tick
    <3> QED
      BY <2>7, <3>1, <3>2 DEF Tick, history
  <2>8. CASE UNCHANGED vars
    BY <2>8 DEF vars, outboxVars, workerVars, history
  <2> QED
    BY <2>1, <2>2, <2>3, <2>5, <2>6, <2>7, <2>8 DEF Next
<1> QED
  BY <1>1, <1>2, PTL DEF Spec

-----------------------------------------------------------------------------
(* The inductive invariant. *)

\* Smaller batches need no more ticks.
LEMMA ProductMonotone ==
    ASSUME NEW m \in Nat, NEW n \in Nat, NEW c \in Nat, m <= n
    PROVE  m * c <= n * c
<1>1. PICK d \in Nat : n = m + d
  BY n - m \in Nat
<1>2. n * c = m * c + d * c /\ d * c \in Nat /\ m * c \in Nat
  BY <1>1
<1> QED
  BY <1>2

\* A batch is finite; one row less is one call less to wait for.
LEMMA BatchSize ==
    ASSUME TypeOK, NEW w \in Workers
    PROVE  /\ IsFiniteSet(batch[w])
           /\ Cardinality(batch[w]) \in Nat
           /\ \A r \in batch[w] :
                 /\ Cardinality(batch[w]) * CallTicks >= CallTicks
                 /\ Cardinality(batch[w] \ {r}) * CallTicks
                       = Cardinality(batch[w]) * CallTicks - CallTicks
<1>1. batch[w] \subseteq Rows
  BY DeliveryAssumption DEF TypeOK
<1>2. IsFiniteSet(batch[w]) /\ Cardinality(batch[w]) \in Nat
  BY <1>1, OutboxAssumption, FS_Subset, FS_CardinalityType
<1>3. ASSUME NEW r \in batch[w]
      PROVE  /\ Cardinality(batch[w]) * CallTicks >= CallTicks
             /\ Cardinality(batch[w] \ {r}) * CallTicks
                   = Cardinality(batch[w]) * CallTicks - CallTicks
  <2> DEFINE n == Cardinality(batch[w] \ {r})
  <2>a. IsFiniteSet(batch[w] \ {r}) /\ n = Cardinality(batch[w]) - 1
    BY <1>2, <1>3, FS_RemoveElement
  <2>b. n \in Nat
    BY <2>a, FS_CardinalityType
  <2>1. n \in Nat /\ Cardinality(batch[w]) = n + 1
    BY <1>2, <2>a, <2>b
  <2> HIDE DEF n
  <2>2. (n + 1) * CallTicks = n * CallTicks + CallTicks /\ n * CallTicks \in Nat
    BY <2>1, DeliveryAssumption
  <2>3. Cardinality(batch[w]) * CallTicks = n * CallTicks + CallTicks
    BY <2>1, <2>2
  <2>4. CallTicks \in Nat
    BY DeliveryAssumption
  <2> QED
    BY <2>2, <2>3, <2>4 DEF n
<1> QED
  BY <1>2, <1>3

\* Under ExclusiveClaims a row in a worker's hands is not claimable by another.
LEMMA HeldNotClaimable ==
    ASSUME DeliveryInv, ExclusiveClaims, NEW v \in Workers, NEW w \in Workers,
           v # w, NEW r \in batch[v]
    PROVE  r \notin Claimable
<1>1. BatchLimit * CallTicks <= LeaseTicks
  BY DEF ExclusiveClaims
<1>2. lease[r] >= WorkLeft(v)
  BY <1>1 DEF DeliveryInv, LeaseOutlastsBatch
<1>3. /\ age[v] \in 0..CallTicks
      /\ Cardinality(batch[v]) * CallTicks >= CallTicks
  BY BatchSize DEF DeliveryInv, TypeOK
<1>4. r \in Rows /\ lease[r] \in Nat \cup {NoLease}
  BY DeliveryAssumption DEF DeliveryInv, TypeOK, OutboxTypeOK
<1>5. Cardinality(batch[v]) * CallTicks \in Nat /\ CallTicks \in Nat
  <2>1. Cardinality(batch[v]) \in Nat
    BY BatchSize DEF DeliveryInv
  <2> QED
    BY <2>1, DeliveryAssumption
<1>6. lease[r] # NoLease
  BY <1>2, <1>3, <1>4, <1>5 DEF WorkLeft, NoLease
<1> QED
  BY <1>6 DEF Claimable, Pending, Abandoned, LeaseOver

\* The facts about one step that the invariance proof uses again and again.
LEMMA HeldRowFacts ==
    ASSUME DeliveryInv, NEW w \in Workers, NEW r \in batch[w]
    PROVE  /\ r \in Rows
           /\ state[r] = "delivering"
           /\ attempts[r] = mem[w][r]
           /\ attempts[r] \in Nat
           /\ attempts[r] < MaxAttempts
           /\ ~deliveredAt[r]
<1>1. r \in Rows /\ state[r] = "delivering" /\ attempts[r] = mem[w][r]
  BY DeliveryAssumption DEF DeliveryInv, TypeOK, HeldRowsCurrent
<1> QED
  BY <1>1 DEF DeliveryInv, TypeOK, OutboxTypeOK, AttemptsBounded, Settled, DeliveredMeansActed

\* A fresh row is in nobody's hands.
LEMMA DispatchInv ==
    ASSUME DeliveryInv, TypeOK', NEW r \in Rows, Dispatch(r)
    PROVE  DeliveryInv'
<1>1. /\ state[r] = "absent"
      /\ state' = [s \in Rows |-> IF s \in {r} THEN "queued" ELSE state[s]]
      /\ UNCHANGED <<attempts, lease, deliveredAt, batch, mem, current, landed, age,
                     crashes, calls, effects>>
  BY DEF Dispatch, Enqueue, workerVars, history
<1>2. \A w \in Workers : r \notin batch[w]
  BY <1>1, HeldRowFacts
<1>3. \A s \in Rows : s # r => state'[s] = state[s]
  BY <1>1
<1>4. state'[r] = "queued"
  BY <1>1
<1>5. HeldRowsCurrent'
  BY <1>1, <1>2, <1>3, HeldRowFacts DEF HeldRowsCurrent
<1>6. AttemptsBounded'
  BY <1>1, <1>3, <1>4 DEF DeliveryInv, AttemptsBounded, Settled
<1>7. DeliveredMeansActed'
  BY <1>1, <1>3, <1>4 DEF DeliveryInv, DeliveredMeansActed
<1>8. ExclusiveDelivery' /\ LeaseOutlastsBatch' /\ CallInBatch' /\ CallsAccounted'
  BY <1>1 DEF DeliveryInv, ExclusiveDelivery, LeaseOutlastsBatch, WorkLeft, CallInBatch,
              CallsAccounted, InFlight
<1> QED
  BY <1>5, <1>6, <1>7, <1>8 DEF DeliveryInv

\* A claim takes rows nobody holds, and leases them for a whole batch.
LEMMA ClaimInv ==
    ASSUME DeliveryInv, ExclusiveClaims, TypeOK', NEW w \in Workers, Claim(w)
    PROVE  DeliveryInv'
<1>1. PICK B \in SUBSET Claimable :
         /\ Cardinality(B) <= BatchLimit
         /\ Lease(B, LeaseTicks)
         /\ batch' = [batch EXCEPT ![w] = B]
         /\ mem' = [mem EXCEPT ![w] = [r \in Rows |-> IF r \in B THEN attempts[r] ELSE 0]]
  BY DEF Claim
<1>2. /\ age' = [age EXCEPT ![w] = 0]
      /\ UNCHANGED <<current, landed, crashes, calls, effects, attempts, deliveredAt>>
      /\ batch[w] = {}
  BY <1>1 DEF Claim, history, Lease, Idle
<1>3. \A r \in B : r \in Rows /\ state[r] \in {"queued", "retry", "delivering"}
  BY DeliveryAssumption DEF Claimable, Pending, Abandoned
<1>4. /\ batch'[w] = B
      /\ \A v \in Workers : v # w => batch'[v] = batch[v] /\ mem'[v] = mem[v] /\ age'[v] = age[v]
      /\ \A r \in B : mem'[w][r] = attempts[r]
      /\ age'[w] = 0
  BY <1>1, <1>2, <1>3 DEF DeliveryInv, TypeOK
<1>5. \A r \in Rows : /\ state'[r] = IF r \in B THEN "delivering" ELSE state[r]
                      /\ lease'[r] = IF r \in B THEN LeaseTicks ELSE lease[r]
  BY <1>1 DEF Lease
<1>6. \A v \in Workers : v # w => batch[v] \cap B = {}
  BY <1>1, HeldNotClaimable
<1>7. ExclusiveDelivery'
  BY <1>4, <1>6 DEF DeliveryInv, ExclusiveDelivery
<1>8. HeldRowsCurrent'
  <2> SUFFICES ASSUME NEW v \in Workers, NEW r \in batch'[v]
               PROVE  state'[r] = "delivering" /\ attempts'[r] = mem'[v][r]
    BY DEF HeldRowsCurrent
  <2>1. CASE v = w
    BY <2>1, <1>2, <1>3, <1>4, <1>5
  <2>2. CASE v # w
    BY <2>2, <1>2, <1>4, <1>5, <1>6, HeldRowFacts
  <2> QED
    BY <2>1, <2>2
<1>9. LeaseOutlastsBatch'
  <2> SUFFICES ASSUME BatchLimit * CallTicks <= LeaseTicks,
                      NEW v \in Workers, NEW r \in batch'[v]
               PROVE  lease'[r] >= WorkLeft(v)'
    BY DEF LeaseOutlastsBatch
  <2>1. CASE v = w
    <3>1. IsFiniteSet(B) /\ Cardinality(B) \in Nat
      BY <1>1, DeliveryAssumption, OutboxAssumption, FS_Subset, FS_CardinalityType
         DEF Claimable
    <3>2. Cardinality(B) * CallTicks <= BatchLimit * CallTicks
      BY <1>1, <3>1, DeliveryAssumption, ProductMonotone
    <3>3. /\ Cardinality(B) * CallTicks \in Nat
          /\ BatchLimit * CallTicks \in Nat
          /\ LeaseTicks \in Nat
      BY <3>1, DeliveryAssumption
    <3>4. lease'[r] = LeaseTicks
      BY <2>1, <1>3, <1>4, <1>5
    <3> QED
      BY <2>1, <3>2, <3>3, <3>4, <1>4 DEF WorkLeft
  <2>2. CASE v # w
    <3>1. r \in batch[v] /\ r \in Rows /\ r \notin B
      BY <2>2, <1>4, <1>6, HeldRowFacts
    <3>2. lease[r] >= WorkLeft(v)
      BY <3>1 DEF DeliveryInv, LeaseOutlastsBatch
    <3> QED
      BY <2>2, <3>1, <3>2, <1>4, <1>5 DEF WorkLeft
  <2> QED
    BY <2>1, <2>2
<1>10. CallInBatch'
  BY <1>2, <1>4 DEF DeliveryInv, CallInBatch
<1>11. AttemptsBounded'
  BY <1>2, <1>3, <1>5 DEF DeliveryInv, AttemptsBounded, Settled
<1>12. CallsAccounted'
  BY <1>2 DEF DeliveryInv, CallsAccounted, InFlight
<1>13. DeliveredMeansActed'
  BY <1>2, <1>3, <1>5 DEF DeliveryInv, DeliveredMeansActed
<1> QED
  BY <1>7, <1>8, <1>9, <1>10, <1>11, <1>12, <1>13 DEF DeliveryInv

\* A call is for a row of the batch and is in progress until it is recorded.
LEMMA CallInv ==
    ASSUME DeliveryInv, TypeOK', NEW w \in Workers, Call(w)
    PROVE  DeliveryInv'
<1>1. PICK r \in batch[w], acts \in BOOLEAN :
         /\ current' = [current EXCEPT ![w] = r]
         /\ landed' = [landed EXCEPT ![w] = acts]
         /\ calls' = [calls EXCEPT ![r] = @ + 1]
         /\ effects' = [effects EXCEPT ![r] = @ + Effect(r, acts)]
  BY DEF Call
<1>2. /\ current[w] = NoRow
      /\ UNCHANGED <<state, attempts, available, lease, deliveredAt, batch, mem, age, crashes>>
  BY DEF Call, outboxVars
<1>3. r \in Rows /\ effects[r] \in Nat /\ Effect(r, acts) \in Nat
  BY HeldRowFacts DEF DeliveryInv, TypeOK, Effect
<1>4. /\ acts => effects'[r] > 0
      /\ \A s \in Rows : effects[s] > 0 => effects'[s] > 0
  BY <1>1, <1>3 DEF Effect, DeliveryInv, TypeOK
<1>5. CallInBatch'
  <2>1. \A v \in Workers : v # w => current'[v] = current[v] /\ landed'[v] = landed[v]
    BY <1>1 DEF DeliveryInv, TypeOK
  <2>2. current'[w] = r /\ landed'[w] = acts
    BY <1>1 DEF DeliveryInv, TypeOK
  <2>3. \A v \in Workers : current[v] # NoRow => current[v] \in Rows
    BY DeliveryAssumption DEF DeliveryInv, TypeOK
  <2> QED
    BY <2>1, <2>2, <2>3, <1>2, <1>3, <1>4, DeliveryAssumption DEF DeliveryInv, CallInBatch
<1>6. CallsAccounted'
  <2> SUFFICES ASSUME NEW s \in Rows
               PROVE  calls'[s] <= attempts'[s] + crashes' + (IF InFlight(s)' THEN 1 ELSE 0)
    BY DEF CallsAccounted
  <2>1. calls[s] <= attempts[s] + crashes + (IF InFlight(s) THEN 1 ELSE 0)
    BY DEF DeliveryInv, CallsAccounted
  <2>2. calls[s] \in Nat /\ attempts[s] \in Nat /\ crashes \in Nat
    BY DeliveryAssumption DEF DeliveryInv, TypeOK, OutboxTypeOK
  <2>3. CASE s = r
    <3>1. ~InFlight(s)
      <4> SUFFICES ASSUME NEW v \in Workers, current[v] = r
                   PROVE  FALSE
        BY <2>3 DEF InFlight
      <4>1. v # w
        BY <1>2, <1>3, DeliveryAssumption
      <4>2. r \in batch[v]
        BY <1>3, DeliveryAssumption DEF DeliveryInv, CallInBatch
      <4> QED
        BY <4>1, <4>2 DEF DeliveryInv, ExclusiveDelivery
    <3>2. InFlight(s)'
      BY <1>1, <2>3 DEF InFlight, DeliveryInv, TypeOK
    <3>3. calls'[s] = calls[s] + 1
      BY <1>1, <2>3 DEF DeliveryInv, TypeOK
    <3> QED
      BY <1>2, <2>1, <2>2, <3>1, <3>2, <3>3
  <2>4. CASE s # r
    <3>1. calls'[s] = calls[s]
      BY <1>1, <2>4 DEF DeliveryInv, TypeOK
    <3>2. InFlight(s) => InFlight(s)'
      BY <1>1, <1>2, DeliveryAssumption DEF InFlight, DeliveryInv, TypeOK
    <3> QED
      BY <1>2, <2>1, <2>2, <3>1, <3>2
  <2> QED
    BY <2>3, <2>4
<1>7. DeliveredMeansActed'
  BY <1>2, <1>4 DEF DeliveryInv, DeliveredMeansActed
<1>8. ExclusiveDelivery' /\ HeldRowsCurrent' /\ LeaseOutlastsBatch' /\ AttemptsBounded'
  BY <1>2 DEF DeliveryInv, ExclusiveDelivery, HeldRowsCurrent, LeaseOutlastsBatch, WorkLeft,
              AttemptsBounded
<1> QED
  BY <1>5, <1>6, <1>7, <1>8 DEF DeliveryInv

\* The three ways to record a call differ in the new state only.
LEMMA RecordStep ==
    ASSUME DeliveryInv, NEW w \in Workers, Record(w)
    PROVE  LET r == current[w] IN
           /\ r \in batch[w]
           /\ \E newState \in {"delivered", "retry", "dead_letter"} :
                 /\ Settle(r, newState, Attempted(w, r))
                 /\ newState = "retry" => MayRetry(w, r)
                 /\ newState = "delivered" => landed[w]
                 /\ deliveredAt' = [deliveredAt EXCEPT ![r] = newState = "delivered"]
           /\ NextInBatch(w, r)
<1> DEFINE r == current[w]
<1>1. r \in batch[w]
  BY DEF Record, Delivered, Retry, DeadLetter, DeliveryInv, CallInBatch
<1>2. ~deliveredAt[r] /\ deliveredAt \in [Rows -> BOOLEAN]
  BY <1>1, HeldRowFacts DEF DeliveryInv, TypeOK, OutboxTypeOK
<1>3. deliveredAt = [deliveredAt EXCEPT ![r] = FALSE]
  BY <1>2, Zenon
<1>4. CASE Delivered(w)
  BY <1>1, <1>4 DEF Delivered
<1>5. CASE Retry(w)
  BY <1>1, <1>3, <1>5 DEF Retry
<1>6. CASE DeadLetter(w)
  BY <1>1, <1>3, <1>6 DEF DeadLetter
<1> QED
  BY <1>4, <1>5, <1>6 DEF Record

\* The write after a call counts it, and the row leaves the only hands it is in.
LEMMA RecordInv ==
    ASSUME DeliveryInv, TypeOK', NEW w \in Workers, Record(w)
    PROVE  DeliveryInv'
<1> DEFINE r == current[w]
<1>1. r \in batch[w] /\ NextInBatch(w, r)
  BY RecordStep
<1>2. PICK newState \in {"delivered", "retry", "dead_letter"} :
         /\ Settle(r, newState, Attempted(w, r))
         /\ newState = "retry" => MayRetry(w, r)
         /\ newState = "delivered" => landed[w]
         /\ deliveredAt' = [deliveredAt EXCEPT ![r] = newState = "delivered"]
  BY RecordStep
<1>3. /\ r \in Rows
      /\ attempts[r] = mem[w][r]
      /\ attempts[r] \in Nat
      /\ attempts[r] < MaxAttempts
  BY <1>1, HeldRowFacts
<1>4. r # NoRow
  BY <1>3, DeliveryAssumption
<1> HIDE DEF r
<1>5. /\ state'[r] = newState /\ attempts'[r] = attempts[r] + 1
      /\ deliveredAt'[r] = (newState = "delivered")
  BY <1>2, <1>3 DEF Settle, Attempted, DeliveryInv, TypeOK, OutboxTypeOK
<1>6. \A s \in Rows : s # r => /\ state'[s] = state[s] /\ attempts'[s] = attempts[s]
                              /\ lease'[s] = lease[s] /\ deliveredAt'[s] = deliveredAt[s]
  BY <1>2 DEF Settle, DeliveryInv, TypeOK, OutboxTypeOK
<1>7. /\ batch'[w] = batch[w] \ {r} /\ current'[w] = NoRow /\ ~landed'[w] /\ age'[w] = 0
      /\ \A s \in Rows : s # r => mem'[w][s] = mem[w][s]
      /\ UNCHANGED <<crashes, calls, effects>>
  BY <1>1 DEF NextInBatch, history, DeliveryInv, TypeOK
<1>8. \A v \in Workers : v # w => /\ batch'[v] = batch[v] /\ current'[v] = current[v]
                                 /\ landed'[v] = landed[v] /\ age'[v] = age[v]
                                 /\ mem'[v] = mem[v]
  BY <1>1 DEF NextInBatch, DeliveryInv, TypeOK
<1>9. \A v \in Workers : v # w => r \notin batch[v]
  BY <1>1 DEF DeliveryInv, ExclusiveDelivery
<1>10. \A v \in Workers : \A s \in batch'[v] : s \in batch[v] /\ s \in Rows /\ s # r
  BY <1>7, <1>8, <1>9, HeldRowFacts
<1>11. ExclusiveDelivery'
  BY <1>10 DEF DeliveryInv, ExclusiveDelivery
<1>12. HeldRowsCurrent'
  BY <1>6, <1>7, <1>8, <1>10 DEF DeliveryInv, HeldRowsCurrent
<1>13. LeaseOutlastsBatch'
  <2> SUFFICES ASSUME BatchLimit * CallTicks <= LeaseTicks,
                      NEW v \in Workers, NEW s \in batch'[v]
               PROVE  lease'[s] >= WorkLeft(v)'
    BY DEF LeaseOutlastsBatch
  <2>1. lease'[s] = lease[s] /\ lease[s] >= WorkLeft(v) /\ lease[s] \in Nat \cup {NoLease}
    BY <1>6, <1>10 DEF DeliveryInv, LeaseOutlastsBatch, TypeOK, OutboxTypeOK
  <2>2. CASE v # w
    BY <2>1, <2>2, <1>8 DEF WorkLeft
  <2>3. CASE v = w
    <3>1. /\ Cardinality(batch[w] \ {r}) * CallTicks = Cardinality(batch[w]) * CallTicks - CallTicks
          /\ Cardinality(batch[w]) \in Nat
      BY <1>1, BatchSize DEF DeliveryInv
    <3>2. /\ age[w] \in 0..CallTicks /\ CallTicks \in Nat
          /\ Cardinality(batch[w]) * CallTicks \in Nat
      BY <3>1, DeliveryAssumption DEF DeliveryInv, TypeOK
    <3>3. WorkLeft(v)' = Cardinality(batch[w] \ {r}) * CallTicks
      BY <2>3, <1>7, <3>1, <3>2 DEF WorkLeft
    <3> QED
      BY <2>1, <2>3, <3>1, <3>2, <3>3 DEF WorkLeft, NoLease
  <2> QED
    BY <2>2, <2>3
<1>14. CallInBatch'
  <2> SUFFICES ASSUME NEW v \in Workers
               PROVE  /\ current'[v] # NoRow => current'[v] \in batch'[v]
                      /\ landed'[v] => current'[v] # NoRow /\ effects'[current'[v]] > 0
    BY DEF CallInBatch
  <2>1. CASE v = w
    BY <2>1, <1>7
  <2>2. CASE v # w
    BY <2>2, <1>7, <1>8 DEF DeliveryInv, CallInBatch
  <2> QED
    BY <2>1, <2>2
<1>15. AttemptsBounded'
  BY <1>2, <1>3, <1>5, <1>6, DeliveryAssumption
     DEF DeliveryInv, AttemptsBounded, MayRetry, Attempted, Settled
<1>16. CallsAccounted'
  <2> SUFFICES ASSUME NEW s \in Rows
               PROVE  calls'[s] <= attempts'[s] + crashes' + (IF InFlight(s)' THEN 1 ELSE 0)
    BY DEF CallsAccounted
  <2>1. /\ calls[s] <= attempts[s] + crashes + (IF InFlight(s) THEN 1 ELSE 0)
        /\ calls[s] \in Nat /\ attempts[s] \in Nat /\ crashes \in Nat
    BY DEF DeliveryInv, CallsAccounted, TypeOK, OutboxTypeOK
  <2>2. CASE s = r
    BY <2>1, <2>2, <1>5, <1>7
  <2>3. CASE s # r
    <3>1. InFlight(s) => InFlight(s)'
      BY <2>3, <1>8 DEF InFlight, r
    <3> QED
      BY <2>1, <2>3, <3>1, <1>6, <1>7
  <2> QED
    BY <2>2, <2>3
<1>17. DeliveredMeansActed'
  <2>1. newState = "delivered" => effects[r] > 0
    BY <1>2 DEF DeliveryInv, CallInBatch, r
  <2> QED
    BY <2>1, <1>5, <1>6, <1>7 DEF DeliveryInv, DeliveredMeansActed
<1> QED
  BY <1>11, <1>12, <1>13, <1>14, <1>15, <1>16, <1>17 DEF DeliveryInv

\* A death lets go of a batch and accounts for the call it interrupts.
LEMMA CrashInv ==
    ASSUME DeliveryInv, TypeOK', NEW w \in Workers, Crash(w)
    PROVE  DeliveryInv'
<1>1. /\ batch'[w] = {} /\ current'[w] = NoRow /\ ~landed'[w]
      /\ crashes' = crashes + 1
      /\ UNCHANGED <<state, attempts, lease, deliveredAt, calls, effects>>
  BY DEF Crash, outboxVars, history, DeliveryInv, TypeOK
<1>2. \A v \in Workers : v # w => /\ batch'[v] = batch[v] /\ current'[v] = current[v]
                                 /\ landed'[v] = landed[v] /\ age'[v] = age[v]
                                 /\ mem'[v] = mem[v]
  BY DEF Crash, DeliveryInv, TypeOK
<1>3. \A v \in Workers : batch'[v] # {} => v # w
  BY <1>1
<1>4. ExclusiveDelivery' /\ HeldRowsCurrent' /\ LeaseOutlastsBatch'
  BY <1>1, <1>2, <1>3
     DEF DeliveryInv, ExclusiveDelivery, HeldRowsCurrent, LeaseOutlastsBatch, WorkLeft
<1>5. CallInBatch'
  BY <1>1, <1>2 DEF DeliveryInv, CallInBatch
<1>6. AttemptsBounded' /\ DeliveredMeansActed'
  BY <1>1 DEF DeliveryInv, AttemptsBounded, DeliveredMeansActed
<1>7. CallsAccounted'
  <2> SUFFICES ASSUME NEW s \in Rows
               PROVE  calls'[s] <= attempts'[s] + crashes' + (IF InFlight(s)' THEN 1 ELSE 0)
    BY DEF CallsAccounted
  <2>1. /\ calls[s] <= attempts[s] + crashes + (IF InFlight(s) THEN 1 ELSE 0)
        /\ calls[s] \in Nat /\ attempts[s] \in Nat /\ crashes \in Nat
    BY DEF DeliveryInv, CallsAccounted, TypeOK, OutboxTypeOK
  <2> QED
    BY <2>1, <1>1
<1> QED
  BY <1>4, <1>5, <1>6, <1>7 DEF DeliveryInv

\* A tick takes as much from a lease as from the work left under it.
LEMMA TickInv ==
    ASSUME DeliveryInv, TypeOK', Tick
    PROVE  DeliveryInv'
<1>1. UNCHANGED <<state, attempts, deliveredAt, batch, mem, current, landed, crashes,
                  calls, effects>>
  BY DEF Tick, Elapse, history
<1>2. LeaseOutlastsBatch'
  <2> SUFFICES ASSUME BatchLimit * CallTicks <= LeaseTicks,
                      NEW w \in Workers, NEW r \in batch[w]
               PROVE  lease'[r] >= WorkLeft(w)'
    BY <1>1 DEF LeaseOutlastsBatch
  <2>1. age[w] < CallTicks /\ age'[w] = age[w] + 1
    BY DEF Tick, Idle
  <2>2. lease[r] >= WorkLeft(w)
    BY DEF DeliveryInv, LeaseOutlastsBatch
  <2>3. /\ Cardinality(batch[w]) * CallTicks >= CallTicks
        /\ Cardinality(batch[w]) \in Nat
    BY BatchSize DEF DeliveryInv
  <2>4. /\ Cardinality(batch[w]) * CallTicks \in Nat
        /\ CallTicks \in Nat /\ age[w] \in Nat
        /\ r \in Rows /\ lease[r] \in Nat \cup {NoLease}
    BY <2>3, DeliveryAssumption DEF DeliveryInv, TypeOK, OutboxTypeOK
  <2>5. lease[r] # NoLease /\ WorkLeft(w) \in Int
    BY <2>1, <2>2, <2>3, <2>4 DEF WorkLeft, NoLease
  <2>6. lease'[r] = lease[r] - 1
    BY <2>4, <2>5 DEF Tick, Elapse
  <2>7. WorkLeft(w)' = WorkLeft(w) - 1
    BY <1>1, <2>1, <2>4 DEF WorkLeft
  <2> QED
    BY <2>2, <2>4, <2>5, <2>6, <2>7 DEF NoLease
<1>3. ExclusiveDelivery' /\ HeldRowsCurrent' /\ CallInBatch' /\ AttemptsBounded'
  BY <1>1 DEF DeliveryInv, ExclusiveDelivery, HeldRowsCurrent, CallInBatch, AttemptsBounded
<1>4. CallsAccounted' /\ DeliveredMeansActed'
  BY <1>1 DEF DeliveryInv, CallsAccounted, InFlight, DeliveredMeansActed
<1> QED
  BY <1>2, <1>3, <1>4 DEF DeliveryInv

\* Nothing changes when nothing happens.
LEMMA StutterInv ==
    ASSUME DeliveryInv, UNCHANGED vars
    PROVE  DeliveryInv'
BY DEF vars, outboxVars, workerVars, history, DeliveryInv, TypeOK, OutboxTypeOK,
       ExclusiveDelivery, HeldRowsCurrent, LeaseOutlastsBatch, WorkLeft, CallInBatch,
       AttemptsBounded, CallsAccounted, InFlight, DeliveredMeansActed

\* The empty outbox satisfies the invariant.
LEMMA InitInv == Init => DeliveryInv
<1> SUFFICES ASSUME Init
             PROVE  DeliveryInv
  OBVIOUS
<1> USE DeliveryAssumption DEF Init, OutboxInit
<1>1. TypeOK
  BY DEF TypeOK, OutboxTypeOK, RowStates, Forgotten
<1>2. ExclusiveDelivery /\ HeldRowsCurrent /\ LeaseOutlastsBatch /\ CallInBatch
  BY DEF ExclusiveDelivery, HeldRowsCurrent, LeaseOutlastsBatch, CallInBatch
<1>3. AttemptsBounded /\ CallsAccounted /\ DeliveredMeansActed
  BY DEF AttemptsBounded, CallsAccounted, DeliveredMeansActed, InFlight
<1> QED
  BY <1>1, <1>2, <1>3 DEF DeliveryInv

\* While processes are kept apart (ExclusiveClaims), the claim, the call, the
\* write after it and the death of a process all preserve the invariant.
THEOREM DeliveryInvariant ==
    ASSUME ExclusiveClaims
    PROVE  Spec => []DeliveryInv
<1>1. TypeOK /\ DeliveryInv /\ [Next]_vars /\ TypeOK' => DeliveryInv'
  BY DispatchInv, ClaimInv, CallInv, RecordInv, CrashInv, TickInv, StutterInv DEF Next
<1> QED
  BY <1>1, InitInv, TypeCorrect, PTL DEF Spec

\* No row is ever in the hands of two worker processes: the lease taken by
\* claim() (connector_delivery.py:198-202) does its work under ExclusiveClaims.
THEOREM Exclusive ==
    ASSUME ExclusiveClaims
    PROVE  Spec => []ExclusiveDelivery
<1>1. DeliveryInv => ExclusiveDelivery
  BY DEF DeliveryInv
<1> QED
  BY <1>1, DeliveryInvariant, PTL

\* connector_max_attempts bounds the calls made for a row, up to one more for
\* each crash between the call and its write.
THEOREM CallsBounded ==
    ASSUME ExclusiveClaims
    PROVE  Spec => []CallBudget
<1>1. DeliveryInv => CallBudget
  <2> SUFFICES ASSUME DeliveryInv, NEW r \in Rows
               PROVE  calls[r] <= MaxAttempts + crashes
    BY DEF CallBudget
  <2>1. /\ calls[r] <= attempts[r] + crashes + (IF InFlight(r) THEN 1 ELSE 0)
        /\ calls[r] \in Nat /\ attempts[r] \in Nat /\ crashes \in Nat
        /\ attempts[r] <= MaxAttempts
    BY DEF DeliveryInv, CallsAccounted, AttemptsBounded, TypeOK, OutboxTypeOK
  <2>2. InFlight(r) => attempts[r] < MaxAttempts
    BY HeldRowFacts, DeliveryAssumption DEF InFlight, DeliveryInv, CallInBatch
  <2> QED
    BY <2>1, <2>2, DeliveryAssumption
<1> QED
  BY <1>1, DeliveryInvariant, PTL

\* A row marked delivered was acted on by its endpoint at least once, and
\* delivered_at is set on exactly the delivered rows.
THEOREM DeliveredTruthful ==
    ASSUME ExclusiveClaims
    PROVE  Spec => []DeliveredMeansActed
<1>1. DeliveryInv => DeliveredMeansActed
  BY DEF DeliveryInv
<1> QED
  BY <1>1, DeliveryInvariant, PTL

-----------------------------------------------------------------------------
(* What a step may do to a row. *)

\* A settled row is neither claimed, called nor rewritten: no step of a worker
\* touches it.
LEMMA SettledStep ==
    ASSUME DeliveryInv, Next, NEW r \in Rows, state[r] \in Settled
    PROVE  state'[r] = state[r] /\ calls'[r] = calls[r]
<1>1. \A w \in Workers : r \notin batch[w]
  BY HeldRowFacts DEF Settled
<1>2. ASSUME NEW s \in Rows, Dispatch(s)
      PROVE  state'[r] = state[r] /\ calls'[r] = calls[r]
  BY <1>2 DEF Dispatch, Enqueue, history, Settled
<1>3. ASSUME NEW w \in Workers, Claim(w)
      PROVE  state'[r] = state[r] /\ calls'[r] = calls[r]
  <2>1. r \notin Claimable
    BY DEF Claimable, Pending, Abandoned, Settled
  <2> QED
    BY <1>3, <2>1 DEF Claim, Lease, history
<1>4. ASSUME NEW w \in Workers, Call(w)
      PROVE  state'[r] = state[r] /\ calls'[r] = calls[r]
  BY <1>1, <1>4 DEF Call, outboxVars, DeliveryInv, TypeOK
<1>5. ASSUME NEW w \in Workers, Record(w)
      PROVE  state'[r] = state[r] /\ calls'[r] = calls[r]
  <2>1. current[w] # r
    BY <1>1, <1>5, RecordStep
  <2> QED
    BY <1>5, <2>1, RecordStep DEF Settle, NextInBatch, history, DeliveryInv, TypeOK, OutboxTypeOK
<1>6. ASSUME NEW w \in Workers, Crash(w)
      PROVE  state'[r] = state[r] /\ calls'[r] = calls[r]
  BY <1>6 DEF Crash, outboxVars, history
<1>7. CASE Tick
  BY <1>7 DEF Tick, Elapse, history
<1> QED
  BY <1>2, <1>3, <1>4, <1>5, <1>6, <1>7 DEF Next

\* Delivered and dead-lettered rows stay as they are and are not called again.
THEOREM SettledForGood ==
    ASSUME ExclusiveClaims
    PROVE  Spec => SettledIsFinal
<1>1. DeliveryInv /\ [Next]_vars
         => [\A r \in Rows : state[r] \in Settled =>
                state'[r] = state[r] /\ calls'[r] = calls[r]]_vars
  BY SettledStep
<1> QED
  BY <1>1, DeliveryInvariant, PTL DEF Spec, SettledIsFinal

\* The worker, seen through Phase, does what the outbox promises: one recorded
\* attempt at a time, never more than connector_max_attempts, settled for good.
THEOREM ImplementsContract ==
    ASSUME ExclusiveClaims
    PROVE  Spec => ContractSpec
<1>1. Init => Contract!Init
  BY DeliveryAssumption DEF Init, OutboxInit, Contract!Init, Phase
<1>2. DeliveryInv /\ [Next]_vars => [Contract!Next]_(Contract!vars)
  <2> SUFFICES ASSUME DeliveryInv, [Next]_vars
               PROVE  Contract!Next \/ UNCHANGED Contract!vars
    OBVIOUS
  <2>1. ASSUME NEW r \in Rows, Dispatch(r)
        PROVE  Contract!Next \/ UNCHANGED Contract!vars
    <3>1. /\ state[r] = "absent" /\ state'[r] = "queued"
          /\ \A s \in Rows : s # r => state'[s] = state[s]
          /\ attempts' = attempts
      BY <2>1 DEF Dispatch, Enqueue
    <3>2. CASE r \in Owned
      <4>1. Contract!Submit(r)
        BY <3>1, <3>2, DeliveryAssumption DEF Contract!Submit, Phase, Settled
      <4> QED
        BY <3>2, <4>1 DEF Contract!Next
    <3>3. CASE r \notin Owned
      BY <3>1, <3>3, DeliveryAssumption DEF Contract!vars, Phase
    <3> QED
      BY <3>2, <3>3
  <2>2. ASSUME NEW w \in Workers, Claim(w)
        PROVE  UNCHANGED Contract!vars
    <3>1. PICK B \in SUBSET Claimable : Lease(B, LeaseTicks)
      BY <2>2 DEF Claim
    <3>2. attempts' = attempts /\ \A r \in Owned : Phase(r)' = Phase(r)
      BY <3>1, DeliveryAssumption DEF Lease, Phase, Claimable, Pending, Abandoned, Settled
    <3> QED
      BY <3>2 DEF Contract!vars
  <2>3. ASSUME NEW w \in Workers, Record(w)
        PROVE  Contract!Next
    <3> DEFINE r == current[w]
    <3>1. PICK newState \in {"delivered", "retry", "dead_letter"} :
             /\ Settle(r, newState, Attempted(w, r))
             /\ newState = "retry" => MayRetry(w, r)
      BY <2>3, RecordStep
    <3>2. r \in batch[w] /\ r \in Owned
      BY <2>3, RecordStep DEF DeliveryInv, TypeOK
    <3>3. /\ state[r] = "delivering" /\ attempts[r] = mem[w][r] /\ r \in Rows
          /\ attempts[r] < MaxAttempts
      BY <3>2, HeldRowFacts
    <3> DEFINE outcome == IF newState = "retry" THEN "pending" ELSE newState
    <3>4. Contract!Attempt(r, outcome)
      BY <3>1, <3>2, <3>3, DeliveryAssumption
         DEF Contract!Attempt, Settle, Attempted, MayRetry, Phase, Settled,
             DeliveryInv, TypeOK, OutboxTypeOK
    <3> QED
      BY <3>2, <3>4 DEF Contract!Next
  <2>4. ASSUME UNCHANGED <<state, attempts>>
        PROVE  UNCHANGED Contract!vars
    BY <2>4 DEF Contract!vars, Phase
  <2>5. CASE Tick \/ UNCHANGED vars \/ \E w \in Workers : Call(w) \/ Crash(w)
    BY <2>4, <2>5 DEF Tick, Elapse, Call, Crash, vars, outboxVars
  <2> QED
    BY <2>1, <2>2, <2>3, <2>5 DEF Next
<1> QED
  BY <1>1, <1>2, DeliveryInvariant, PTL DEF Spec, ContractSpec, Contract!Spec

-----------------------------------------------------------------------------
(* Without ExclusiveClaims: two processes may work on the same row, each from  *)
(* the attempts its own claim loaded.                                          *)

\* What a worker remembers of its rows leaves them an attempt.
HeldBelowLimit == \A w \in Workers : \A r \in batch[w] : mem[w][r] < MaxAttempts

\* A call in progress is for a row of the batch.
CallFromBatch == \A w \in Workers : current[w] # NoRow => current[w] \in batch[w]

\* Inductive also when a batch may be claimed from under a process.
OverrunInv == TypeOK /\ AttemptsBounded /\ HeldBelowLimit /\ CallFromBatch

\* A process that lost its rows still records at most one attempt more than it
\* read, and it read fewer than the limit.
LEMMA OverrunStep ==
    ASSUME OverrunInv, [Next]_vars, TypeOK'
    PROVE  OverrunInv'
<1> USE DEF OverrunInv
<1>1. ASSUME NEW r \in Rows, Dispatch(r)
      PROVE  OverrunInv'
  BY <1>1 DEF Dispatch, Enqueue, workerVars, AttemptsBounded, HeldBelowLimit, CallFromBatch,
              Settled
<1>2. ASSUME NEW w \in Workers, Claim(w)
      PROVE  OverrunInv'
  <2>1. PICK B \in SUBSET Claimable :
           /\ Lease(B, LeaseTicks)
           /\ batch' = [batch EXCEPT ![w] = B]
           /\ mem' = [mem EXCEPT ![w] = [r \in Rows |-> IF r \in B THEN attempts[r] ELSE 0]]
    BY <1>2 DEF Claim
  <2>2. \A r \in B : r \in Rows /\ state[r] \notin Settled
    BY DeliveryAssumption DEF Claimable, Pending, Abandoned, Settled
  <2>3. \A r \in B : attempts[r] < MaxAttempts
    BY <2>2 DEF AttemptsBounded
  <2>4. AttemptsBounded'
    BY <2>1, <2>2, <2>3 DEF Lease, AttemptsBounded
  <2>5. HeldBelowLimit'
    BY <2>1, <2>2, <2>3 DEF HeldBelowLimit, TypeOK
  <2>6. CallFromBatch'
    BY <1>2, <2>1 DEF CallFromBatch, Claim, Idle, TypeOK
  <2> QED
    BY <2>4, <2>5, <2>6
<1>3. ASSUME NEW w \in Workers, Call(w)
      PROVE  OverrunInv'
  <2>1. UNCHANGED <<state, attempts, batch, mem>>
    BY <1>3 DEF Call, outboxVars
  <2>2. CallFromBatch'
    BY <1>3, <2>1 DEF Call, CallFromBatch, TypeOK
  <2> QED
    BY <2>1, <2>2 DEF AttemptsBounded, HeldBelowLimit
<1>4. ASSUME NEW w \in Workers, Record(w)
      PROVE  OverrunInv'
  <2> DEFINE r == current[w]
  <2>1. r \in batch[w] /\ r \in Rows /\ mem[w][r] < MaxAttempts /\ mem[w][r] \in Nat
    BY <1>4, DeliveryAssumption
       DEF Record, Delivered, Retry, DeadLetter, CallFromBatch, HeldBelowLimit, TypeOK
  <2>2. PICK newState \in {"delivered", "retry", "dead_letter"} :
           /\ Settle(r, newState, Attempted(w, r))
           /\ newState = "retry" => MayRetry(w, r)
    BY <1>4 DEF Record, Delivered, Retry, DeadLetter
  <2>3. NextInBatch(w, r)
    BY <1>4 DEF Record, Delivered, Retry, DeadLetter
  <2> HIDE DEF r
  <2>4. AttemptsBounded'
    BY <2>1, <2>2, DeliveryAssumption
       DEF AttemptsBounded, Settle, MayRetry, Attempted, Settled, TypeOK, OutboxTypeOK
  <2>5. HeldBelowLimit' /\ CallFromBatch'
    BY <2>3 DEF NextInBatch, HeldBelowLimit, CallFromBatch, TypeOK, r
  <2> QED
    BY <2>4, <2>5
<1>5. ASSUME NEW w \in Workers, Crash(w)
      PROVE  OverrunInv'
  BY <1>5 DEF Crash, outboxVars, AttemptsBounded, HeldBelowLimit, CallFromBatch, TypeOK
<1>6. CASE Tick \/ UNCHANGED vars
  BY <1>6 DEF Tick, Elapse, vars, outboxVars, workerVars, AttemptsBounded, HeldBelowLimit,
              CallFromBatch
<1> QED
  BY <1>1, <1>2, <1>3, <1>4, <1>5, <1>6 DEF Next

\* Even when leases overrun and processes overwrite each other's rows, no row
\* records more than connector_max_attempts attempts, and none that is out of
\* attempts is left to be tried again.
THEOREM AttemptsNeverExceed == Spec => []AttemptsBounded
<1>1. Init => OverrunInv
  BY InitInv DEF Init, OutboxInit, OverrunInv, DeliveryInv, HeldBelowLimit,
     CallFromBatch
<1>2. OverrunInv => AttemptsBounded
  BY DEF OverrunInv
<1> QED
  BY <1>1, <1>2, OverrunStep, TypeCorrect, PTL DEF Spec
=============================================================================
