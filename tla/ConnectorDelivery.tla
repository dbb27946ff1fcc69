-------------------------- MODULE ConnectorDelivery --------------------------
(***************************************************************************)
(* The connector worker of app/workers/connector_delivery.py: processes    *)
(* that claim batches of outbox rows under a lease, call a connector for   *)
(* one row after the other, and record what came of each call.             *)
(*                                                                         *)
(* Three transactions of the code are atomic steps here, because each ends *)
(* in its own commit: the claim, the write after a call, and (elsewhere)   *)
(* the insert of fresh rows.  The HTTP call between a claim and its write  *)
(* is a step of its own, so that a process can die, the lease can run out  *)
(* or another process can act between the request and the write.           *)
(*                                                                         *)
(* FOR UPDATE SKIP LOCKED passes over rows that another transaction holds, *)
(* so a claim may return any part of the claimable rows up to its limit;   *)
(* the ORDER BY created_at is abstracted with it.                          *)
(***************************************************************************)
EXTENDS Outbox

CONSTANTS
    Owned,       \* rows whose action is in owned_actions()
    Keyed,       \* rows sent with an Idempotency-Key header (siem.push)
    Workers,     \* connector-worker processes
    BatchLimit,  \* rows one claim may take (limit = 20)
    LeaseTicks,  \* length of a lease (two minutes)
    CallTicks,   \* longest time a worker spends on one row of its batch
    MaxAttempts, \* connector_max_attempts
    MaxCrashes,  \* bound: deaths of a worker in one behaviour
    NoRow        \* "no call in progress"

ASSUME DeliveryAssumption ==
    /\ Owned \subseteq Rows
    /\ Keyed \subseteq Owned
    /\ NoRow \notin Rows
    /\ BatchLimit \in Nat \ {0}
    /\ LeaseTicks \in Nat
    /\ CallTicks \in Nat
    /\ MaxAttempts \in Nat \ {0}
    /\ MaxCrashes \in Nat

VARIABLES
    batch,    \* rows a worker claimed and has not settled
    mem,      \* attempts of those rows as loaded by the claim
    current,  \* the row whose connector call is in progress, or NoRow
    landed,   \* whether the endpoint acted on that call
    age,      \* ticks since the worker's claim or last settled row
    crashes,  \* deaths so far
    calls,    \* history: connector calls made for a row
    effects   \* history: times the endpoint acted for a row

workerVars == <<batch, mem, current, landed, age, crashes>>
history == <<calls, effects>>
vars == <<outboxVars, workerVars, history>>

TypeOK ==
    /\ OutboxTypeOK
    /\ batch \in [Workers -> SUBSET Owned]
    /\ mem \in [Workers -> [Rows -> Nat]]
    /\ current \in [Workers -> Owned \cup {NoRow}]
    /\ landed \in [Workers -> BOOLEAN]
    /\ age \in [Workers -> 0..CallTicks]
    /\ crashes \in 0..MaxCrashes
    /\ calls \in [Rows -> Nat]
    /\ effects \in [Rows -> Nat]

Forgotten == [r \in Rows |-> 0]

Init ==
    /\ OutboxInit
    /\ batch = [w \in Workers |-> {}]
    /\ mem = [w \in Workers |-> Forgotten]
    /\ current = [w \in Workers |-> NoRow]
    /\ landed = [w \in Workers |-> FALSE]
    /\ age = [w \in Workers |-> 0]
    /\ crashes = 0
    /\ calls = [r \in Rows |-> 0]
    /\ effects = [r \in Rows |-> 0]

Idle(w) == batch[w] = {}

-----------------------------------------------------------------------------
(* Arithmetic of the retry schedule. *)

Smaller(a, b) == IF a < b THEN a ELSE b

PowersOfTwo == <<1, 2, 4, 8, 16, 32, 64, 128>>

\* Ticks a row waits after its a-th attempt failed.
retry_delay(a) == Smaller(RetryCap, RetryUnit * PowersOfTwo[Smaller(a, 7) + 1])

-----------------------------------------------------------------------------
(* The worker's steps. *)

\* Rows arrive, one INSERT of a dispatched run at a time.
Dispatch(r) == Enqueue({r}) /\ UNCHANGED <<workerVars, history>>

Claimable == {r \in Owned : Pending(r) \/ Abandoned(r)}

\* claim(): select, mark and lease a batch, and remember its attempts.
Claim(w) ==
    /\ Idle(w)
    /\ \E B \in SUBSET Claimable :
          /\ B # {}
          /\ Cardinality(B) <= BatchLimit
          /\ Lease(B, LeaseTicks)
          /\ batch' = [batch EXCEPT ![w] = B]
          /\ mem' = [mem EXCEPT ![w] = [r \in Rows |-> IF r \in B THEN attempts[r] ELSE 0]]
    /\ age' = [age EXCEPT ![w] = 0]
    /\ UNCHANGED <<current, landed, crashes, history>>

\* An endpoint that honours the key acts once for it; any other acts each time.
Effect(r, acts) == IF acts /\ ~(r \in Keyed /\ effects[r] > 0) THEN 1 ELSE 0

\* deliver(): the request leaves; the endpoint acts on it or never does.
Call(w) ==
    /\ current[w] = NoRow
    /\ \E r \in batch[w], acts \in BOOLEAN :
          /\ current' = [current EXCEPT ![w] = r]
          /\ landed' = [landed EXCEPT ![w] = acts]
          /\ calls' = [calls EXCEPT ![r] = @ + 1]
          /\ effects' = [effects EXCEPT ![r] = @ + Effect(r, acts)]
    /\ UNCHANGED <<outboxVars, batch, mem, age, crashes>>

\* The row leaves the batch and the worker turns to the next one.
NextInBatch(w, r) ==
    /\ batch' = [batch EXCEPT ![w] = @ \ {r}]
    /\ mem' = [mem EXCEPT ![w][r] = 0]
    /\ current' = [current EXCEPT ![w] = NoRow]
    /\ landed' = [landed EXCEPT ![w] = FALSE]
    /\ age' = [age EXCEPT ![w] = 0]
    /\ UNCHANGED <<crashes, history>>

\* Mutant: the attempt is not counted.
AttemptUncounted(w, r) == mem[w][r]

\* attempts += 1 on the value the claim loaded.
Attempted(w, r) == mem[w][r] + 1

\* Mutant: any answer counts as delivered.
DeliveredUnread(w) ==
    LET r == current[w] IN
    /\ r # NoRow
    /\ Settle(r, "delivered", Attempted(w, r))
    /\ deliveredAt' = [deliveredAt EXCEPT ![r] = TRUE]
    /\ available' = available
    /\ NextInBatch(w, r)

\* A 2xx answer.
Delivered(w) ==
    LET r == current[w] IN
    /\ r # NoRow
    /\ landed[w]
    /\ Settle(r, "delivered", Attempted(w, r))
    /\ deliveredAt' = [deliveredAt EXCEPT ![r] = TRUE]
    /\ available' = available
    /\ NextInBatch(w, r)

\* Mutant: one attempt too many.
MayRetryOnceMore(w, r) == Attempted(w, r) <= MaxAttempts

MayRetry(w, r) == Attempted(w, r) < MaxAttempts

\* A retryable status, a transport error or an unreadable answer.  The
\* endpoint may have acted all the same.
Retry(w) ==
    LET r == current[w] IN
    /\ r # NoRow
    /\ MayRetry(w, r)
    /\ Settle(r, "retry", Attempted(w, r))
    /\ available' = [available EXCEPT ![r] = retry_delay(Attempted(w, r))]
    /\ deliveredAt' = deliveredAt
    /\ NextInBatch(w, r)

\* The same failure on the last attempt, or a refusal at any attempt.
DeadLetter(w) ==
    LET r == current[w] IN
    /\ r # NoRow
    /\ MayRetry(w, r) => ~landed[w]
    /\ Settle(r, "dead_letter", Attempted(w, r))
    /\ UNCHANGED <<available, deliveredAt>>
    /\ NextInBatch(w, r)

\* The process dies with work in hand: killed, or by an exception deliver()
\* does not catch.  What it claimed stays "delivering" until the lease is over.
Crash(w) ==
    /\ ~Idle(w)
    /\ crashes < MaxCrashes
    /\ crashes' = crashes + 1
    /\ batch' = [batch EXCEPT ![w] = {}]
    /\ mem' = [mem EXCEPT ![w] = Forgotten]
    /\ current' = [current EXCEPT ![w] = NoRow]
    /\ landed' = [landed EXCEPT ![w] = FALSE]
    /\ age' = [age EXCEPT ![w] = 0]
    /\ UNCHANGED <<outboxVars, history>>

\* Time passes; the HTTP timeout keeps a row from taking over CallTicks.
Tick ==
    /\ \A w \in Workers : ~Idle(w) => age[w] < CallTicks
    /\ Elapse
    /\ age' = [w \in Workers |-> IF Idle(w) THEN 0 ELSE age[w] + 1]
    /\ UNCHANGED <<batch, mem, current, landed, crashes, history>>

Record(w) == Delivered(w) \/ Retry(w) \/ DeadLetter(w)

Next ==
    \/ \E r \in Rows : Dispatch(r)
    \/ \E w \in Workers : Claim(w) \/ Call(w) \/ Record(w) \/ Crash(w)
    \/ Tick

\* main() loops for ever, a call ends by its timeout, and time goes on.
Fairness ==
    /\ \A w \in Workers : WF_vars(Claim(w)) /\ WF_vars(Call(w)) /\ WF_vars(Record(w))
    /\ WF_vars(Tick)

Spec == Init /\ [][Next]_vars
FairSpec == Spec /\ Fairness

-----------------------------------------------------------------------------
(* Correctness. *)

\* When the lease alone keeps processes apart: there is at most one of them,
\* or a lease outlasts the slowest batch.  The code as shipped has the former
\* (docker-compose.yml runs one connector-worker) and not the latter: 20 calls
\* of 10 seconds each against a lease of 120 seconds.
ExclusiveClaims ==
    \/ \A v, w \in Workers : v = w
    \/ BatchLimit * CallTicks <= LeaseTicks

\* claim() leases what it returns (connector_delivery.py:192-196): no row is in the
\* hands of two processes at once, also when one of them died holding it.
ExclusiveDelivery ==
    \A v, w \in Workers : v # w => batch[v] \cap batch[w] = {}

\* What a live process holds is marked as such and was not rewritten under it:
\* its write after the call builds on the attempts the row still has.
HeldRowsCurrent ==
    \A w \in Workers : \A r \in batch[w] :
        state[r] = "delivering" /\ attempts[r] = mem[w][r]

\* A row in delivery or waiting for its next attempt has an attempt left, and
\* no row records more attempts than connector_max_attempts.
AttemptsBounded ==
    \A r \in Rows :
        /\ attempts[r] <= MaxAttempts
        /\ state[r] \notin Settled => attempts[r] < MaxAttempts

InFlight(r) == \E w \in Workers : current[w] = r

\* Every connector call is accounted for by a recorded attempt, a call in
\* progress or a crash.
CallsAccounted ==
    \A r \in Rows :
        calls[r] <= attempts[r] + crashes + (IF InFlight(r) THEN 1 ELSE 0)

\* docs/automation.md:31, "Delivery uses bounded attempts", as far as it is true:
\* attempts grows only in the write after the call (211-229), so each crash may add
\* one call to connector_max_attempts, and nothing else does.
CallBudget == \A r \in Rows : calls[r] <= MaxAttempts + crashes

\* Only rows an endpoint acted on count as delivered, and delivered_at is set
\* on exactly those.
DeliveredMeansActed ==
    \A r \in Rows :
        /\ state[r] = "delivered" => effects[r] > 0
        /\ deliveredAt[r] <=> state[r] = "delivered"

\* Ticks a worker may still need for the rows in its hands.
WorkLeft(w) == Cardinality(batch[w]) * CallTicks - age[w]

\* A lease that outlasts the slowest batch when it is taken outlasts what is
\* left of the batch ever after.
LeaseOutlastsBatch ==
    BatchLimit * CallTicks <= LeaseTicks =>
        \A w \in Workers : \A r \in batch[w] : lease[r] >= WorkLeft(w)

\* A call in progress is for a row of the batch, and is the endpoint's to act on.
CallInBatch ==
    \A w \in Workers :
        /\ current[w] # NoRow => current[w] \in batch[w]
        /\ landed[w] => current[w] # NoRow /\ effects[current[w]] > 0

\* What keeps claims, calls and the writes after them right from step to step.
DeliveryInv ==
    /\ TypeOK
    /\ ExclusiveDelivery
    /\ HeldRowsCurrent
    /\ LeaseOutlastsBatch
    /\ CallInBatch
    /\ AttemptsBounded
    /\ CallsAccounted
    /\ DeliveredMeansActed

\* claim() selects no settled row and deliver() rewrites none (174-182, 211-229): a
\* delivered or dead row keeps its state and is never called again.
SettledIsFinal ==
    [][\A r \in Rows :
          state[r] \in Settled => state'[r] = state[r] /\ calls'[r] = calls[r]]_vars

\* The worker implements the contract of the outbox for the rows it owns.
Phase(r) == IF state[r] \in Settled \cup {"absent"} THEN state[r] ELSE "pending"

Contract == INSTANCE OutboxContract WITH
    Items <- Owned,
    MaxTries <- MaxAttempts,
    phase <- [r \in Owned |-> Phase(r)],
    tries <- [r \in Owned |-> attempts[r]]

\* What claim(), deliver() and a crash do to state and attempts is what the outbox
\* promises: one recorded attempt at a time, never more than the limit, settled once.
ContractSpec == Contract!Spec

\* The abandoned branch of claim() (179-182) and the retry schedule bring every row
\* a worker owns to delivered or dead_letter in the end, crashes and lost leases
\* included.
EventuallySettled == Contract!Settles
=============================================================================
