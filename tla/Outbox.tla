------------------------------- MODULE Outbox -------------------------------
(***************************************************************************)
(* The automation_outbox table (app/db/orchestration_models.py) as the     *)
(* delivery workers read and write it.  A row is identified by its         *)
(* (run_id, step_index); its action, target and payload are abstracted to  *)
(* the row's identity.  lease_token is written and never read by the code, *)
(* so it has no counterpart here.                                          *)
(*                                                                         *)
(* The two timestamps the workers compare with now() are kept as the ticks *)
(* that remain until they are reached: lease[r] counts lease_until down    *)
(* and rests at NoLease once lease_until < now (or the column is NULL);    *)
(* available[r] counts available_at down and rests at 0.  This keeps the   *)
(* state finite without a bound on the clock.                              *)
(***************************************************************************)
EXTENDS Integers, Sequences, FiniteSets

CONSTANTS
    Rows,       \* every row the table can ever hold
    RetryUnit,  \* ticks in the 30 seconds of retry_delay
    RetryCap    \* ticks in its 3600 seconds

ASSUME OutboxAssumption ==
    /\ IsFiniteSet(Rows)
    /\ RetryUnit \in Nat
    /\ RetryCap \in Nat

VARIABLES
    state,       \* column state, or "absent" before the row is inserted
    attempts,    \* column attempts
    available,   \* ticks until available_at
    lease,       \* ticks until lease_until has passed
    deliveredAt  \* whether column delivered_at is set

outboxVars == <<state, attempts, available, lease, deliveredAt>>

NoLease == -1
Settled == {"delivered", "dead_letter"}
RowStates == {"absent", "queued", "retry", "delivering"} \cup Settled

OutboxTypeOK ==
    /\ state \in [Rows -> RowStates]
    /\ attempts \in [Rows -> Nat]
    /\ available \in [Rows -> Nat]
    /\ lease \in [Rows -> Nat \cup {NoLease}]
    /\ deliveredAt \in [Rows -> BOOLEAN]

OutboxInit ==
    /\ state = [r \in Rows |-> "absent"]
    /\ attempts = [r \in Rows |-> 0]
    /\ available = [r \in Rows |-> 0]
    /\ lease = [r \in Rows |-> NoLease]
    /\ deliveredAt = [r \in Rows |-> FALSE]

-----------------------------------------------------------------------------
(* What the claim queries select. *)

LeaseOver(r) == lease[r] = NoLease

\* Mutant: dead letters are claimed again.
PendingOrDead(r) ==
    /\ state[r] \in {"queued", "retry", "dead_letter"}
    /\ available[r] = 0
    /\ LeaseOver(r)

Pending(r) ==
    /\ state[r] \in {"queued", "retry"}
    /\ available[r] = 0
    /\ LeaseOver(r)

\* Mutant: the lease is not looked at.
AbandonedAtOnce(r) == state[r] = "delivering"

\* Mutant: rows of a dead worker are not claimed.
AbandonedNever(r) == FALSE

Abandoned(r) == state[r] = "delivering" /\ LeaseOver(r)

-----------------------------------------------------------------------------
(* Writes to the table. *)

\* INSERT of fresh rows; every other column takes its default.
Enqueue(S) ==
    /\ \A r \in S : state[r] = "absent"
    /\ state' = [r \in Rows |-> IF r \in S THEN "queued" ELSE state[r]]
    /\ UNCHANGED <<attempts, available, lease, deliveredAt>>

\* A claim marks the rows of S and leases them for the given ticks.
Lease(S, ticks) ==
    /\ state' = [r \in Rows |-> IF r \in S THEN "delivering" ELSE state[r]]
    /\ lease' = [r \in Rows |-> IF r \in S THEN ticks ELSE lease[r]]
    /\ UNCHANGED <<attempts, available, deliveredAt>>

\* The write that ends an attempt always counts it and drops the lease.
Settle(r, newState, count) ==
    /\ state' = [state EXCEPT ![r] = newState]
    /\ attempts' = [attempts EXCEPT ![r] = count]
    /\ lease' = [lease EXCEPT ![r] = NoLease]

\* One tick of wall-clock time brings every stored timestamp closer.
Elapse ==
    /\ lease' = [r \in Rows |-> IF lease[r] = NoLease THEN NoLease ELSE lease[r] - 1]
    /\ available' = [r \in Rows |-> IF available[r] = 0 THEN 0 ELSE available[r] - 1]
    /\ UNCHANGED <<state, attempts, deliveredAt>>
=============================================================================
