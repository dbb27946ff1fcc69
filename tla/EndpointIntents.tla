--------------------------- MODULE EndpointIntents ---------------------------
(***************************************************************************)
(* Endpoint intents: requests to act on a host that need two approvers who *)
(* are not the requester (app/api/v1/endpoint_intents.py and               *)
(* app/services/endpoint_intents.py), the command an approved one may      *)
(* become (app/api/v1/platform.py), and the sweep that expires both        *)
(* (app/workers/intent_expiry.py).                                         *)
(*                                                                         *)
(* approve and publish lock the intent's row (FOR UPDATE), decide by the   *)
(* clock and commit later; ack does so with the command's row.  Each is a  *)
(* Begin and an End here, because deadlines pass and the sweep reads in    *)
(* between: the sweep takes no lock until it writes.  create and cancel    *)
(* decide nothing by the clock once they hold their row and are one step.  *)
(* An API key serves one request at a time (see AutomationRuns).  The two  *)
(* queries of a sweep are one read: no intent is in both of their answers. *)
(***************************************************************************)
EXTENDS Integers, FiniteSets

CONSTANTS
    Keys,         \* API keys with the write scope (to publish: admin)
    Intents,      \* intents that may be requested
    Publishable,  \* those of type collect_inventory
    Sweepers,     \* intent-expiry worker processes
    MaxAborts,    \* bound: sweeps that die or are rolled back
    None          \* "nothing under way" or "no requester yet"

ASSUME IntentsAssumption ==
    /\ IsFiniteSet(Keys) /\ IsFiniteSet(Sweepers)
    /\ Publishable \subseteq Intents
    /\ MaxAborts \in Nat
    /\ None \notin Keys

VARIABLES
    state,      \* endpoint_intents.state, or "absent"
    requester,  \* requested_by
    elapsed,    \* whether expires_at has passed
    approvals,  \* actors of the intent's "approved" audit rows
    expiries,   \* number of its "expired" audit rows
    delivery,   \* delivery_state
    command,    \* state of its agent_commands row, or "none"
    polled,     \* whether the agent has been given the command and its nonce
    request,    \* what a key's approve or publish is about to write
    acking,     \* what the agent's ack is about to write
    sweep,      \* what a sweep has read and is about to expire
    aborts      \* sweeps lost so far

vars == <<state, requester, elapsed, approvals, expiries, delivery, command, polled,
          request, acking, sweep, aborts>>

TERMINAL == {"cancelled", "expired", "rejected"}
Decisions == {"pending", "approved", "rejected", "expired"}
IntentStates == {"absent", "cancelled"} \cup Decisions
AckStates == {"completed", "failed", "rejected"}
CommandStates == {"none", "available", "expired"} \cup AckStates
Nothing == [op |-> "none"]
Requests ==
    [op : {"approve"}, intent : Intents, decision : Decisions] \cup
    [op : {"publish"}, intent : Intents]
Sweeps == [intents : SUBSET Intents, commands : SUBSET Intents]
Idle == [intents |-> {}, commands |-> {}]

TypeOK ==
    /\ state \in [Intents -> IntentStates]
    /\ requester \in [Intents -> Keys \cup {None}]
    /\ elapsed \in [Intents -> BOOLEAN]
    /\ approvals \in [Intents -> SUBSET Keys]
    /\ expiries \in [Intents -> Nat]
    /\ delivery \in [Intents -> (CommandStates \ {"none"}) \cup {"not_dispatched"}]
    /\ command \in [Intents -> CommandStates]
    /\ polled \in [Intents -> BOOLEAN]
    /\ request \in [Keys -> Requests \cup {Nothing}]
    /\ acking \in [Intents -> AckStates \cup {"none"}]
    /\ sweep \in [Sweepers -> Sweeps]
    /\ aborts \in 0..MaxAborts

Init ==
    /\ state = [i \in Intents |-> "absent"]
    /\ requester = [i \in Intents |-> None]
    /\ elapsed = [i \in Intents |-> FALSE]
    /\ approvals = [i \in Intents |-> {}]
    /\ expiries = [i \in Intents |-> 0]
    /\ delivery = [i \in Intents |-> "not_dispatched"]
    /\ command = [i \in Intents |-> "none"]
    /\ polled = [i \in Intents |-> FALSE]
    /\ request = [k \in Keys |-> Nothing]
    /\ acking = [i \in Intents |-> "none"]
    /\ sweep = [s \in Sweepers |-> Idle]
    /\ aborts = 0

Locked(i) == \E k \in Keys : request[k] # Nothing /\ request[k].intent = i

-----------------------------------------------------------------------------
(* The control plane. *)

\* An expires_at in the past is accepted and makes the intent expired at birth.
create_intent(k, i, late) ==
    /\ state[i] = "absent"
    /\ request[k] = Nothing
    /\ state' = [state EXCEPT ![i] = IF late THEN "expired" ELSE "pending"]
    /\ requester' = [requester EXCEPT ![i] = k]
    /\ elapsed' = [elapsed EXCEPT ![i] = late]
    /\ UNCHANGED <<approvals, expiries, delivery, command, polled, request, acking, sweep, aborts>>

\* Mutant: the requester counts as an approver.
validate_intent_own(i, approvers) ==
    CASE elapsed[i] -> "expired"
      [] ~elapsed[i] -> IF Cardinality(approvers) < 2 THEN "pending" ELSE "approved"

\* validate_intent, for an intent of an allowed type.
validate_intent(i, approvers) ==
    CASE elapsed[i] -> "expired"
      [] ~elapsed[i] /\ requester[i] \in approvers -> "rejected"
      [] ~elapsed[i] /\ requester[i] \notin approvers ->
            IF Cardinality(approvers) < 2 THEN "pending" ELSE "approved"

\* The intent is taken in whatever state it is.
BeginApprove(k, i) ==
    /\ state[i] # "absent"
    /\ request[k] = Nothing
    /\ ~Locked(i)
    /\ k \notin approvals[i]
    /\ request' = [request EXCEPT ![k] =
          [op |-> "approve", intent |-> i, decision |-> validate_intent(i, approvals[i] \cup {k})]]
    /\ UNCHANGED <<state, requester, elapsed, approvals, expiries, delivery, command, polled,
                   acking, sweep, aborts>>

\* The state becomes the decision; the audit says "approved" whatever it was.
EndApprove(k) ==
    /\ request[k].op = "approve"
    /\ state' = [state EXCEPT ![request[k].intent] = request[k].decision]
    /\ approvals' = [approvals EXCEPT ![request[k].intent] = @ \cup {k}]
    /\ request' = [request EXCEPT ![k] = Nothing]
    /\ UNCHANGED <<requester, elapsed, expiries, delivery, command, polled, acking, sweep, aborts>>

cancel_intent(k, i) ==
    /\ request[k] = Nothing
    /\ ~Locked(i)
    /\ state[i] \notin TERMINAL \cup {"absent", "approved"}
    /\ state' = [state EXCEPT ![i] = "cancelled"]
    /\ UNCHANGED <<requester, elapsed, approvals, expiries, delivery, command, polled, request,
                   acking, sweep, aborts>>

\* Mutant: the intent's state is not checked.
MayPublishPending(i) ==
    /\ command[i] = "none"
    /\ state[i] # "absent"
    /\ i \in Publishable
    /\ ~elapsed[i]

MayPublish(i) ==
    /\ command[i] = "none"
    /\ state[i] = "approved"
    /\ i \in Publishable
    /\ ~elapsed[i]

BeginPublish(k, i) ==
    /\ request[k] = Nothing
    /\ ~Locked(i)
    /\ MayPublish(i)
    /\ request' = [request EXCEPT ![k] = [op |-> "publish", intent |-> i]]
    /\ UNCHANGED <<state, requester, elapsed, approvals, expiries, delivery, command, polled,
                   acking, sweep, aborts>>

EndPublish(k) ==
    /\ request[k].op = "publish"
    /\ command' = [command EXCEPT ![request[k].intent] = "available"]
    /\ delivery' = [delivery EXCEPT ![request[k].intent] = "available"]
    /\ request' = [request EXCEPT ![k] = Nothing]
    /\ UNCHANGED <<state, requester, elapsed, approvals, expiries, polled, acking, sweep, aborts>>

\* The request fails before its commit; get_db rolls it back.
Rollback(k) ==
    /\ request[k] # Nothing
    /\ request' = [request EXCEPT ![k] = Nothing]
    /\ UNCHANGED <<state, requester, elapsed, approvals, expiries, delivery, command, polled,
                   acking, sweep, aborts>>

-----------------------------------------------------------------------------
(* The agent's side. *)

poll_commands(i) ==
    /\ command[i] = "available"
    /\ ~elapsed[i]
    /\ ~polled[i]
    /\ polled' = [polled EXCEPT ![i] = TRUE]
    /\ UNCHANGED <<state, requester, elapsed, approvals, expiries, delivery, command, request,
                   acking, sweep, aborts>>

\* An ack that finds the command expired writes nothing: its update is rolled
\* back with the 409.
BeginAck(i, result) ==
    /\ polled[i]
    /\ acking[i] = "none"
    /\ command[i] = "available"
    /\ ~elapsed[i]
    /\ acking' = [acking EXCEPT ![i] = result]
    /\ UNCHANGED <<state, requester, elapsed, approvals, expiries, delivery, command, polled,
                   request, sweep, aborts>>

\* Mutant: the intent is not told.
EndAckSilently(i) ==
    /\ acking[i] # "none"
    /\ command' = [command EXCEPT ![i] = acking[i]]
    /\ acking' = [acking EXCEPT ![i] = "none"]
    /\ UNCHANGED <<state, requester, elapsed, approvals, expiries, delivery, polled, request,
                   sweep, aborts>>

\* The command's result is copied to its intent, whose row must be free.
EndAck(i) ==
    /\ acking[i] # "none"
    /\ ~Locked(i)
    /\ command' = [command EXCEPT ![i] = acking[i]]
    /\ delivery' = [delivery EXCEPT ![i] = acking[i]]
    /\ acking' = [acking EXCEPT ![i] = "none"]
    /\ UNCHANGED <<state, requester, elapsed, approvals, expiries, polled, request, sweep, aborts>>

LoseAck(i) ==
    /\ acking[i] # "none"
    /\ acking' = [acking EXCEPT ![i] = "none"]
    /\ UNCHANGED <<state, requester, elapsed, approvals, expiries, delivery, command, polled,
                   request, sweep, aborts>>

-----------------------------------------------------------------------------
(* The sweep, and the time it acts on. *)

\* Mutant: the sweep is for commands only.
OverdueCommands == [intents |-> {},
                    commands |-> {i \in Intents : command[i] = "available" /\ elapsed[i]}]

Overdue == [intents |-> {i \in Intents : state[i] = "pending" /\ elapsed[i]},
            commands |-> {i \in Intents : command[i] = "available" /\ elapsed[i]}]

BeginSweep(s) ==
    /\ sweep[s] = Idle
    /\ Overdue # Idle
    /\ sweep' = [sweep EXCEPT ![s] = Overdue]
    /\ UNCHANGED <<state, requester, elapsed, approvals, expiries, delivery, command, polled,
                   request, acking, aborts>>

\* Its updates wait for rows that are locked, then overwrite what they hold.
EndSweep(s) ==
    /\ sweep[s] # Idle
    /\ \A i \in sweep[s].intents \cup sweep[s].commands : ~Locked(i)
    /\ \A i \in sweep[s].commands : acking[i] = "none"
    /\ state' = [i \in Intents |-> IF i \in sweep[s].intents THEN "expired" ELSE state[i]]
    /\ expiries' = [i \in Intents |->
                       IF i \in sweep[s].intents THEN expiries[i] + 1 ELSE expiries[i]]
    /\ command' = [i \in Intents |-> IF i \in sweep[s].commands THEN "expired" ELSE command[i]]
    /\ delivery' = [i \in Intents |-> IF i \in sweep[s].commands THEN "expired" ELSE delivery[i]]
    /\ sweep' = [sweep EXCEPT ![s] = Idle]
    /\ UNCHANGED <<requester, elapsed, approvals, polled, request, acking, aborts>>

\* The worker dies, or loses a deadlock against an ack.
AbortSweep(s) ==
    /\ sweep[s] # Idle
    /\ aborts < MaxAborts
    /\ aborts' = aborts + 1
    /\ sweep' = [sweep EXCEPT ![s] = Idle]
    /\ UNCHANGED <<state, requester, elapsed, approvals, expiries, delivery, command, polled,
                   request, acking>>

Deadline(i) ==
    /\ state[i] # "absent"
    /\ ~elapsed[i]
    /\ elapsed' = [elapsed EXCEPT ![i] = TRUE]
    /\ UNCHANGED <<state, requester, approvals, expiries, delivery, command, polled, request,
                   acking, sweep, aborts>>

-----------------------------------------------------------------------------

End(k) == EndApprove(k) \/ EndPublish(k) \/ Rollback(k)

Next ==
    \/ \E k \in Keys, i \in Intents :
          \/ \E late \in BOOLEAN : create_intent(k, i, late)
          \/ BeginApprove(k, i)
          \/ cancel_intent(k, i)
          \/ BeginPublish(k, i)
    \/ \E k \in Keys : End(k)
    \/ \E i \in Intents :
          \/ poll_commands(i)
          \/ \E result \in AckStates : BeginAck(i, result)
          \/ EndAck(i)
          \/ LoseAck(i)
          \/ Deadline(i)
    \/ \E s \in Sweepers : BeginSweep(s) \/ EndSweep(s) \/ AbortSweep(s)

\* Requests end, by their commit or by their failure, and the sweep worker
\* loops for ever.  A sweep can be held up by locks again and again, but not
\* for ever: Postgres queues it for the row.
Fairness ==
    /\ \A k \in Keys : WF_vars(End(k))
    /\ \A i \in Intents : WF_vars(EndAck(i) \/ LoseAck(i))
    /\ \A s \in Sweepers : WF_vars(BeginSweep(s)) /\ SF_vars(EndSweep(s))

Spec == Init /\ [][Next]_vars
FairSpec == Spec /\ Fairness

-----------------------------------------------------------------------------
(* Correctness. *)

TwoApprovers(i) == \E a, b \in approvals[i] \ {requester[i]} : a # b

\* docs/security.md:93-94: an approved intent has two distinct approvers other
\* than the requester, and the requester is not among those who approved.
ApprovalQuorum ==
    \A i \in Intents : state[i] = "approved" => TwoApprovers(i) /\ requester[i] \notin approvals[i]

\* A command exists only for an intent that two others approved and whose type
\* may be published, also when the intent's own state has moved on since.
CommandAuthorised ==
    \A i \in Intents : command[i] # "none" => TwoApprovers(i) /\ i \in Publishable

\* The delivery state shown on an intent is that of its command, whatever acks
\* and sweeps raced to write it.
DeliveryAgrees ==
    \A i \in Intents :
        delivery[i] = IF command[i] = "none" THEN "not_dispatched" ELSE command[i]

\* FOR UPDATE: one request at a time holds an intent's row.
OneHolder ==
    \A j, k \in Keys :
        request[j] # Nothing /\ request[k] # Nothing /\ request[j].intent = request[k].intent
            => j = k

\* A decision stays justified while the request that made it holds the row.
DecisionsHold ==
    \A k \in Keys : request[k] # Nothing =>
        LET i == request[k].intent IN
        /\ state[i] # "absent"
        /\ request[k].op = "approve" /\ request[k].decision = "approved" =>
              /\ k # requester[i]
              /\ requester[i] \notin approvals[i]
              /\ \E a \in approvals[i] : a # k
        /\ request[k].op = "publish" => TwoApprovers(i) /\ i \in Publishable

\* Only commands that exist are acknowledged or swept, and only intents that do
\* have approvals or commands.
RecordsExist ==
    /\ \A i \in Intents : acking[i] # "none" => command[i] # "none"
    /\ \A s \in Sweepers : \A i \in sweep[s].commands : command[i] # "none"
    /\ \A s \in Sweepers : \A i \in sweep[s].intents : state[i] # "absent"
    /\ \A i \in Intents : state[i] = "absent" => approvals[i] = {}

\* What keeps ApprovalQuorum, CommandAuthorised and DeliveryAgrees true.
IntentsInv ==
    /\ TypeOK
    /\ ApprovalQuorum
    /\ CommandAuthorised
    /\ DeliveryAgrees
    /\ OneHolder
    /\ DecisionsHold
    /\ RecordsExist

\* intent_expiry.py:25-26: sweeps "do not create duplicate audit events", that is, an
\* intent's expiry is audited once.  Sweeps of one worker keep that, although approvals
\* can still arrive when the window has closed; sweeps of two workers that overlap do not.
OneExpiryAudit == \A i \in Intents : expiries[i] <= 1

\* intent_expiry_runner.py:1-7: once its deadline has passed an intent leaves
\* "pending" for good, with approvals, cancellations and lost sweeps around it.
WindowCloses == \A i \in Intents : elapsed[i] ~> [](state[i] # "pending")
=============================================================================
