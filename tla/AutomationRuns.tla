--------------------------- MODULE AutomationRuns ---------------------------
(***************************************************************************)
(* The control plane of app/api/v1/orchestration.py: runs are proposed     *)
(* under an idempotency key, approved or rejected, and dispatched, which   *)
(* inserts one automation_outbox row per step of the playbook.             *)
(*                                                                         *)
(* No handler locks the run it reads.  A request is therefore two steps:   *)
(* it loads the run and takes its early returns, and later its writes and  *)
(* the commit of get_db happen at once; requests of other callers come in  *)
(* between.  Requests of one API key do not: get_principal writes          *)
(* last_used_at on the key's row, which is flushed before the handler's    *)
(* first query and stays locked until the commit.  So a key has at most    *)
(* one request under way, and is the actor of its approvals.               *)
(*                                                                         *)
(* A request that changes nothing (404, 409, a repeated proposal or        *)
(* dispatch that returns what is there) has no step.                       *)
(***************************************************************************)
EXTENDS Integers, FiniteSets

CONSTANTS
    Keys,   \* API keys with the write scope
    Runs,   \* idempotency keys; a run is known by the one it was proposed under
    Steps,  \* step indexes of the playbook
    None    \* "no request under way"

VARIABLES
    run,     \* the automation_runs row of an idempotency key
    stored,  \* stored[r][i]: outbox rows that exist for (run_id, step_index)
    request  \* the request of a key between its read and its commit

vars == <<run, stored, request>>

Awaiting == {"proposed", "partially_approved"}
States == {"absent", "approved", "rejected", "dispatched"} \cup Awaiting

RunRows == [state : States, approvals : SUBSET Keys, dispatchedAt : BOOLEAN]
Ops == {"propose", "approve", "reject", "dispatch"}
Requests == [op : Ops, run : Runs, seen : RunRows]

\* A playbook has at least one step (PlaybookCreate.steps, min_length=1).
ASSUME RunsAssumption ==
    /\ Steps # {}
    /\ IsFiniteSet(Keys)
    /\ None \notin Requests

TypeOK ==
    /\ run \in [Runs -> RunRows]
    /\ stored \in [Runs -> [Steps -> Nat]]
    /\ request \in [Keys -> Requests \cup {None}]

Absent == [state |-> "absent", approvals |-> {}, dispatchedAt |-> FALSE]

Init ==
    /\ run = [r \in Runs |-> Absent]
    /\ stored = [r \in Runs |-> [i \in Steps |-> 0]]
    /\ request = [k \in Keys |-> None]

\* propose_run sets this for every run.
required_approvals == 1

-----------------------------------------------------------------------------
(* The first half of a handler: load the run, take the early returns. *)

\* Mutant: dispatch does not wait for the approval.
AcceptsUnapproved(op, k, row) ==
    \/ op = "propose" /\ row.state = "absent"
    \/ op = "approve" /\ row.state \in Awaiting /\ k \notin row.approvals
    \/ op = "reject" /\ row.state \in Awaiting
    \/ op = "dispatch" /\ row.state \in Awaiting \cup {"approved"}

\* Mutant: a run may be rejected whatever its state.
AcceptsAnyReject(op, k, row) ==
    \/ op = "propose" /\ row.state = "absent"
    \/ op = "approve" /\ row.state \in Awaiting /\ k \notin row.approvals
    \/ op = "reject" /\ row.state # "absent"
    \/ op = "dispatch" /\ row.state = "approved"

Accepts(op, k, row) ==
    \/ op = "propose" /\ row.state = "absent"
    \/ op = "approve" /\ row.state \in Awaiting /\ k \notin row.approvals
    \/ op = "reject" /\ row.state \in Awaiting
    \/ op = "dispatch" /\ row.state = "approved"

Read(k, op, r) ==
    /\ request[k] = None
    /\ Accepts(op, k, run[r])
    /\ request' = [request EXCEPT ![k] = [op |-> op, run |-> r, seen |-> run[r]]]
    /\ UNCHANGED <<run, stored>>

-----------------------------------------------------------------------------
(* The second half: an UPDATE writes the columns the handler assigned, from *)
(* the row it loaded, whatever the row holds by now.                        *)

Asked(k, op) == request[k] # None /\ request[k].op = op

Done(k) == request' = [request EXCEPT ![k] = None]

\* UNIQUE (tenant_id, idempotency_key) refuses a second run under the key.
propose_run(k) ==
    LET r == request[k].run IN
    /\ Asked(k, "propose")
    /\ run[r].state = "absent"
    /\ run' = [run EXCEPT ![r] = [Absent EXCEPT !.state = "proposed"]]
    /\ stored' = stored
    /\ Done(k)

Enough(approvals) ==
    IF Cardinality(approvals) >= required_approvals THEN "approved" ELSE "partially_approved"

approve_run(k) ==
    LET r == request[k].run
        approvals == request[k].seen.approvals \cup {k}
    IN
    /\ Asked(k, "approve")
    /\ run' = [run EXCEPT ![r].state = Enough(approvals), ![r].approvals = approvals]
    /\ stored' = stored
    /\ Done(k)

reject_run(k) ==
    /\ Asked(k, "reject")
    /\ run' = [run EXCEPT ![request[k].run].state = "rejected"]
    /\ stored' = stored
    /\ Done(k)

\* UNIQUE (run_id, step_index) refuses a step that is already in the outbox.
Fresh(r) == \A i \in Steps : stored[r][i] = 0

\* Mutant: no unique constraint on (run_id, step_index).
dispatch_run_again(k) ==
    LET r == request[k].run IN
    /\ Asked(k, "dispatch")
    /\ stored' = [stored EXCEPT ![r] = [i \in Steps |-> @[i] + 1]]
    /\ run' = [run EXCEPT ![r].state = "dispatched", ![r].dispatchedAt = TRUE]
    /\ Done(k)

\* Mutant: dispatched_at is not set.
dispatch_run_undated(k) ==
    LET r == request[k].run IN
    /\ Asked(k, "dispatch")
    /\ Fresh(r)
    /\ stored' = [stored EXCEPT ![r] = [i \in Steps |-> @[i] + 1]]
    /\ run' = [run EXCEPT ![r].state = "dispatched"]
    /\ Done(k)

dispatch_run(k) ==
    LET r == request[k].run IN
    /\ Asked(k, "dispatch")
    /\ Fresh(r)
    /\ stored' = [stored EXCEPT ![r] = [i \in Steps |-> @[i] + 1]]
    /\ run' = [run EXCEPT ![r].state = "dispatched", ![r].dispatchedAt = TRUE]
    /\ Done(k)

\* get_db rolls back on any exception: a constraint above, validate_steps, a
\* lost connection.
Rollback(k) ==
    /\ request[k] # None
    /\ Done(k)
    /\ UNCHANGED <<run, stored>>

Commit(k) == propose_run(k) \/ approve_run(k) \/ reject_run(k) \/ dispatch_run(k)

Next ==
    \E k \in Keys :
        \/ \E op \in Ops, r \in Runs : Read(k, op, r)
        \/ Commit(k)
        \/ Rollback(k)

Spec == Init /\ [][Next]_vars

-----------------------------------------------------------------------------
(* Correctness. *)

\* Approval comes first: a run has outbox rows only if someone's approval is on
\* record, whatever the requests of other callers did in between.
ApprovedFirst ==
    \A r \in Runs : ~Fresh(r) => run[r].approvals # {}

\* A run puts all its steps into the outbox, each exactly once, or none: two
\* dispatches, or a dispatch after a late approval reopened the run, add nothing.
DispatchedWhole ==
    \A r \in Runs : Fresh(r) \/ \A i \in Steps : stored[r][i] = 1

\* dispatched_at tells for good whether a run's steps are in the outbox, also
\* when the state column has been overwritten; the state "dispatched" implies it.
DispatchRecorded ==
    \A r \in Runs :
        /\ run[r].dispatchedAt <=> ~Fresh(r)
        /\ run[r].state = "dispatched" => run[r].dispatchedAt

\* What keeps the three true from step to step: approvals once given are only
\* ever replaced by other approvals, and a dispatch under way has read some.
RunsInv ==
    /\ TypeOK
    /\ ApprovedFirst
    /\ DispatchedWhole
    /\ DispatchRecorded
    /\ \A r \in Runs :
          /\ run[r].state \in {"approved", "dispatched"} => run[r].approvals # {}
          /\ run[r].state = "absent" => run[r].approvals = {}
    /\ \A k \in Keys : Asked(k, "dispatch") => run[request[k].run].approvals # {}

\* The life of a run: awaiting approval, then approved or rejected, then
\* dispatched; rejected and dispatched runs stay so.
Moves ==
    {<<"absent", "proposed">>, <<"proposed", "partially_approved">>, <<"proposed", "approved">>,
     <<"partially_approved", "approved">>, <<"proposed", "rejected">>,
     <<"partially_approved", "rejected">>, <<"approved", "dispatched">>}

\* With a single API key requests are served one after the other, and runs keep
\* to their life cycle and keep every approval.
OrderlyLife ==
    [][\A r \in Runs :
          /\ run'[r].state # run[r].state => <<run[r].state, run'[r].state>> \in Moves
          /\ run[r].approvals \subseteq run'[r].approvals]_vars
=============================================================================
