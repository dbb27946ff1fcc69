----------------------------- MODULE Automation -----------------------------
(***************************************************************************)
(* The automation loop as a whole: the requests of AutomationRuns insert   *)
(* outbox rows, the internal worker (app/workers/internal_automation*.py)  *)
(* turns those of its actions into cases and queued reports, the connector *)
(* worker settles the others, and operators ask for replays of dead        *)
(* letters (app/services/dead_letter_replay.py).                           *)
(*                                                                         *)
(* An internal worker claims, processes and commits in one transaction:    *)
(* its rows stay locked and nobody sees them as "delivering".  It locks no *)
(* run.  process() loads the run of a row when it comes to the row and     *)
(* keeps no reference to it, so that each row of a batch looks at its run  *)
(* at a time of its own, and two rows of one run may see different states. *)
(*                                                                         *)
(* The connector worker appears as its contract (OutboxContract): a row of *)
(* its actions is settled once, one way or the other.                      *)
(***************************************************************************)
EXTENDS AutomationRuns

CONSTANTS
    Internal,    \* the steps whose action is in INTERNAL_ACTIONS
    Workers,     \* internal worker processes
    BatchLimit,  \* rows per claim
    MaxAborts    \* bound on transactions of internal workers that fail

ASSUME AutomationAssumption ==
    /\ Internal \subseteq Steps
    /\ BatchLimit \in Nat
    /\ MaxAborts \in Nat

VARIABLES
    outcome,  \* outcome[r][i]: state of the row of step i of run r, or "absent"
    created,  \* created[r][i]: cases and reports committed for that row
    batch,    \* the rows <<r, i>> that the open transaction of a worker holds
    found,    \* what that transaction found of a row's run: "dispatched", "other"
              \* or, before it comes to the row, "unread"
    aborts,   \* transactions that failed so far
    refused   \* rows whose replay was refused by the database

outboxVars == <<outcome, created, refused>>
workerVars == <<batch, found, aborts>>
loopVars == <<vars, outboxVars, workerVars>>

RowStates == {"absent", "queued", "delivered", "dead_letter"}
Findings == {"unread", "dispatched", "other"}
InternalRows == Runs \X Internal

LoopTypeOK ==
    /\ TypeOK
    /\ outcome \in [Runs -> [Steps -> RowStates]]
    /\ created \in [Runs -> [Internal -> Nat]]
    /\ batch \in [Workers -> SUBSET InternalRows]
    /\ found \in [Workers -> [InternalRows -> Findings]]
    /\ aborts \in 0..MaxAborts
    /\ refused \subseteq Runs \X Steps

Unread == [row \in InternalRows |-> "unread"]

LoopInit ==
    /\ Init
    /\ outcome = [r \in Runs |-> [i \in Steps |-> "absent"]]
    /\ created = [r \in Runs |-> [i \in Internal |-> 0]]
    /\ batch = [w \in Workers |-> {}]
    /\ found = [w \in Workers |-> Unread]
    /\ aborts = 0
    /\ refused = {}

-----------------------------------------------------------------------------
(* Requests. *)

\* The rows that dispatch_run inserts start as queued.
Dispatch(k) ==
    /\ dispatch_run(k)
    /\ outcome' = [outcome EXCEPT ![request[k].run] = [i \in Steps |-> "queued"]]
    /\ UNCHANGED <<created, refused, workerVars>>

\* Every other half of a request leaves the outbox alone.
Control(k) ==
    /\ \/ \E op \in Ops, r \in Runs : Read(k, op, r)
       \/ propose_run(k)
       \/ approve_run(k)
       \/ reject_run(k)
       \/ Rollback(k)
    /\ UNCHANGED <<outboxVars, workerVars>>

\* Dead letters of connector actions only.
Replayable(r, i) == i \notin Internal /\ outcome[r][i] = "dead_letter"

\* A replay locks the dead letter and inserts a second row for its run and step,
\* which goes through only if UNIQUE (run_id, step_index) has none.
Replay(k, r, i) ==
    /\ request[k] = None
    /\ Replayable(r, i)
    /\ IF stored[r][i] = 0
       THEN /\ stored' = [stored EXCEPT ![r][i] = 1]
            /\ outcome' = [outcome EXCEPT ![r][i] = "queued"]
            /\ UNCHANGED refused
       ELSE /\ refused' = refused \cup {<<r, i>>}
            /\ UNCHANGED <<stored, outcome>>
    /\ UNCHANGED <<run, request, created, workerVars>>

-----------------------------------------------------------------------------
(* The connector worker, by its contract. *)

Connector(r, i) ==
    /\ i \notin Internal
    /\ outcome[r][i] = "queued"
    /\ \E settled \in {"delivered", "dead_letter"} :
          outcome' = [outcome EXCEPT ![r][i] = settled]
    /\ UNCHANGED <<vars, created, refused, workerVars>>

-----------------------------------------------------------------------------
(* The internal worker. *)

\* Mutant: FOR UPDATE SKIP LOCKED is missing from the query.
UnlockedQueued == {row \in InternalRows : outcome[row[1]][row[2]] = "queued"}

\* FOR UPDATE SKIP LOCKED: queued rows that no other transaction holds.
Queued ==
    {row \in InternalRows : outcome[row[1]][row[2]] = "queued"}
        \ UNION {batch[w] : w \in Workers}

ClaimRows(w) ==
    /\ batch[w] = {}
    /\ \E S \in SUBSET Queued :
          /\ S # {}
          /\ Cardinality(S) <= BatchLimit
          /\ batch' = [batch EXCEPT ![w] = S]
    /\ UNCHANGED <<vars, outboxVars, found, aborts>>

\* process(): SELECT of the run of a row.
LoadRun(w, row) ==
    /\ row \in batch[w]
    /\ found[w][row] = "unread"
    /\ found' = [found EXCEPT ![w][row] =
                    IF run[row[1]].state = "dispatched" THEN "dispatched" ELSE "other"]
    /\ UNCHANGED <<vars, outboxVars, batch, aborts>>

\* The rows of a batch whose run was found dispatched.
Taken(w) == {row \in batch[w] : found[w][row] = "dispatched"}

\* What a batch leaves behind: a case or report for each row of a dispatched run,
\* a dead letter for each other row.
Marked(w) ==
    /\ outcome' = [r \in Runs |-> [i \in Steps |->
                      IF <<r, i>> \in Taken(w) THEN "delivered"
                      ELSE IF <<r, i>> \in batch[w] THEN "dead_letter"
                      ELSE outcome[r][i]]]
    /\ created' = [r \in Runs |-> [i \in Internal |->
                      IF <<r, i>> \in Taken(w) THEN created[r][i] + 1 ELSE created[r][i]]]

Released(w) ==
    /\ batch' = [batch EXCEPT ![w] = {}]
    /\ found' = [found EXCEPT ![w] = Unread]

CommitBatch(w) ==
    /\ batch[w] # {}
    /\ \A row \in batch[w] : found[w][row] # "unread"
    /\ Marked(w)
    /\ Released(w)
    /\ UNCHANGED <<vars, refused, aborts>>

\* An exception or a crash: everything of the transaction is undone.
AbortBatch(w) ==
    /\ batch[w] # {}
    /\ aborts < MaxAborts
    /\ aborts' = aborts + 1
    /\ Released(w)
    /\ UNCHANGED <<vars, outboxVars>>

-----------------------------------------------------------------------------

LoopNext ==
    \/ \E k \in Keys :
          \/ Dispatch(k)
          \/ Control(k)
          \/ \E r \in Runs, i \in Steps : Replay(k, r, i)
    \/ \E r \in Runs, i \in Steps : Connector(r, i)
    \/ \E w \in Workers :
          \/ ClaimRows(w)
          \/ \E row \in InternalRows : LoadRun(w, row)
          \/ CommitBatch(w)
          \/ AbortBatch(w)

\* main() of the internal runner loops for ever and works off what it claimed.
LoopFairness ==
    \A w \in Workers :
        /\ WF_loopVars(ClaimRows(w))
        /\ \A row \in InternalRows : WF_loopVars(LoadRun(w, row))
        /\ WF_loopVars(CommitBatch(w))

LoopSpec == LoopInit /\ [][LoopNext]_loopVars
FairLoopSpec == LoopSpec /\ LoopFairness

-----------------------------------------------------------------------------
(* Correctness. *)

\* One case or report per internal step, committed together with the row's mark:
\* neither two workers nor a lost transaction create a second one or lose one.
CreatedOnce ==
    \A r \in Runs, i \in Internal :
        created[r][i] = IF outcome[r][i] = "delivered" THEN 1 ELSE 0

\* Nothing takes effect without a recorded approval of its run, from the request to
\* the worker that acts on the row.
EffectsApproved ==
    \A r \in Runs, i \in Steps :
        outcome[r][i] = "delivered" => run[r].approvals # {} /\ run[r].dispatchedAt

\* A run that shows as dispatched has no dead letter among its internal steps: a
\* worker gives a row up only if the run was overwritten after its dispatch, and
\* such a run never shows as dispatched again.
DispatchedNeverDead ==
    \A r \in Runs, i \in Internal :
        run[r].state = "dispatched" => outcome[r][i] # "dead_letter"

\* A row has a state exactly when a dispatch has inserted it.
RowsExist == \A r \in Runs, i \in Steps : outcome[r][i] = "absent" <=> stored[r][i] = 0

\* A row is held by one transaction and is queued as long as it is held.
RowsHeldOnce ==
    /\ \A v, w \in Workers : v # w => batch[v] \cap batch[w] = {}
    /\ \A w \in Workers : \A row \in batch[w] : outcome[row[1]][row[2]] = "queued"

\* What a transaction found is true of the run, or of a run overwritten for good.
FindingsHold ==
    \A w \in Workers, r \in Runs, i \in Internal :
        found[w][<<r, i>>] = "other" => run[r].state # "dispatched" /\ ~Fresh(r)

\* What keeps the three properties true from step to step.
LoopInv ==
    /\ LoopTypeOK
    /\ RunsInv
    /\ RowsExist
    /\ RowsHeldOnce
    /\ FindingsHold
    /\ CreatedOnce
    /\ DispatchedNeverDead

\* With one API key every internal step of a dispatched run takes effect in the
\* end, with workers that lose transactions and requests that fail.
StepsTakeEffect ==
    \A r \in Runs, i \in Internal : stored[r][i] > 0 ~> created[r][i] = 1

\* docs/governance.md:66-67: a replay writes its audit row "alongside the queued
\* replay message": the replay of a dead letter is accepted.
ReplaysAccepted == refused = {}
=============================================================================
