----------------------------- MODULE AgentFleet -----------------------------
(***************************************************************************)
(* The gateway for endpoint agents: enrolment with a single-use key,       *)
(* heartbeats authenticated by the agent's certificate, and the sweep that *)
(* marks silent agents stale (app/api/v1/assets.py, app/services/agents.py,*)
(* app/agent_gateway/mtls.py).                                             *)
(*                                                                         *)
(* A request is one transaction.  It loads the key or the agent without a  *)
(* lock, so what it has read may be overwritten before it commits, and the *)
(* session writes a column only where the value differs from the one it    *)
(* read.  A heartbeat with an inventory takes its agent's row with its     *)
(* first query, reads the asset's software and flushes its changes; then   *)
(* it reads the software as it stands with them, the open exposures and    *)
(* the catalogue, each with a query of its own, and flushes and commits    *)
(* the exposures.  Agents of one hostname share an asset, and only rows    *)
(* that both touch keep them apart.  A heartbeat without an inventory only *)
(* writes when it commits.                                                 *)
(*                                                                         *)
(* Of time it only matters whether an agent's last heartbeat is old enough *)
(* to be stale and whether its certificate has expired; either may happen  *)
(* at any moment, and a heartbeat that commits is recent.                  *)
(***************************************************************************)
EXTENDS Exposure

CONSTANTS
    EnrolKeys,    \* keys with the scope "enroll"
    SingleUse,    \* those that are burned by an enrolment
    Agents,       \* rows agents may get
    Requests,     \* requests served at a time
    MaxFailures   \* bound: requests that are lost to an error or a crash

ASSUME FleetAssumption ==
    /\ SingleUse \subseteq EnrolKeys
    /\ MaxFailures \in Nat

VARIABLES
    key,       \* api_keys.status
    status,    \* agents.status, or "none" where there is no row
    host,      \* the agent's asset
    beat,      \* last_heartbeat_at: "never", "recent", or "old" if before the sweep's cutoff
    expired,   \* whether cert_expires_at has passed
    request,   \* the transactions under way
    due,       \* the agents a sweep has read and is about to mark
    crossed,   \* history: assets on which reports of two agents overlapped
    failures   \* requests lost so far

agents == <<status, host, beat, expired>>
fleet == <<key, agents, request, due, crossed, failures>>
fleetVars == <<tables, fleet>>

Beats == {"never", "recent", "old"}
Idle == [op |-> "none"]
Enrolments == [op : {"enroll"}, key : EnrolKeys, host : Hosts]
Plain == [op : {"plain"}, agent : Agents, saw : {"active", "stale"}]
Reports ==
    [op : {"admitted"}, agent : Agents, saw : {"active", "stale"}, report : SUBSET Packages] \cup
    [op : {"reading", "flushed", "listed", "matched"}, agent : Agents,
     saw : {"active", "stale"}, report : SUBSET Packages, rows : Inventories,
     present : SUBSET Packages, open : SUBSET Vulns, read : Catalogues]

FleetTypeOK ==
    /\ TablesTypeOK
    /\ key \in [EnrolKeys -> {"active", "revoked"}]
    /\ status \in [Agents -> {"none", "active", "stale"}]
    /\ host \in [Agents -> Hosts]
    /\ beat \in [Agents -> Beats]
    /\ expired \in [Agents -> BOOLEAN]
    /\ request \in [Requests -> {Idle} \cup Enrolments \cup Plain \cup Reports]
    /\ due \in SUBSET Agents
    /\ crossed \in SUBSET Hosts
    /\ failures \in 0..MaxFailures

FleetInit ==
    /\ TablesInit
    /\ key = [k \in EnrolKeys |-> "active"]
    /\ status = [a \in Agents |-> "none"]
    /\ host \in [Agents -> Hosts]
    /\ beat = [a \in Agents |-> "never"]
    /\ expired = [a \in Agents |-> FALSE]
    /\ request = [q \in Requests |-> Idle]
    /\ due = {}
    /\ crossed = {}
    /\ failures = 0

-----------------------------------------------------------------------------
(* Enrolment. *)

\* get_principal: the key is read, and found active, without a lock.
BeginEnroll(q, k, h) ==
    /\ request[q] = Idle
    /\ key[k] = "active"
    /\ request' = [request EXCEPT ![q] = [op |-> "enroll", key |-> k, host |-> h]]
    /\ UNCHANGED <<tables, key, agents, due, crossed, failures>>

\* enroll_agent: the asset of that hostname, a new agent with a certificate,
\* and the end of the key.  The identity is the row's, not the caller's claim.
EndEnroll(q, a) ==
    /\ request[q].op = "enroll"
    /\ status[a] = "none"
    /\ host[a] = request[q].host
    /\ status' = [status EXCEPT ![a] = "active"]
    /\ key' = IF request[q].key \in SingleUse
              THEN [key EXCEPT ![request[q].key] = "revoked"] ELSE key
    /\ request' = [request EXCEPT ![q] = Idle]
    /\ UNCHANGED <<tables, host, beat, expired, due, crossed, failures>>

-----------------------------------------------------------------------------
(* Heartbeats. *)

\* resolve_agent_from_request.  A certificate that has expired is refused; the
\* status that is assigned on the way is rolled back with the refusal.
Admitted(a) == status[a] # "none" /\ ~expired[a]

BeginPlain(q, a) ==
    /\ request[q] = Idle
    /\ Admitted(a)
    /\ request' = [request EXCEPT ![q] = [op |-> "plain", agent |-> a, saw |-> status[a]]]
    /\ UNCHANGED <<tables, key, agents, due, crossed, failures>>

BeginReport(q, a, report) ==
    /\ request[q] = Idle
    /\ Admitted(a)
    /\ request' = [request EXCEPT ![q] = [op |-> "admitted", agent |-> a, saw |-> status[a],
                                         report |-> report]]
    /\ UNCHANGED <<tables, key, agents, due, crossed, failures>>

Flushed == {"flushed", "listed", "matched"}
InWork == {"reading"} \cup Flushed

\* Mutant: the agent's row is let go of once its inventory is flushed.
HeldToFlush(q, a) == request[q].op = "reading" /\ request[q].agent = a

\* Requests that hold the agent's row: the first query of an inventory flushes
\* the assignment of last_heartbeat_at.
HoldsAgent(q, a) == request[q].op \in InWork /\ request[q].agent = a
AgentLocked(a) == \E q \in Requests : HoldsAgent(q, a)

\* The asset of a heartbeat.
Asset(q) == host[request[q].agent]

\* Another agent's report on the same asset is being worked on.
Crossing(q) ==
    \E r \in Requests : /\ request[r].op \in InWork
                         /\ request[r].agent # request[q].agent
                         /\ Asset(r) = Asset(q)

ReadBy(r) == [op |-> "reading", agent |-> r.agent, saw |-> r.saw, report |-> r.report,
              rows |-> software[host[r.agent]], present |-> {}, open |-> {}, read |-> Empty]

ReadInventory(q) ==
    /\ request[q].op = "admitted"
    /\ ~AgentLocked(request[q].agent)
    /\ request' = [request EXCEPT ![q] = ReadBy(request[q])]
    /\ crossed' = IF Crossing(q) THEN crossed \cup {Asset(q)} ELSE crossed
    /\ UNCHANGED <<tables, key, agents, due, failures>>

\* Another request's uncommitted changes to a row have to be waited for.
InTheWay(q, r) ==
    /\ request[r].op \in Flushed
    /\ Asset(r) = Asset(q)
    /\ Touched(request[r].rows, request[r].report) \cap
       Touched(request[q].rows, request[q].report) # {}

\* The flush in apply_software_inventory, and recompute_exposure's query for the
\* software: nobody writes the rows of this flush before its commit.
FlushInventory(q) ==
    LET rows == Reconciled(software[Asset(q)], request[q].rows, request[q].report)
    IN  /\ request[q].op = "reading"
        /\ \A r \in Requests \ {q} : ~InTheWay(q, r)
        /\ ~InventoryRefused(software[Asset(q)], request[q].rows, request[q].report)
        /\ request' = [request EXCEPT ![q].op = "flushed", ![q].present = Present(rows)]
        /\ UNCHANGED <<tables, key, agents, due, crossed, failures>>

\* The query for the asset's open exposures.
ReadExposures(q) ==
    /\ request[q].op = "flushed"
    /\ request' = [request EXCEPT ![q].op = "listed", ![q].open = Open(exposure[Asset(q)])]
    /\ UNCHANGED <<tables, key, agents, due, crossed, failures>>

\* The query for the catalogue.
ReadCatalogue(q) ==
    /\ request[q].op = "listed"
    /\ request' = [request EXCEPT ![q].op = "matched", ![q].read = catalogue]
    /\ UNCHANGED <<tables, key, agents, due, crossed, failures>>

\* Mutant: a heartbeat leaves the status alone.
SeenUnshown(a, saw) ==
    /\ beat' = [beat EXCEPT ![a] = "recent"]
    /\ status' = status

\* heartbeat: the agent is active as of now.  Its status is written only if it
\* was read as something else.
Seen(a, saw) ==
    /\ beat' = [beat EXCEPT ![a] = "recent"]
    /\ status' = IF saw = "active" THEN status ELSE [status EXCEPT ![a] = "active"]

EndPlain(q) ==
    /\ request[q].op = "plain"
    /\ ~AgentLocked(request[q].agent)
    /\ Seen(request[q].agent, request[q].saw)
    /\ request' = [request EXCEPT ![q] = Idle]
    /\ UNCHANGED <<tables, key, host, expired, due, crossed, failures>>

\* The flush of the exposures and the commit: others wait for the rows in between.
EndReport(q) ==
    /\ request[q].op = "matched"
    /\ StoreReport(Asset(q), request[q])
    /\ Seen(request[q].agent, request[q].saw)
    /\ request' = [request EXCEPT ![q] = Idle]
    /\ UNCHANGED <<key, host, expired, due, crossed, failures>>

\* A unique key refuses an insert, and the whole heartbeat is rolled back.
InventoryFails(q) ==
    /\ request[q].op = "reading"
    /\ InventoryRefused(software[Asset(q)], request[q].rows, request[q].report)

ExposureFails(q) ==
    /\ request[q].op = "matched"
    /\ ExposureRefused(exposure[Asset(q)], request[q].open,
                       Matched(request[q].present, request[q].read))

\* Mutant: a transaction whose inventory is refused is left open.
RefuseExposures(q) ==
    /\ ExposureFails(q)
    /\ request' = [request EXCEPT ![q] = Idle]
    /\ UNCHANGED <<tables, key, agents, due, crossed, failures>>

Refuse(q) ==
    /\ InventoryFails(q) \/ ExposureFails(q)
    /\ request' = [request EXCEPT ![q] = Idle]
    /\ UNCHANGED <<tables, key, agents, due, crossed, failures>>

\* Any other error, or the death of the process: nothing is kept.
Fail(q) ==
    /\ request[q] # Idle
    /\ failures < MaxFailures
    /\ failures' = failures + 1
    /\ request' = [request EXCEPT ![q] = Idle]
    /\ UNCHANGED <<tables, key, agents, due, crossed>>

-----------------------------------------------------------------------------
(* The sweep and the clock. *)

Silent(a) == status[a] = "active" /\ beat[a] = "old"

BeginSweep ==
    /\ due = {}
    /\ \E a \in Agents : Silent(a)
    /\ due' = {a \in Agents : Silent(a)}
    /\ UNCHANGED <<tables, key, agents, request, crossed, failures>>

\* mark_stale_agents writes what it read, once nobody holds the rows.
EndSweep ==
    /\ due # {}
    /\ \A a \in due : ~AgentLocked(a)
    /\ status' = [a \in Agents |-> IF a \in due THEN "stale" ELSE status[a]]
    /\ due' = {}
    /\ UNCHANGED <<tables, key, host, beat, expired, request, crossed, failures>>

GrowOld(a) ==
    /\ beat[a] = "recent"
    /\ beat' = [beat EXCEPT ![a] = "old"]
    /\ UNCHANGED <<tables, key, status, host, expired, request, due, crossed, failures>>

ExpireCert(a) ==
    /\ status[a] # "none" /\ ~expired[a]
    /\ expired' = [expired EXCEPT ![a] = TRUE]
    /\ UNCHANGED <<tables, key, status, host, beat, request, due, crossed, failures>>

LearnVuln(v, packages) == Learn(v, packages) /\ UNCHANGED fleet

\* The server works on a heartbeat.
Serve(q) == ReadInventory(q) \/ FlushInventory(q) \/ ReadExposures(q) \/ ReadCatalogue(q)

\* The server's own steps, which no client asks for.
ServerNext ==
    \/ \E q \in Requests : Serve(q)
    \/ BeginSweep \/ EndSweep
    \/ \E a \in Agents : GrowOld(a) \/ ExpireCert(a)
    \/ \E v \in Vulns, packages \in SUBSET Packages : LearnVuln(v, packages)

FleetNext ==
    \/ \E q \in Requests, k \in EnrolKeys, h \in Hosts : BeginEnroll(q, k, h)
    \/ \E q \in Requests, a \in Agents : EndEnroll(q, a)
    \/ \E q \in Requests, a \in Agents : BeginPlain(q, a)
    \/ \E q \in Requests, a \in Agents, r \in SUBSET Packages : BeginReport(q, a, r)
    \/ \E q \in Requests : EndPlain(q) \/ EndReport(q) \/ Refuse(q) \/ Fail(q)
    \/ ServerNext

FleetSpec == FleetInit /\ [][FleetNext]_fleetVars

-----------------------------------------------------------------------------
(* Properties. *)

\* What is open is what the packages the asset shows match in the catalogue, as its
\* last report read it.
ExposureFollows(h) == Open(exposure[h]) = Matched(Present(software[h]), basis[h])

\* An asset's open exposures are those of the software it shows: what stopped matching is
\* resolved, what is resolved does not match, and nothing that matches is missing, whatever
\* reports are refused or lost and whatever the catalogue becomes in between (recompute_exposure
\* after apply_software_inventory).  It holds of agents that have their asset to themselves.
ExposureFollowsInventory == \A h \in Hosts : ExposureFollows(h)

\* The same for agents that share an asset, as long as no reports of two of them overlap:
\* an agent's own requests are kept apart by its row (the autoflush of last_heartbeat_at).
UncrossedFollows == \A h \in Hosts \ crossed : ExposureFollows(h)
=============================================================================
