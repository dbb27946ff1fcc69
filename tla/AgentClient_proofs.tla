------------------------- MODULE AgentClient_proofs -------------------------
(***************************************************************************)
(* Theorems of AgentFleet and AgentClient, for any hosts, agents,          *)
(* packages, vulnerabilities, commands, requests and failures.             *)
(***************************************************************************)
EXTENDS AgentClient, TLAPS

-----------------------------------------------------------------------------
(* The gateway's types. *)

\* apply_software_inventory leaves an inventory.
LEMMA ReconciledIsInventory ==
    ASSUME NEW now \in Inventories, NEW old, NEW report
    PROVE  Reconciled(now, old, report) \in Inventories
BY DEF Reconciled, Inventories, SoftwareStates

\* recompute_exposure leaves a state for each vulnerability.
LEMMA RecomputedIsExposure ==
    ASSUME NEW now \in [Vulns -> ExposureStates], NEW open, NEW matched
    PROVE  Recomputed(now, open, matched) \in [Vulns -> ExposureStates]
BY DEF Recomputed, ExposureStates

\* A heartbeat's inventory leaves tables.
LEMMA StoredTables ==
    ASSUME TablesTypeOK, NEW h \in Hosts, NEW r, r.read \in Catalogues, StoreReport(h, r)
    PROVE  TablesTypeOK'
<1> DEFINE rows == Reconciled(software[h], r.rows, r.report)
           found == Recomputed(exposure[h], r.open, Matched(r.present, r.read))
<1>1. rows \in Inventories  BY ReconciledIsInventory DEF TablesTypeOK
<1>2. found \in [Vulns -> ExposureStates]  BY RecomputedIsExposure DEF TablesTypeOK
<1>3. /\ software' = [software EXCEPT ![h] = rows]
      /\ exposure' = [exposure EXCEPT ![h] = found]
      /\ basis' = [basis EXCEPT ![h] = r.read]
      /\ catalogue' = catalogue
  BY DEF StoreReport, TablesTypeOK
<1> QED  BY <1>1, <1>2, <1>3 DEF TablesTypeOK

\* Reports the server works on.
Worked ==
    [op : InWork, agent : Agents, saw : {"active", "stale"}, report : SUBSET Packages,
     rows : Inventories, present : SUBSET Packages, open : SUBSET Vulns, read : Catalogues]

\* Requests of each kind have their fields.
LEMMA RequestFields ==
    ASSUME FleetTypeOK, NEW q \in Requests
    PROVE  /\ request[q] \in {Idle} \cup Enrolments \cup Plain \cup Reports
           /\ request[q].op = "enroll" =>
                request[q].key \in EnrolKeys /\ request[q].host \in Hosts
           /\ request[q].op \in {"plain", "admitted"} \cup InWork => request[q].agent \in Agents
           /\ request[q].op \in {"admitted"} \cup InWork =>
                request[q].report \subseteq Packages /\ request[q].saw \in {"active", "stale"}
           /\ request[q].op \in InWork => /\ request[q] \in Worked
                                         /\ request[q].rows \in Inventories
                                         /\ request[q].read \in Catalogues
<1> request[q] \in {Idle} \cup Enrolments \cup Plain \cup Reports  BY DEF FleetTypeOK
<1> QED  BY DEF Idle, Enrolments, Plain, Reports, Worked, InWork, Flushed

\* What a query adds to a request that is being worked on.
LEMMA WorkedOn ==
    ASSUME FleetTypeOK, NEW q \in Requests, request[q].op \in InWork, NEW stage \in InWork,
           NEW present \in SUBSET Packages, NEW open \in SUBSET Vulns, NEW read \in Catalogues
    PROVE  /\ [request[q] EXCEPT !.op = stage, !.present = present] \in Reports
           /\ [request[q] EXCEPT !.op = stage, !.open = open] \in Reports
           /\ [request[q] EXCEPT !.op = stage, !.read = read] \in Reports
<1>1. request[q] \in Worked  BY RequestFields
<1>2. \A x \in Worked : x \in Reports  BY DEF Worked, Reports, InWork, Flushed
<1>3. /\ [request[q] EXCEPT !.op = stage, !.present = present] \in Worked
      /\ [request[q] EXCEPT !.op = stage, !.open = open] \in Worked
      /\ [request[q] EXCEPT !.op = stage, !.read = read] \in Worked
  BY <1>1 DEF Worked
<1> QED  BY <1>2, <1>3

\* A heartbeat shows its agent as active and recent.
LEMMA SeenTyped ==
    ASSUME FleetTypeOK, NEW a \in Agents, NEW saw, Seen(a, saw)
    PROVE  beat' \in [Agents -> Beats] /\ status' \in [Agents -> {"none", "active", "stale"}]
BY DEF FleetTypeOK, Seen, Beats

\* Every step of the gateway leaves rows, requests and the sweep with their types.
LEMMA FleetTyped == FleetTypeOK /\ [FleetNext]_fleetVars => FleetTypeOK'
<1> SUFFICES ASSUME FleetTypeOK, [FleetNext]_fleetVars
             PROVE  FleetTypeOK'
  OBVIOUS
<1> USE DEF FleetTypeOK
<1>1. ASSUME NEW q \in Requests, NEW k \in EnrolKeys, NEW h \in Hosts, BeginEnroll(q, k, h)
      PROVE  FleetTypeOK'
  <2>1. [op |-> "enroll", key |-> k, host |-> h] \in Enrolments  BY DEF Enrolments
  <2> QED  BY <1>1, <2>1 DEF BeginEnroll, TablesTypeOK, tables, agents
<1>2. ASSUME NEW q \in Requests, NEW a \in Agents, EndEnroll(q, a)
      PROVE  FleetTypeOK'
  <2>1. key' \in [EnrolKeys -> {"active", "revoked"}]  BY <1>2 DEF EndEnroll
  <2> QED  BY <1>2, <2>1 DEF EndEnroll, TablesTypeOK, tables, agents
<1>3. ASSUME NEW q \in Requests, NEW a \in Agents, BeginPlain(q, a)
      PROVE  FleetTypeOK'
  <2>1. [op |-> "plain", agent |-> a, saw |-> status[a]] \in Plain
    BY <1>3 DEF BeginPlain, Admitted, Plain
  <2> QED  BY <1>3, <2>1 DEF BeginPlain, TablesTypeOK, tables, agents
<1>4. ASSUME NEW q \in Requests, NEW a \in Agents, NEW r \in SUBSET Packages,
             BeginReport(q, a, r)
      PROVE  FleetTypeOK'
  <2>1. [op |-> "admitted", agent |-> a, saw |-> status[a], report |-> r] \in Reports
    BY <1>4 DEF BeginReport, Admitted, Reports
  <2> QED  BY <1>4, <2>1 DEF BeginReport, TablesTypeOK, tables, agents
<1>5. ASSUME NEW q \in Requests, EndPlain(q)
      PROVE  FleetTypeOK'
  <2>1. request[q].agent \in Agents  BY <1>5, RequestFields DEF EndPlain
  <2>2. beat' \in [Agents -> Beats] /\ status' \in [Agents -> {"none", "active", "stale"}]
    BY <1>5, <2>1, SeenTyped DEF EndPlain
  <2> QED  BY <1>5, <2>2 DEF EndPlain, TablesTypeOK, tables, agents
<1>6. ASSUME NEW q \in Requests, EndReport(q)
      PROVE  FleetTypeOK'
  <2>1. /\ request[q].agent \in Agents /\ Asset(q) \in Hosts
        /\ request[q].read \in Catalogues
    BY <1>6, RequestFields DEF EndReport, Asset, InWork, Flushed
  <2>2. beat' \in [Agents -> Beats] /\ status' \in [Agents -> {"none", "active", "stale"}]
    BY <1>6, <2>1, SeenTyped DEF EndReport
  <2>3. TablesTypeOK'  BY <1>6, <2>1, StoredTables DEF EndReport
  <2> QED  BY <1>6, <2>2, <2>3 DEF EndReport
<1>7. ASSUME NEW q \in Requests, Refuse(q) \/ Fail(q)
      PROVE  FleetTypeOK'
  BY <1>7, FleetAssumption DEF Refuse, Fail, TablesTypeOK, tables, agents
<1>8. ASSUME NEW q \in Requests, ReadInventory(q)
      PROVE  FleetTypeOK'
  <2>1. ReadBy(request[q]) \in Reports
    <3>1. /\ request[q].agent \in Agents /\ request[q].saw \in {"active", "stale"}
          /\ request[q].report \subseteq Packages
      BY <1>8, RequestFields DEF ReadInventory
    <3>2. software[host[request[q].agent]] \in Inventories  BY <3>1 DEF TablesTypeOK
    <3>3. Empty \in Catalogues  BY DEF Empty, Catalogues
    <3> QED  BY <3>1, <3>2, <3>3 DEF ReadBy, Reports
  <2>2. crossed' \subseteq Hosts
    <3>1. Asset(q) \in Hosts  BY <1>8, RequestFields DEF ReadInventory, Asset
    <3> QED  BY <1>8, <3>1 DEF ReadInventory
  <2> QED  BY <1>8, <2>1, <2>2 DEF ReadInventory, TablesTypeOK, tables, agents
<1>9. ASSUME NEW q \in Requests, FlushInventory(q) \/ ReadExposures(q) \/ ReadCatalogue(q)
      PROVE  FleetTypeOK'
  <2>1. /\ request[q].op \in InWork
        /\ UNCHANGED <<tables, key, agents, due, crossed, failures>>
    BY <1>9 DEF FlushInventory, ReadExposures, ReadCatalogue, InWork, Flushed
  <2>2. PICK r \in Reports : request' = [request EXCEPT ![q] = r]
    <3>1. \A rows : Present(rows) \subseteq Packages  BY DEF Present
    <3>2. \A rows : Open(rows) \subseteq Vulns  BY DEF Open
    <3>3. catalogue \in Catalogues  BY DEF TablesTypeOK
    <3>4. /\ {"flushed", "listed", "matched"} \subseteq InWork
          /\ {} \subseteq Packages /\ {} \subseteq Vulns
      BY DEF InWork, Flushed
    <3>5. CASE FlushInventory(q)
      <4>1. PICK present \in SUBSET Packages :
               request' = [request EXCEPT ![q].op = "flushed", ![q].present = present]
        BY <3>1, <3>5 DEF FlushInventory
      <4>2. request' = [request EXCEPT ![q] = [request[q] EXCEPT !.op = "flushed",
                                                               !.present = present]]
        BY <4>1
      <4> QED  BY <2>1, <3>3, <3>4, <4>2, WorkedOn
    <3>6. CASE ReadExposures(q)
      <4>1. PICK open \in SUBSET Vulns :
               request' = [request EXCEPT ![q].op = "listed", ![q].open = open]
        BY <3>2, <3>6 DEF ReadExposures
      <4>2. request' = [request EXCEPT ![q] = [request[q] EXCEPT !.op = "listed", !.open = open]]
        BY <4>1
      <4> QED  BY <2>1, <3>3, <3>4, <4>2, WorkedOn
    <3>7. CASE ReadCatalogue(q)
      <4>1. request' = [request EXCEPT ![q] = [request[q] EXCEPT !.op = "matched",
                                                               !.read = catalogue]]
        BY <3>7 DEF ReadCatalogue
      <4> QED  BY <2>1, <3>3, <3>4, <4>1, WorkedOn
    <3> QED  BY <1>9, <3>5, <3>6, <3>7
  <2> QED  BY <2>1, <2>2 DEF TablesTypeOK, tables, agents
<1>10. ASSUME BeginSweep \/ EndSweep
       PROVE  FleetTypeOK'
  BY <1>10 DEF BeginSweep, EndSweep, TablesTypeOK, tables, agents
<1>11. ASSUME NEW a \in Agents, GrowOld(a) \/ ExpireCert(a)
       PROVE  FleetTypeOK'
  BY <1>11 DEF GrowOld, ExpireCert, Beats, TablesTypeOK, tables, agents
<1>12. ASSUME NEW v \in Vulns, NEW packages \in SUBSET Packages, LearnVuln(v, packages)
       PROVE  FleetTypeOK'
  <2>1. catalogue' \in Catalogues  BY <1>12 DEF LearnVuln, Learn, TablesTypeOK, Catalogues
  <2> QED  BY <1>12, <2>1 DEF LearnVuln, Learn, fleet, agents, TablesTypeOK
<1>13. CASE UNCHANGED fleetVars
  BY <1>13 DEF fleetVars, fleet, agents, tables, TablesTypeOK
<1> QED
  BY <1>1, <1>2, <1>3, <1>4, <1>5, <1>6, <1>7, <1>8, <1>9, <1>10, <1>11, <1>12, <1>13
     DEF FleetNext, ServerNext, Serve

-----------------------------------------------------------------------------
(* Exposure follows the inventory. *)

\* The initial tables are empty.
LEMMA FleetTypedAtFirst == FleetInit => FleetTypeOK
BY FleetAssumption
   DEF FleetInit, TablesInit, FleetTypeOK, TablesTypeOK, Inventories, SoftwareStates,
       ExposureStates, Catalogues, Empty, Beats

\* The gateway's rows, requests and sweeps keep their types.
THEOREM FleetTypeCorrect == FleetSpec => []FleetTypeOK
BY FleetTypedAtFirst, FleetTyped, PTL DEF FleetSpec

\* Two reports that are worked on at once are of two agents, so that they cross if they
\* are on one asset.
OneWorker ==
    \A q, r \in Requests :
        q # r /\ request[q].op \in InWork /\ request[r].op \in InWork /\ Asset(q) = Asset(r)
            => Asset(q) \in crossed

\* What a report has read of an asset that is not crossed is still so.
ReadsCurrent(q) ==
    request[q].op \in InWork /\ Asset(q) \notin crossed =>
        /\ request[q].op \in Flushed =>
              request[q].present =
                  Present(Reconciled(software[Asset(q)], request[q].rows, request[q].report))
        /\ request[q].op \in {"listed", "matched"} => request[q].open = Open(exposure[Asset(q)])

ExposureInv ==
    /\ UncrossedFollows
    /\ OneWorker
    /\ \A q \in Requests : ReadsCurrent(q)

\* A report whose reads are current leaves open what the catalogue it read matches.
LEMMA StoredFollows ==
    ASSUME TablesTypeOK, NEW h \in Hosts, NEW r, StoreReport(h, r),
           r.present = Present(Reconciled(software[h], r.rows, r.report)),
           r.open = Open(exposure[h])
    PROVE  ExposureFollows(h)'
<1> DEFINE matched == Matched(r.present, r.read)
           found == Recomputed(exposure[h], r.open, matched)
<1>1. /\ ~ExposureRefused(exposure[h], r.open, matched)
      /\ software'[h] = Reconciled(software[h], r.rows, r.report)
      /\ exposure'[h] = found
      /\ basis'[h] = r.read
  BY DEF StoreReport, TablesTypeOK
<1>2. matched \subseteq Vulns  BY DEF Matched
<1>3. ASSUME NEW v \in Vulns
      PROVE  found[v] = "open" <=> v \in matched
  <2> HIDE DEF matched
  <2>1. v \in r.open <=> exposure[h][v] = "open"  BY DEF Open
  <2> QED  BY <2>1 DEF Recomputed
<1>4. Open(exposure'[h]) = matched  BY <1>1, <1>2, <1>3 DEF Open
<1>5. Matched(Present(software'[h]), basis'[h]) = matched  BY <1>1
<1> QED  BY <1>4, <1>5 DEF ExposureFollows

\* A step that starts no work on a report, and leaves the assets' rows.
LEMMA RowsKept ==
    ASSUME ExposureInv, UNCHANGED <<software, exposure, basis, host, crossed>>,
           \A q \in Requests : request'[q] = request[q] \/ request'[q].op \notin InWork
    PROVE  ExposureInv'
<1>1. UncrossedFollows'
  BY DEF ExposureInv, UncrossedFollows, ExposureFollows
<1>2. OneWorker'  BY DEF ExposureInv, OneWorker, Asset
<1>3. ASSUME NEW q \in Requests
      PROVE  ReadsCurrent(q)'
  BY DEF ExposureInv, ReadsCurrent, Asset
<1> QED  BY <1>1, <1>2, <1>3 DEF ExposureInv

\* A step that goes on with a report, and reads what is so.
LEMMA ReadsKept ==
    ASSUME ExposureInv, FleetTypeOK, UNCHANGED <<software, exposure, basis, host, crossed>>,
           NEW q \in Requests, request[q].op \in InWork, request'[q].agent = request[q].agent,
           ReadsCurrent(q)', \A r \in Requests \ {q} : request'[r] = request[r]
    PROVE  ExposureInv'
<1>1. UncrossedFollows'
  BY DEF ExposureInv, UncrossedFollows, ExposureFollows
<1>2. \A r \in Requests : /\ Asset(r)' = Asset(r)
                          /\ request'[r].op \in InWork => request[r].op \in InWork
  BY DEF Asset
<1>3. OneWorker'  BY <1>2 DEF ExposureInv, OneWorker
<1>4. ASSUME NEW r \in Requests \ {q}
      PROVE  ReadsCurrent(r)'
  BY <1>2 DEF ExposureInv, ReadsCurrent
<1> QED  BY <1>1, <1>3, <1>4 DEF ExposureInv

\* The first query of a report crosses any other on its asset.
LEMMA BegunKept ==
    ASSUME ExposureInv, FleetTypeOK, NEW q \in Requests, ReadInventory(q)
    PROVE  ExposureInv'
<1>1. /\ request[q].op = "admitted" /\ ~AgentLocked(request[q].agent)
      /\ request'[q].op = "reading" /\ request'[q].agent = request[q].agent
      /\ \A r \in Requests \ {q} : request'[r] = request[r]
      /\ crossed' = IF Crossing(q) THEN crossed \cup {Asset(q)} ELSE crossed
      /\ UNCHANGED <<software, exposure, basis, host>>
  BY DEF ReadInventory, ReadBy, FleetTypeOK, tables, agents
<1>2. \A r \in Requests : Asset(r)' = Asset(r)
  BY <1>1 DEF Asset
<1>3. crossed \subseteq crossed'  BY <1>1
<1>4. UncrossedFollows'
  BY <1>1, <1>3 DEF ExposureInv, UncrossedFollows, ExposureFollows
<1>5. ASSUME NEW r \in Requests \ {q}, request[r].op \in InWork, Asset(r) = Asset(q)
      PROVE  Asset(q) \in crossed'
  <2>1. request[r].agent # request[q].agent  BY <1>1, <1>5 DEF AgentLocked, HoldsAgent
  <2>2. Crossing(q)  BY <1>5, <2>1 DEF Crossing
  <2> QED  BY <1>1, <2>2
<1>6. OneWorker'
  <2> SUFFICES ASSUME NEW r \in Requests, NEW t \in Requests, r # t, request'[r].op \in InWork,
                      request'[t].op \in InWork, Asset(r) = Asset(t)
               PROVE  Asset(r) \in crossed'
    BY <1>2 DEF OneWorker
  <2>1. CASE r = q \/ t = q  BY <1>1, <1>5, <2>1
  <2>2. CASE r # q /\ t # q  BY <1>1, <1>3, <2>2 DEF ExposureInv, OneWorker
  <2> QED  BY <2>1, <2>2
<1>7. ASSUME NEW r \in Requests
      PROVE  ReadsCurrent(r)'
  <2>1. CASE r = q  BY <1>1, <2>1 DEF ReadsCurrent, Flushed
  <2>2. CASE r # q  BY <1>1, <1>2, <1>3, <2>2 DEF ExposureInv, ReadsCurrent
  <2> QED  BY <2>1, <2>2
<1> QED  BY <1>4, <1>6, <1>7 DEF ExposureInv

\* The commit of a report that nothing crosses finds its reads current, and no other is
\* at work on its asset.
LEMMA CommitKept ==
    ASSUME ExposureInv, FleetTypeOK, NEW q \in Requests, EndReport(q)
    PROVE  ExposureInv'
<1>1. /\ request[q].op = "matched" /\ StoreReport(Asset(q), request[q])
      /\ request'[q].op \notin InWork
      /\ \A r \in Requests \ {q} : request'[r] = request[r]
      /\ UNCHANGED <<host, crossed>>
  BY DEF EndReport, FleetTypeOK, Idle, InWork, Flushed
<1>2. Asset(q) \in Hosts
  BY <1>1, RequestFields DEF Asset, FleetTypeOK, InWork, Flushed
<1>3. \A g \in Hosts \ {Asset(q)} : /\ software'[g] = software[g]
                                     /\ exposure'[g] = exposure[g] /\ basis'[g] = basis[g]
  BY <1>1 DEF StoreReport, FleetTypeOK, TablesTypeOK
<1>4. \A r \in Requests \ {q} : Asset(r)' = Asset(r)  BY <1>1 DEF Asset
<1>5. UncrossedFollows'
  <2> SUFFICES ASSUME NEW g \in Hosts, g \notin crossed
               PROVE  ExposureFollows(g)'
    BY <1>1 DEF UncrossedFollows
  <2>1. CASE g = Asset(q)
    <3>1. ReadsCurrent(q)  BY DEF ExposureInv
    <3>2. /\ request[q].present =
               Present(Reconciled(software[Asset(q)], request[q].rows, request[q].report))
          /\ request[q].open = Open(exposure[Asset(q)])
      BY <1>1, <2>1, <3>1 DEF ReadsCurrent, InWork, Flushed
    <3> QED  BY <1>1, <1>2, <2>1, <3>2, StoredFollows DEF FleetTypeOK
  <2>2. CASE g # Asset(q)
    BY <1>3, <2>2 DEF ExposureInv, UncrossedFollows, ExposureFollows
  <2> QED  BY <2>1, <2>2
<1>6. OneWorker'
  BY <1>1, <1>4 DEF ExposureInv, OneWorker
<1>7. ASSUME NEW r \in Requests
      PROVE  ReadsCurrent(r)'
  <2>1. CASE r = q  BY <1>1, <2>1 DEF ReadsCurrent
  <2>2. CASE r # q /\ request[r].op \in InWork /\ Asset(r) = Asset(q)
    <3>1. Asset(r) \in crossed  BY <1>1, <2>2 DEF ExposureInv, OneWorker, InWork, Flushed
    <3> QED  BY <1>1, <1>4, <2>2, <3>1 DEF ReadsCurrent
  <2>3. CASE r # q /\ request[r].op \in InWork /\ Asset(r) # Asset(q)
    <3>1. Asset(r) \in Hosts  BY <2>3, RequestFields DEF Asset, FleetTypeOK
    <3> QED  BY <1>1, <1>3, <1>4, <2>3, <3>1 DEF ExposureInv, ReadsCurrent
  <2>4. CASE r # q /\ request[r].op \notin InWork  BY <1>1, <2>4 DEF ReadsCurrent
  <2> QED  BY <2>1, <2>2, <2>3, <2>4
<1> QED  BY <1>5, <1>6, <1>7 DEF ExposureInv

\* Every step of the gateway keeps exposures with the inventories, and reads current.
LEMMA ExposureKept == FleetTypeOK /\ ExposureInv /\ [FleetNext]_fleetVars => ExposureInv'
<1> SUFFICES ASSUME FleetTypeOK, ExposureInv, [FleetNext]_fleetVars
             PROVE  ExposureInv'
  OBVIOUS
<1> USE DEF tables, agents
<1>0. DOMAIN request = Requests  BY DEF FleetTypeOK
<1>1. ASSUME NEW q \in Requests, NEW r, request' = [request EXCEPT ![q] = r],
             r.op \notin InWork, UNCHANGED <<software, exposure, basis, host, crossed>>
      PROVE  ExposureInv'
  BY <1>0, <1>1, RowsKept
<1>2. ASSUME NEW q \in Requests, NEW k \in EnrolKeys, NEW h \in Hosts, BeginEnroll(q, k, h)
      PROVE  ExposureInv'
  BY <1>1, <1>2 DEF BeginEnroll, InWork, Flushed
<1>3. ASSUME NEW q \in Requests, NEW a \in Agents, EndEnroll(q, a)
      PROVE  ExposureInv'
  BY <1>1, <1>3 DEF EndEnroll, Idle, InWork, Flushed
<1>4. ASSUME NEW q \in Requests, NEW a \in Agents,
             BeginPlain(q, a) \/ \E r \in SUBSET Packages : BeginReport(q, a, r)
      PROVE  ExposureInv'
  BY <1>1, <1>4 DEF BeginPlain, BeginReport, InWork, Flushed
<1>5. ASSUME NEW q \in Requests, EndPlain(q) \/ Refuse(q) \/ Fail(q)
      PROVE  ExposureInv'
  BY <1>1, <1>5 DEF EndPlain, Refuse, Fail, Idle, InWork, Flushed
<1>6. ASSUME NEW q \in Requests, FlushInventory(q) \/ ReadExposures(q) \/ ReadCatalogue(q)
      PROVE  ExposureInv'
  <2>1. /\ request[q].op \in InWork
        /\ UNCHANGED <<software, exposure, basis, host, crossed>>
    BY <1>6 DEF FlushInventory, ReadExposures, ReadCatalogue, InWork, Flushed
  <2>2. request[q] \in Worked  BY <2>1, RequestFields
  <2>3. /\ \A r \in Requests \ {q} : request'[r] = request[r]
        /\ request'[q].agent = request[q].agent
    BY <1>0, <1>6, <2>2 DEF FlushInventory, ReadExposures, ReadCatalogue, Worked
  <2>4. Asset(q)' = Asset(q)  BY <2>1, <2>3 DEF Asset
  <2>5. ReadsCurrent(q)'
    <3>1. CASE FlushInventory(q)
      <4>1. /\ request'[q].op = "flushed" /\ request'[q].rows = request[q].rows
            /\ request'[q].report = request[q].report
            /\ request'[q].present =
                 Present(Reconciled(software[Asset(q)], request[q].rows, request[q].report))
        BY <1>0, <2>2, <3>1 DEF FlushInventory, Worked
      <4> QED  BY <2>1, <2>4, <4>1 DEF ReadsCurrent
    <3>2. CASE ReadExposures(q)
      <4>1. /\ request[q].op = "flushed" /\ request'[q].op = "listed"
            /\ request'[q].rows = request[q].rows /\ request'[q].report = request[q].report
            /\ request'[q].present = request[q].present
            /\ request'[q].open = Open(exposure[Asset(q)])
        BY <1>0, <2>2, <3>2 DEF ReadExposures, Worked
      <4> QED  BY <2>1, <2>4, <4>1 DEF ExposureInv, ReadsCurrent, InWork, Flushed
    <3>3. CASE ReadCatalogue(q)
      <4>1. /\ request[q].op = "listed" /\ request'[q].op = "matched"
            /\ request'[q].rows = request[q].rows /\ request'[q].report = request[q].report
            /\ request'[q].present = request[q].present /\ request'[q].open = request[q].open
        BY <1>0, <2>2, <3>3 DEF ReadCatalogue, Worked
      <4> QED  BY <2>1, <2>4, <4>1 DEF ExposureInv, ReadsCurrent, InWork, Flushed
    <3> QED  BY <1>6, <3>1, <3>2, <3>3
  <2> QED  BY <2>1, <2>3, <2>5, ReadsKept
<1>7. CASE UNCHANGED <<request, software, exposure, basis, host, crossed>>
  BY <1>7, RowsKept
<1>8. \/ \E q \in Requests : ReadInventory(q) \/ EndReport(q)
      \/ \E q \in Requests, k \in EnrolKeys, h \in Hosts : BeginEnroll(q, k, h)
      \/ \E q \in Requests, a \in Agents : EndEnroll(q, a)
      \/ \E q \in Requests, a \in Agents :
            BeginPlain(q, a) \/ \E r \in SUBSET Packages : BeginReport(q, a, r)
      \/ \E q \in Requests : EndPlain(q) \/ Refuse(q) \/ Fail(q)
      \/ \E q \in Requests : FlushInventory(q) \/ ReadExposures(q) \/ ReadCatalogue(q)
      \/ UNCHANGED <<request, software, exposure, basis, host, crossed>>
  BY DEF FleetNext, ServerNext, Serve, BeginSweep, EndSweep, GrowOld, ExpireCert, LearnVuln,
         Learn, fleet, fleetVars
<1> QED
  BY <1>2, <1>3, <1>4, <1>5, <1>6, <1>7, <1>8, BegunKept, CommitKept

\* Nothing is open at first, nothing matches and nobody is at work.
LEMMA FollowsAtFirst == FleetInit => ExposureInv
<1> SUFFICES ASSUME FleetInit
             PROVE  ExposureInv
  OBVIOUS
<1>1. \A q \in Requests : request[q].op \notin InWork
  BY DEF FleetInit, Idle, InWork, Flushed
<1>2. ASSUME NEW h \in Hosts
      PROVE  Open(exposure[h]) = {} /\ Matched(Present(software[h]), basis[h]) = {}
  BY DEF FleetInit, TablesInit, Open, Matched, Empty
<1> QED  BY <1>1, <1>2 DEF ExposureInv, UncrossedFollows, ExposureFollows, OneWorker, ReadsCurrent

\* For every number of agents on an asset its exposures are those of the software it shows,
\* unless reports of two of them overlap (recompute_exposure after apply_software_inventory).
THEOREM ExposuresFollow == FleetSpec => []UncrossedFollows
<1>1. ExposureInv => UncrossedFollows  BY DEF ExposureInv
<1> QED
  BY <1>1, FleetTypeCorrect, FollowsAtFirst, ExposureKept, PTL DEF FleetSpec

-----------------------------------------------------------------------------
(* The agent's processes.  Where one of them is says what it waits for and what it has  *)
(* in memory; its identity is an agent of its own host; and the commands it has in hand *)
(* were published for that agent.                                                       *)

Waiting == {"enrolling", "beating", "reporting"}
InPoll == {"handling", "reporting", "acking"}

\* A process waits for a request of its own, which is still under way.
WaitsForOwn ==
    \A h \in Hosts :
        /\ awaits[h] # NoRequest <=> pc[h] \in Waiting
        /\ awaits[h] # NoRequest => request[awaits[h]] # Idle
        /\ \A g \in Hosts : awaits[h] # NoRequest /\ awaits[g] = awaits[h] => g = h
        /\ pc[h] = "enrolling" => request[awaits[h]].op = "enroll" /\ request[awaits[h]].host = h

\* The identity file names an agent of this host, once the host has enrolled.
IdentityOwn ==
    \A h \in Hosts :
        /\ identity[h] # NoAgent => status[identity[h]] # "none" /\ host[identity[h]] = h
        /\ pc[h] \notin {"down", "enrolling"} => identity[h] # NoAgent
        /\ pc[h] = "enrolling" => identity[h] = NoAgent

\* Commands are in hand only during a poll, and are the agent's own.
CommandsOwn ==
    \A h \in Hosts :
        /\ pc[h] \notin InPoll => seen[h] = {} /\ todo[h] = {}
        /\ pc[h] \in {"reporting", "acking"} <=> current[h] # NoCommand
        /\ \A c \in todo[h] \cup {current[h]} :
              c \in Commands => command[c] # "none" /\ target[c] = identity[h]

\* Nonces that were seen belong to commands that are settled, or to the one in hand.
SeenSettled ==
    \A h \in Hosts : \A c \in seen[h] : command[c] \in Settled \/ c = current[h]

ClientInv == WaitsForOwn /\ IdentityOwn

-----------------------------------------------------------------------------

\* A new request takes a slot that was free.
LEMMA SlotIsFree == ASSUME NEW q \in Slots PROVE q \in Requests /\ request[q] = Idle
<1>1. FreeSlots # {} /\ q = CHOOSE r \in FreeSlots : TRUE  BY DEF Slots
<1>2. q \in FreeSlots  BY <1>1
<1> QED  BY <1>2 DEF FreeSlots

\* What goes wrong between client and server changes nothing at the server.
Mishap ==
    /\ failures < MaxFailures /\ failures' = failures + 1
    /\ UNCHANGED <<tables, key, agents, request, due, crossed>>

\* Every step of a client or of the server without it is one of the gateway, or a mishap.
LEMMA GatewaySteps ==
    ASSUME TypeOK, ClientInv, [Next]_vars
    PROVE  [FleetNext]_fleetVars \/ Mishap
<1>1. ASSUME NEW h \in Hosts, ClientStep(h)
      PROVE  [FleetNext]_fleetVars
  <2>0. /\ pc[h] \in Waiting => awaits[h] \in Requests
        /\ pc[h] \notin {"down", "enrolling"} => identity[h] \in Agents
    BY DEF TypeOK, ClientInv, WaitsForOwn, IdentityOwn
  <2>1. CASE Resume(h)  BY <2>1 DEF Resume
  <2>2. CASE Enrol(h)  BY <2>2, SlotIsFree DEF Enrol, FleetNext
  <2>3. CASE Enrolled(h)  BY <2>3, <2>0 DEF Enrolled, Waiting, FleetNext
  <2>4. CASE Heartbeat(h)  BY <2>4, <2>0, SlotIsFree DEF Heartbeat, SendReport, FleetNext
  <2>5. CASE Answered(h)  BY <2>5, <2>0 DEF Answered, Waiting, FleetNext
  <2>6. CASE Unanswered(h)  BY <2>6, <2>0 DEF Unanswered, Waiting, FleetNext
  <2>7. CASE Poll(h)  BY <2>7 DEF Poll
  <2>8. CASE Handle(h)
    <3>1. ASSUME NEW c, Run(h, c), pc[h] = "handling"
          PROVE  [FleetNext]_fleetVars
      BY <3>1, <2>0, SlotIsFree DEF Run, SendReport, FleetNext
    <3> QED  BY <2>8, <3>1 DEF Handle, Replay
  <2>9. CASE Reported(h)  BY <2>9, <2>0 DEF Reported, Waiting, FleetNext
  <2>10. CASE Ack(h) \/ Save(h) \/ CycleRefused(h)  BY <2>10 DEF Ack, Save, CycleRefused
  <2> QED
    BY <1>1, <2>1, <2>2, <2>3, <2>4, <2>5, <2>6, <2>7, <2>8, <2>9, <2>10 DEF ClientStep
<1>2. ASSUME NEW h \in Hosts, CycleLost(h) \/ GiveUp(h) \/ Crash(h)
      PROVE  Mishap
  BY <1>2 DEF CycleLost, GiveUp, Crash, Mishap
<1>3. ASSUME NEW h \in Hosts, EnrolmentFails(h)
      PROVE  FleetNext
  <2>1. awaits[h] \in Requests
    BY <1>3 DEF EnrolmentFails, TypeOK, ClientInv, WaitsForOwn, Waiting
  <2> QED  BY <1>3, <2>1 DEF EnrolmentFails, FleetNext
<1>4. ASSUME NEW q \in Requests, FinishAbandoned(q)
      PROVE  FleetNext
  BY <1>4 DEF FinishAbandoned, FleetNext
<1>5. CASE ServerNext  BY <1>5 DEF FleetNext
<1>6. ASSUME NEW c \in Commands, Publish(c) \/ Lapse(c)
      PROVE  UNCHANGED fleetVars
  BY <1>6 DEF Publish, Lapse
<1>7. CASE UNCHANGED vars  BY <1>7 DEF vars
<1> QED
  BY <1>1, <1>2, <1>3, <1>4, <1>5, <1>6, <1>7 DEF Next

\* So the gateway's types and its exposures are kept.
LEMMA GatewayKept ==
    ASSUME TypeOK, ClientInv, [Next]_vars
    PROVE  FleetTypeOK' /\ (ExposureInv => ExposureInv')
<1>1. CASE [FleetNext]_fleetVars  BY <1>1, FleetTyped, ExposureKept DEF TypeOK
<1>2. CASE Mishap
  <2>1. FleetTypeOK'  
    BY <1>2, FleetAssumption DEF Mishap, TypeOK, FleetTypeOK, TablesTypeOK, tables, agents
  <2>2. UNCHANGED <<request, software, exposure, basis, host, crossed>>
    BY <1>2 DEF Mishap, tables, agents
  <2> QED  BY <2>1, <2>2, RowsKept
<1> QED  BY <1>1, <1>2, GatewaySteps

\* Agents stay on their host; none loses its row, or its certificate's expiry.
LEMMA AgentsStay ==
    ASSUME TypeOK, [FleetNext]_fleetVars \/ Mishap
    PROVE  /\ host' = host
           /\ \A a \in Agents : status[a] # "none" => status'[a] # "none"
           /\ \A a \in Agents : expired[a] => expired'[a]
<1> USE DEF TypeOK, FleetTypeOK
<1>1. ASSUME NEW q \in Requests, EndPlain(q) \/ EndReport(q)
      PROVE  host' = host /\ expired' = expired
             /\ \A a \in Agents : status[a] # "none" => status'[a] # "none"
  BY <1>1 DEF EndPlain, EndReport, Seen
<1>2. CASE Mishap  BY <1>2 DEF Mishap, agents
<1>3. CASE FleetNext
  BY <1>1, <1>3
     DEF FleetNext, ServerNext, BeginEnroll, EndEnroll, BeginPlain, BeginReport, Refuse, Fail,
         Serve, ReadInventory, FlushInventory, ReadExposures, ReadCatalogue, BeginSweep,
         EndSweep, GrowOld, ExpireCert, LearnVuln, fleet, agents
<1>4. CASE UNCHANGED fleetVars  BY <1>4 DEF fleetVars, fleet, agents, tables
<1> QED  BY <1>2, <1>3, <1>4

\* A process that goes on, and at most starts a request of its own in a free slot.
LEMMA GoesOn ==
    ASSUME TypeOK, WaitsForOwn, NEW h \in Hosts, NEW place \in Places,
           NEW q \in Requests \cup {NoRequest}, Go(h, place, q),
           q # NoRequest <=> place \in Waiting,
           q # NoRequest => request[q] = Idle /\ request'[q] # Idle,
           place = "enrolling" => request'[q].op = "enroll" /\ request'[q].host = h,
           \A r \in Requests : r # awaits[h] /\ r # q => request'[r] = request[r]
    PROVE  WaitsForOwn'
<1>1. pc' = [pc EXCEPT ![h] = place] /\ awaits' = [awaits EXCEPT ![h] = q]  BY DEF Go
<1>2. /\ pc \in [Hosts -> Places] /\ awaits \in [Hosts -> Requests \cup {NoRequest}]
      /\ NoRequest \notin Requests
  BY ClientAssumption DEF TypeOK
<1>3. pc'[h] = place /\ awaits'[h] = q  BY <1>1, <1>2
<1>4. ASSUME NEW g \in Hosts, g # h
      PROVE  /\ pc'[g] = pc[g] /\ awaits'[g] = awaits[g]
             /\ awaits[g] # NoRequest => /\ awaits[g] # q
                                         /\ request'[awaits[g]] = request[awaits[g]]
  <2>1. pc'[g] = pc[g] /\ awaits'[g] = awaits[g]  BY <1>1, <1>2, <1>4
  <2>2. ASSUME awaits[g] # NoRequest
        PROVE  awaits[g] # q /\ request'[awaits[g]] = request[awaits[g]]
    <3>1. awaits[g] \in Requests /\ request[awaits[g]] # Idle /\ awaits[g] # awaits[h]
      BY <1>2, <1>4, <2>2 DEF WaitsForOwn
    <3>2. awaits[g] # q  BY <1>2, <3>1
    <3> QED  BY <3>1, <3>2
  <2> QED  BY <2>1, <2>2
<1>5. ASSUME NEW g \in Hosts
      PROVE  /\ awaits'[g] # NoRequest <=> pc'[g] \in Waiting
             /\ awaits'[g] # NoRequest => request'[awaits'[g]] # Idle
             /\ \A f \in Hosts : awaits'[g] # NoRequest /\ awaits'[f] = awaits'[g] => f = g
             /\ pc'[g] = "enrolling" =>
                  request'[awaits'[g]].op = "enroll" /\ request'[awaits'[g]].host = g
  <2>1. CASE g = h  BY <1>3, <1>4, <2>1
  <2>2. CASE g # h
    <3>1. pc'[g] = "enrolling" => awaits[g] # NoRequest  BY <1>4, <2>2 DEF WaitsForOwn, Waiting
    <3>2. ASSUME NEW f \in Hosts, awaits'[g] # NoRequest, awaits'[f] = awaits'[g]
          PROVE  f = g
      BY <1>3, <1>4, <2>2, <3>2 DEF WaitsForOwn
    <3> QED  BY <1>4, <2>2, <3>1, <3>2 DEF WaitsForOwn
  <2> QED  BY <2>1, <2>2
<1> QED  BY <1>5 DEF WaitsForOwn

\* The server goes on with requests that are waited for without ending them.
LEMMA ServerGoesOn ==
    ASSUME TypeOK, WaitsForOwn, UNCHANGED <<pc, awaits>>,
           \A h \in Hosts : awaits[h] # NoRequest =>
               /\ request'[awaits[h]] # Idle
               /\ request[awaits[h]].op = "enroll" => request'[awaits[h]] = request[awaits[h]]
    PROVE  WaitsForOwn'
BY DEF WaitsForOwn, Waiting

\* Each step keeps what processes wait for.
LEMMA WaitsKept == TypeOK /\ ClientInv /\ [Next]_vars => WaitsForOwn'
<1> SUFFICES ASSUME TypeOK, ClientInv, [Next]_vars
             PROVE  WaitsForOwn'
  OBVIOUS
<1>0. /\ WaitsForOwn /\ NoRequest \notin Requests
      /\ pc \in [Hosts -> Places] /\ awaits \in [Hosts -> Requests \cup {NoRequest}]
      /\ DOMAIN request = Requests
  BY ClientAssumption DEF ClientInv, TypeOK, FleetTypeOK
<1>1. ASSUME NEW h \in Hosts, NEW place \in Places \ Waiting, Go(h, place, NoRequest),
             \A r \in Requests : r # awaits[h] => request'[r] = request[r]
      PROVE  WaitsForOwn'
  BY <1>0, <1>1, GoesOn DEF Waiting
<1>2. ASSUME NEW h \in Hosts, NEW place \in Places \ Waiting, Go(h, place, NoRequest),
             UNCHANGED request
      PROVE  WaitsForOwn'
  BY <1>1, <1>2
<1>3. ASSUME NEW h \in Hosts, NEW q \in Slots, NEW place \in {"beating", "reporting"},
             Go(h, place, q), BeginPlain(q, identity[h]) \/ SendReport(q, h)
      PROVE  WaitsForOwn'
  <2>1. q \in Requests /\ request[q] = Idle  BY SlotIsFree
  <2>2. request'[q] # Idle /\ \A r \in Requests : r # q => request'[r] = request[r]
    BY <1>0, <1>3, <2>1 DEF SendReport, BeginPlain, BeginReport, Idle
  <2> QED  BY <1>0, <1>3, <2>1, <2>2, GoesOn DEF Places, Waiting
<1>4. ASSUME NEW q, EndPlain(q) \/ EndReport(q) \/ Refuse(q) \/ Fail(q) \/ \E a : EndEnroll(q, a)
      PROVE  \A r \in Requests : r # q => request'[r] = request[r]
  BY <1>0, <1>4 DEF EndPlain, EndReport, Refuse, Fail, EndEnroll
<1>5. ASSUME NEW h \in Hosts, ClientStep(h)
      PROVE  WaitsForOwn'
  <2>1. CASE Resume(h)  BY <2>1, <1>2 DEF Resume, Places, Waiting, fleetVars, fleet, agents, tables
  <2>2. CASE Enrol(h)
    <3>1. PICK q \in Slots, k \in EnrolKeys : BeginEnroll(q, k, h) /\ Go(h, "enrolling", q)
      BY <2>2 DEF Enrol
    <3>2. q \in Requests /\ request[q] = Idle  BY SlotIsFree
    <3>3. /\ request'[q].op = "enroll" /\ request'[q].host = h /\ request'[q] # Idle
          /\ \A r \in Requests : r # q => request'[r] = request[r]
      BY <1>0, <3>1, <3>2 DEF BeginEnroll, Idle
    <3> QED  BY <1>0, <3>1, <3>2, <3>3, GoesOn DEF Places, Waiting
  <2>3. CASE Enrolled(h)  BY <2>3, <1>1, <1>4 DEF Enrolled, Places, Waiting
  <2>4. CASE Heartbeat(h)  BY <2>4, <1>3 DEF Heartbeat
  <2>5. CASE Answered(h)  BY <2>5, <1>1, <1>4 DEF Answered, Places, Waiting
  <2>6. CASE Unanswered(h)  BY <2>6, <1>1, <1>4 DEF Unanswered, Places, Waiting
  <2>7. CASE Poll(h)  BY <2>7, <1>2 DEF Poll, Places, Waiting, fleetVars, fleet, agents, tables
  <2>8. CASE Handle(h)
    <3>1. ASSUME NEW c, Replay(h, c)
          PROVE  WaitsForOwn'
      BY <3>1, <1>2 DEF Replay, Places, Waiting, fleetVars, fleet, agents, tables
    <3>2. ASSUME NEW c, Run(h, c)
          PROVE  WaitsForOwn'
      BY <3>2, <1>2, <1>3 DEF Run, Places, Waiting, fleetVars, fleet, agents, tables
    <3> QED  BY <2>8, <3>1, <3>2 DEF Handle
  <2>9. CASE Reported(h)  BY <2>9, <1>1, <1>4 DEF Reported, Places, Waiting
  <2>10. CASE Ack(h) \/ Save(h) \/ CycleRefused(h)
    BY <2>10, <1>2 DEF Ack, Save, CycleRefused, Places, Waiting, fleetVars, fleet, agents, tables
  <2> QED
    BY <1>5, <2>1, <2>2, <2>3, <2>4, <2>5, <2>6, <2>7, <2>8, <2>9, <2>10 DEF ClientStep
<1>6. ASSUME NEW h \in Hosts, CycleLost(h) \/ GiveUp(h) \/ Crash(h) \/ EnrolmentFails(h)
      PROVE  WaitsForOwn'
  <2>1. CASE CycleLost(h) \/ Crash(h)
    BY <2>1, <1>2 DEF CycleLost, Crash, Places, Waiting
  <2>2. CASE GiveUp(h)
    <3>1. pc[h] \in Waiting  BY <1>0, <2>2 DEF GiveUp, WaitsForOwn
    <3> QED  BY <2>2, <3>1, <1>2 DEF GiveUp, Places, Waiting
  <2>3. CASE EnrolmentFails(h)  BY <2>3, <1>1, <1>4 DEF EnrolmentFails, Places, Waiting
  <2> QED  BY <1>6, <2>1, <2>2, <2>3
<1>7. ASSUME NEW q \in Requests, FinishAbandoned(q)
      PROVE  WaitsForOwn'
  <2>1. /\ \A h \in Hosts : awaits[h] # q
        /\ \A r \in Requests : r # q => request'[r] = request[r]
        /\ UNCHANGED <<pc, awaits>>
    BY <1>4, <1>7 DEF FinishAbandoned, Abandoned, client
  <2>2. \A h \in Hosts : awaits[h] # NoRequest =>
           request'[awaits[h]] = request[awaits[h]] /\ request[awaits[h]] # Idle
    BY <1>0, <2>1 DEF WaitsForOwn
  <2> QED  BY <1>0, <2>1, <2>2, ServerGoesOn
<1>8. CASE ServerNext /\ UNCHANGED client
  <2>1. ASSUME NEW r \in Requests, request[r] # Idle
        PROVE  /\ request'[r] # Idle
               /\ request[r].op = "enroll" => request'[r] = request[r]
    <3>1. ASSUME NEW q \in Requests, Serve(q)
          PROVE  request'[r] # Idle /\ (request[r].op = "enroll" => request'[r] = request[r])
      <4>1. /\ request[q].op \in {"admitted"} \cup InWork /\ request'[q].op \in InWork
            /\ \A t \in Requests \ {q} : request'[t] = request[t]
        <5>1. CASE ReadInventory(q)
          BY <1>0, <5>1 DEF ReadInventory, ReadBy, InWork, Flushed
        <5>2. CASE FlushInventory(q) \/ ReadExposures(q) \/ ReadCatalogue(q)
          <6>1. request[q].op \in InWork
            BY <5>2 DEF FlushInventory, ReadExposures, ReadCatalogue, InWork, Flushed
          <6>2. request[q] \in Worked  BY <6>1, RequestFields DEF TypeOK
          <6> QED
            BY <1>0, <5>2, <6>1, <6>2
               DEF FlushInventory, ReadExposures, ReadCatalogue, Worked, InWork, Flushed
        <5> QED  BY <3>1, <5>1, <5>2 DEF Serve
      <4> QED  BY <2>1, <4>1 DEF Idle, InWork, Flushed
    <3>2. CASE UNCHANGED request  BY <2>1, <3>2
    <3>3. (\E q \in Requests : Serve(q)) \/ UNCHANGED request
      BY <1>8 DEF ServerNext, BeginSweep, EndSweep, GrowOld, ExpireCert, LearnVuln, fleet
    <3> QED  BY <3>1, <3>2, <3>3
  <2>2. UNCHANGED <<pc, awaits>>  BY <1>8 DEF client
  <2>3. \A h \in Hosts : awaits[h] # NoRequest =>
           awaits[h] \in Requests /\ request[awaits[h]] # Idle
    BY <1>0 DEF WaitsForOwn
  <2> QED  BY <1>0, <2>1, <2>2, <2>3, ServerGoesOn
<1>9. CASE UNCHANGED vars \/ \E c \in Commands : Publish(c) \/ Lapse(c)
  <2>1. UNCHANGED <<pc, awaits, request>>
    BY <1>9 DEF vars, fleetVars, fleet, client, Publish, Lapse
  <2> QED  BY <1>0, <2>1 DEF WaitsForOwn
<1> QED
  BY <1>5, <1>6, <1>7, <1>8, <1>9 DEF Next

\* Each step keeps identities.
LEMMA IdentityKept == TypeOK /\ ClientInv /\ [Next]_vars => IdentityOwn'
<1> SUFFICES ASSUME TypeOK, ClientInv, [Next]_vars
             PROVE  IdentityOwn'
  OBVIOUS
<1>0. /\ IdentityOwn /\ WaitsForOwn
      /\ pc \in [Hosts -> Places] /\ identity \in [Hosts -> Agents \cup {NoAgent}]
      /\ host' = host /\ \A a \in Agents : status[a] # "none" => status'[a] # "none"
  BY GatewaySteps, AgentsStay DEF ClientInv, TypeOK
<1>1. ASSUME identity' = identity,
             \A h \in Hosts : /\ pc'[h] \in {"down", "enrolling"} \/ identity[h] # NoAgent
                              /\ pc'[h] = "enrolling" => identity[h] = NoAgent
      PROVE  IdentityOwn'
  BY <1>0, <1>1 DEF IdentityOwn
<1>2. ASSUME NEW h \in Hosts, NEW place, NEW q, Go(h, place, q), identity' = identity,
             place \in {"down", "enrolling"} \/ identity[h] # NoAgent,
             place = "enrolling" => identity[h] = NoAgent
      PROVE  IdentityOwn'
  <2>1. \A g \in Hosts : pc'[g] = IF g = h THEN place ELSE pc[g]  BY <1>0, <1>2 DEF Go
  <2> QED  BY <1>0, <1>1, <1>2, <2>1 DEF IdentityOwn
<1>3. ASSUME NEW h \in Hosts, Enrolled(h)
      PROVE  IdentityOwn'
  <2>1. PICK a \in Agents : EndEnroll(awaits[h], a) /\ identity' = [identity EXCEPT ![h] = a]
    BY <1>3 DEF Enrolled
  <2>2. /\ host[a] = h /\ status'[a] # "none" /\ a # NoAgent
        /\ pc' = [pc EXCEPT ![h] = "ready"]
    BY <1>0, <1>3, <2>1, ClientAssumption
       DEF Enrolled, EndEnroll, WaitsForOwn, Go, TypeOK, FleetTypeOK
  <2> QED  BY <1>0, <2>1, <2>2 DEF IdentityOwn
<1>4. ASSUME NEW h \in Hosts, ClientStep(h)
      PROVE  IdentityOwn'
  <2>1. CASE Resume(h)  BY <2>1, <1>2 DEF Resume, files
  <2>2. CASE Enrol(h)  BY <2>2, <1>2 DEF Enrol, files
  <2>3. CASE Heartbeat(h) \/ Answered(h) \/ Unanswered(h) \/ Poll(h)
    BY <2>3, <1>0, <1>2 DEF Heartbeat, Answered, Unanswered, Poll, files, IdentityOwn
  <2>4. CASE Handle(h)
    BY <2>4, <1>0, <1>2 DEF Handle, Replay, Run, files, IdentityOwn
  <2>5. CASE Reported(h) \/ Ack(h) \/ Save(h) \/ CycleRefused(h)
    BY <2>5, <1>0, <1>2 DEF Reported, Ack, Save, CycleRefused, files, IdentityOwn
  <2> QED  BY <1>3, <1>4, <2>1, <2>2, <2>3, <2>4, <2>5 DEF ClientStep
<1>5. ASSUME NEW h \in Hosts, CycleLost(h) \/ GiveUp(h) \/ Crash(h) \/ EnrolmentFails(h)
      PROVE  IdentityOwn'
  <2>1. CASE GiveUp(h)
    <3>1. pc[h] \in Waiting  BY <1>0, <2>1 DEF GiveUp, WaitsForOwn
    <3> QED  BY <2>1, <3>1, <1>0, <1>2 DEF GiveUp, Waiting, files, IdentityOwn
  <2>2. CASE CycleLost(h) \/ Crash(h) \/ EnrolmentFails(h)
    BY <2>2, <1>0, <1>2 DEF CycleLost, Crash, EnrolmentFails, files, IdentityOwn
  <2> QED  BY <1>5, <2>1, <2>2
<1>6. CASE UNCHANGED <<pc, identity>>  BY <1>0, <1>1, <1>6 DEF IdentityOwn
<1>7. \/ \E h \in Hosts : \/ ClientStep(h)
                          \/ CycleLost(h) \/ GiveUp(h) \/ Crash(h) \/ EnrolmentFails(h)
      \/ UNCHANGED <<pc, identity>>
  BY DEF Next, FinishAbandoned, Publish, Lapse, client, vars, files
<1> QED
  BY <1>4, <1>5, <1>6, <1>7

\* A report under way is of the agent whose identity its host has, so that no two agents
\* report for one asset.
SoleReporters ==
    /\ crossed = {}
    /\ \A q \in Requests :
          request[q].op \in {"admitted"} \cup InWork => identity[Asset(q)] = request[q].agent

\* A host that has an identity keeps it.
LEMMA IdentityStays ==
    ASSUME TypeOK, ClientInv, [Next]_vars
    PROVE  \A h \in Hosts : identity[h] # NoAgent => identity'[h] = identity[h]
<1>1. ASSUME NEW h \in Hosts, Enrolled(h)
      PROVE  \A g \in Hosts : identity[g] # NoAgent => identity'[g] = identity[g]
  <2>1. identity[h] = NoAgent  BY <1>1 DEF Enrolled, ClientInv, IdentityOwn
  <2> QED  BY <1>1, <2>1 DEF Enrolled, TypeOK
<1>2. (\E h \in Hosts : Enrolled(h)) \/ identity' = identity
  BY DEF Next, ClientStep, Resume, Enrol, Heartbeat, Answered, Unanswered, Poll, Handle, Replay,
         Run, Reported, Ack, Save, CycleRefused, CycleLost, GiveUp, Crash, EnrolmentFails,
         FinishAbandoned, Publish, Lapse, client, vars, files
<1> QED  BY <1>1, <1>2

\* Only an agent's own process sends reports; any other step starts none.
LEMMA ReportsAreOwn ==
    ASSUME TypeOK, ClientInv, [Next]_vars
    PROVE  \/ \E h \in Hosts, q \in Requests : SendReport(q, h) /\ identity[h] # NoAgent
           \/ \E q \in Requests : Serve(q)
           \/ /\ UNCHANGED <<host, crossed>>
              /\ \A q \in Requests : \/ request'[q] = request[q]
                                     \/ request'[q].op \in {"none", "enroll", "plain"}
<1> DEFINE Quiet == /\ UNCHANGED <<host, crossed>>
                    /\ \A q \in Requests : \/ request'[q] = request[q]
                                           \/ request'[q].op \in {"none", "enroll", "plain"}
<1>0. DOMAIN request = Requests  BY DEF TypeOK, FleetTypeOK
<1>1. ASSUME NEW q, \/ \E k, h : BeginEnroll(q, k, h)
                    \/ \E a : EndEnroll(q, a) \/ BeginPlain(q, a)
                    \/ EndPlain(q) \/ EndReport(q) \/ Refuse(q) \/ Fail(q)
      PROVE  Quiet
  BY <1>0, <1>1 DEF BeginEnroll, EndEnroll, BeginPlain, EndPlain, EndReport, Refuse, Fail, Idle,
                    agents
<1>2. CASE UNCHANGED <<host, crossed, request>>  BY <1>2
<1>3. ASSUME NEW h \in Hosts, ClientStep(h)
      PROVE  Quiet \/ \E q \in Requests : SendReport(q, h) /\ identity[h] # NoAgent
  <2>0. pc[h] \in {"ready", "handling"} => identity[h] # NoAgent  BY DEF ClientInv, IdentityOwn
  <2>1. CASE Enrol(h) \/ Enrolled(h) \/ Answered(h) \/ Unanswered(h) \/ Reported(h)
    BY <2>1, <1>1 DEF Enrol, Enrolled, Answered, Unanswered, Reported
  <2>2. CASE Heartbeat(h)
    BY <2>0, <2>2, <1>1, SlotIsFree DEF Heartbeat
  <2>3. CASE Handle(h)
    BY <2>0, <2>3, <1>2, SlotIsFree DEF Handle, Replay, Run, fleetVars, fleet, agents
  <2>4. CASE Resume(h) \/ Poll(h) \/ Ack(h) \/ Save(h) \/ CycleRefused(h)
    BY <2>4, <1>2 DEF Resume, Poll, Ack, Save, CycleRefused, fleetVars, fleet, agents
  <2> QED  BY <1>3, <2>1, <2>2, <2>3, <2>4 DEF ClientStep
<1>4. ASSUME NEW h \in Hosts, CycleLost(h) \/ GiveUp(h) \/ Crash(h) \/ EnrolmentFails(h)
      PROVE  Quiet
  <2>1. CASE EnrolmentFails(h)  BY <2>1, <1>1 DEF EnrolmentFails
  <2>2. CASE CycleLost(h) \/ GiveUp(h) \/ Crash(h)
    BY <2>2, <1>2 DEF CycleLost, GiveUp, Crash, agents
  <2> QED  BY <1>4, <2>1, <2>2
<1>5. ASSUME NEW q \in Requests, FinishAbandoned(q)
      PROVE  Quiet
  BY <1>1, <1>5 DEF FinishAbandoned
<1>6. CASE ServerNext
  <2>1. (\E q \in Requests : Serve(q)) \/ UNCHANGED <<host, crossed, request>>
    BY <1>6 DEF ServerNext, BeginSweep, EndSweep, GrowOld, ExpireCert, LearnVuln, fleet, agents
  <2> QED  BY <1>2, <2>1
<1>7. CASE UNCHANGED vars \/ \E c \in Commands : Publish(c) \/ Lapse(c)
  BY <1>2, <1>7 DEF vars, Publish, Lapse, fleetVars, fleet, agents
<1> QED  BY <1>3, <1>4, <1>5, <1>6, <1>7 DEF Next

\* Each step keeps every report its host's own.
LEMMA SoleKept == TypeOK /\ ClientInv /\ SoleReporters /\ [Next]_vars => SoleReporters'
<1> SUFFICES ASSUME TypeOK, ClientInv, SoleReporters, [Next]_vars
             PROVE  SoleReporters'
  OBVIOUS
<1>0. /\ DOMAIN request = Requests /\ NoAgent \notin Agents
      /\ \A q \in Requests : request[q].op \in {"admitted"} \cup InWork =>
            request[q].agent \in Agents /\ Asset(q) \in Hosts
  BY RequestFields, ClientAssumption DEF TypeOK, FleetTypeOK, Asset
<1>1. \A h \in Hosts : identity[h] # NoAgent => identity'[h] = identity[h]
  BY IdentityStays
\* Reports that go on, with what they were for.
<1>2. ASSUME host' = host, crossed' = {},
             \A q \in Requests :
                 request'[q].op \in {"admitted"} \cup InWork =>
                     /\ request[q].op \in {"admitted"} \cup InWork
                     /\ request'[q].agent = request[q].agent
      PROVE  SoleReporters'
  BY <1>0, <1>1, <1>2 DEF SoleReporters, Asset
<1>3. ASSUME NEW h \in Hosts, NEW q \in Requests, SendReport(q, h), identity[h] # NoAgent
      PROVE  SoleReporters'
  <2>1. /\ request'[q].agent = identity[h] /\ UNCHANGED <<host, crossed>>
        /\ \A r \in Requests \ {q} : request'[r] = request[r]
    BY <1>0, <1>3 DEF SendReport, BeginReport, agents
  <2>2. host[identity[h]] = h /\ identity'[h] = identity[h]
    BY <1>1, <1>3 DEF ClientInv, IdentityOwn
  <2>3. ASSUME NEW r \in Requests, request'[r].op \in {"admitted"} \cup InWork
        PROVE  identity'[host'[request'[r].agent]] = request'[r].agent
    <3>1. CASE r = q  BY <2>1, <2>2, <3>1
    <3>2. CASE r # q  BY <1>0, <1>1, <2>1, <2>3, <3>2 DEF SoleReporters, Asset
    <3> QED  BY <3>1, <3>2
  <2> QED  BY <2>1, <2>3 DEF SoleReporters, Asset
<1>4. ASSUME NEW q \in Requests, Serve(q)
      PROVE  SoleReporters'
  <2>1. /\ request[q].op \in {"admitted"} \cup InWork /\ request'[q].agent = request[q].agent
        /\ \A r \in Requests \ {q} : request'[r] = request[r]
        /\ host' = host
    <3>1. CASE ReadInventory(q)
      BY <1>0, <3>1 DEF ReadInventory, ReadBy, agents
    <3>2. CASE FlushInventory(q) \/ ReadExposures(q) \/ ReadCatalogue(q)
      <4>1. request[q].op \in InWork
        BY <3>2 DEF FlushInventory, ReadExposures, ReadCatalogue, InWork, Flushed
      <4>2. request[q] \in Worked  BY <4>1, RequestFields DEF TypeOK
      <4> QED
        BY <1>0, <3>2, <4>1, <4>2
           DEF FlushInventory, ReadExposures, ReadCatalogue, Worked, agents
    <3> QED  BY <1>4, <3>1, <3>2 DEF Serve
  <2>2. crossed' = {}
    <3>1. ~Crossing(q)
      <4>1. \A r \in Requests : request[r].op \in InWork /\ Asset(r) = Asset(q) =>
               request[r].agent = request[q].agent
        BY <2>1 DEF SoleReporters
      <4> QED  BY <4>1 DEF Crossing
    <3> QED
      BY <1>4, <3>1 DEF Serve, ReadInventory, FlushInventory, ReadExposures, ReadCatalogue,
                        SoleReporters
  <2> QED  BY <1>2, <2>1, <2>2
<1>5. CASE /\ UNCHANGED <<host, crossed>>
           /\ \A q \in Requests : \/ request'[q] = request[q]
                                  \/ request'[q].op \in {"none", "enroll", "plain"}
  BY <1>2, <1>5 DEF SoleReporters, InWork, Flushed
<1> QED  BY <1>3, <1>4, <1>5, ReportsAreOwn

\* Processes, files, memory and commands keep their types.
LEMMA TypeKept == TypeOK /\ ClientInv /\ [Next]_vars => TypeOK'
<1> SUFFICES ASSUME TypeOK, ClientInv, [Next]_vars
             PROVE  TypeOK'
  OBVIOUS
<1>0. FleetTypeOK' /\ WaitsForOwn  BY GatewayKept DEF ClientInv
<1> USE <1>0 DEF TypeOK
<1>1. ASSUME NEW h \in Hosts, Forget(h)
      PROVE  /\ seen' \in [Hosts -> SUBSET Commands] /\ todo' \in [Hosts -> SUBSET Commands]
             /\ current' \in [Hosts -> Commands \cup {NoCommand}]
             /\ outcome' \in [Hosts -> {"completed", "failed", "rejected"}]
  BY <1>1 DEF Forget
<1>2. ASSUME NEW h \in Hosts, NEW place \in Places, NEW q \in Requests \cup {NoRequest},
             Go(h, place, q)
      PROVE  pc' \in [Hosts -> Places] /\ awaits' \in [Hosts -> Requests \cup {NoRequest}]
  BY <1>2 DEF Go
<1>3. \A q \in Slots : q \in Requests  BY SlotIsFree
<1>4. ASSUME NEW c, NEW state \in Settled
      PROVE  Acked(c, state) \in [Commands -> CommandStates]
  BY <1>4 DEF Acked, CommandStates, Settled
<1>5. ASSUME NEW h \in Hosts, ClientStep(h)
      PROVE  TypeOK'
  <2>1. CASE Resume(h)
    BY <2>1, <1>2 DEF Resume, Places, commands, files, poll
  <2>2. CASE Enrol(h)
    BY <2>2, <1>2, <1>3 DEF Enrol, Places, commands, files, poll
  <2>3. CASE Enrolled(h)
    BY <2>3, <1>2 DEF Enrolled, Places, commands, memory, poll
  <2>4. CASE Heartbeat(h)
    BY <2>4, <1>2, <1>3 DEF Heartbeat, Places, commands, files, memory, poll
  <2>5. CASE Answered(h) \/ Unanswered(h)
    BY <2>5, <1>2 DEF Answered, Unanswered, Places, commands, files, memory, poll
  <2>6. CASE Poll(h)
    BY <2>6, <1>2 DEF Poll, Places, commands, files
  <2>7. CASE Handle(h)
    <3>1. PICK c \in todo[h] : /\ Replay(h, c) \/ Run(h, c)
                               /\ current' = [current EXCEPT ![h] = c]
                               /\ todo' = [todo EXCEPT ![h] = @ \ {c}]
      BY <2>7 DEF Handle
    <3>2. c \in Commands /\ current' \in [Hosts -> Commands \cup {NoCommand}]
          /\ todo' \in [Hosts -> SUBSET Commands]
      BY <3>1
    <3>3. CASE Replay(h, c)
      BY <3>2, <3>3, <1>2 DEF Replay, Places, commands, files
    <3>4. CASE Run(h, c)
      <4>1. /\ runs' \in [Commands -> Nat] /\ seen' \in [Hosts -> SUBSET Commands]
            /\ outcome' \in [Hosts -> {"completed", "failed", "rejected"}]
        BY <3>2, <3>4 DEF Run
      <4>2. pc' \in [Hosts -> Places] /\ awaits' \in [Hosts -> Requests \cup {NoRequest}]
        BY <3>4, <1>2, <1>3 DEF Run, Places
      <4> QED  BY <3>2, <3>4, <4>1, <4>2 DEF Run, files
    <3> QED  BY <3>1, <3>3, <3>4
  <2>8. CASE Reported(h)
    BY <2>8, <1>2 DEF Reported, Places, commands, files
  <2>9. CASE Ack(h)
    <3>1. command' \in [Commands -> CommandStates]
      <4>1. outcome[h] \in Settled  BY DEF Settled
      <4> QED  BY <2>9, <4>1, <1>4 DEF Ack
    <3> QED  BY <2>9, <3>1, <1>2 DEF Ack, Places, files
  <2>10. CASE Save(h)
    BY <2>10, <1>1, <1>2 DEF Save, Places, commands
  <2>11. CASE CycleRefused(h)
    BY <2>11, <1>1, <1>2 DEF CycleRefused, Places, commands, files
  <2> QED
    BY <1>5, <2>1, <2>2, <2>3, <2>4, <2>5, <2>6, <2>7, <2>8, <2>9, <2>10, <2>11
       DEF ClientStep
<1>6. ASSUME NEW h \in Hosts, CycleLost(h)
      PROVE  TypeOK'
  <2>1. command' \in [Commands -> CommandStates]
    <3>1. outcome[h] \in Settled  BY DEF Settled
    <3> QED  BY <1>6, <3>1, <1>4 DEF CycleLost
  <2> QED  BY <1>6, <2>1, <1>1, <1>2 DEF CycleLost, Places, files
<1>7. ASSUME NEW h \in Hosts, GiveUp(h)
      PROVE  TypeOK'
  <2>1. pc[h] \in Waiting  BY <1>7 DEF GiveUp, WaitsForOwn
  <2> QED  BY <1>7, <2>1, <1>2 DEF GiveUp, Waiting, Places, commands, files, memory, poll
<1>8. ASSUME NEW h \in Hosts, Crash(h)
      PROVE  TypeOK'
  BY <1>8, <1>1, <1>2 DEF Crash, Places, commands, files
<1>9. ASSUME NEW h \in Hosts, EnrolmentFails(h)
      PROVE  TypeOK'
  BY <1>9, <1>2 DEF EnrolmentFails, Places, commands, files, memory, poll
<1>10. ASSUME NEW c \in Commands, Publish(c) \/ Lapse(c)
       PROVE  TypeOK'
  <2>1. command' \in [Commands -> CommandStates]
    BY <1>10 DEF Publish, Lapse, CommandStates, Settled
  <2> QED  BY <1>10, <2>1 DEF Publish, Lapse, files, memory, poll
<1>11. CASE UNCHANGED client  BY <1>11 DEF client
<1> QED
  BY <1>5, <1>6, <1>7, <1>8, <1>9, <1>10, <1>11 DEF Next, FinishAbandoned, vars

-----------------------------------------------------------------------------
(* Commands. *)

CommandsInv == CommandsOwn /\ SeenSettled /\ StoredIsSettled

\* A published command is not taken back, and one that is settled or late is not handed
\* out again.
Over(c) == command[c] \in Settled \cup {"late"}

\* Targets never change, what is settled stays settled, and what is over stays over.
LEMMA CommandsStay ==
    ASSUME TypeOK, [Next]_vars
    PROVE  /\ target' = target
           /\ \A c \in Commands :
                 /\ command[c] \in Settled => command'[c] \in Settled
                 /\ command[c] # "none" => command'[c] # "none"
                 /\ Over(c) => Over(c)'
<1>1. ASSUME NEW d, NEW state \in {"completed", "failed", "rejected"}, command' = Acked(d, state)
      PROVE  \A c \in Commands :
                 /\ command[c] \in Settled => command'[c] \in Settled
                 /\ command[c] # "none" => command'[c] # "none"
                 /\ Over(c) => Over(c)'
  BY <1>1 DEF TypeOK, Acked, Settled, Over
<1>2. ASSUME NEW h \in Hosts, Ack(h) \/ CycleLost(h)
      PROVE  target' = target /\ (command' = command \/ command' = Acked(current[h], outcome[h]))
  BY <1>2 DEF Ack, CycleLost
<1>3. \A h \in Hosts : outcome[h] \in {"completed", "failed", "rejected"}  BY DEF TypeOK
<1>4. ASSUME NEW d \in Commands, Publish(d) \/ Lapse(d)
      PROVE  /\ target' = target
             /\ \A c \in Commands :
                   /\ command[c] \in Settled => command'[c] \in Settled
                   /\ command[c] # "none" => command'[c] # "none"
                   /\ Over(c) => Over(c)'
  BY <1>4 DEF TypeOK, Publish, Lapse, Settled, Over
<1>5. \/ \E h \in Hosts : Ack(h) \/ CycleLost(h)
      \/ \E d \in Commands : Publish(d) \/ Lapse(d)
      \/ UNCHANGED <<command, target>>
  BY DEF Next, ClientStep, Resume, Enrol, Enrolled, Heartbeat, Answered, Unanswered, Poll,
         Handle, Replay, Run, Reported, Save, CycleRefused, GiveUp, Crash, EnrolmentFails,
         FinishAbandoned, client, commands, vars
<1> QED  BY <1>1, <1>2, <1>3, <1>4, <1>5 DEF Over

\* A process that only waits, or is done waiting, keeps its commands.
LEMMA SameCommands ==
    ASSUME TypeOK, [Next]_vars, CommandsInv,
           UNCHANGED <<identity, stored, seen, todo, current>>,
           \A h \in Hosts : /\ pc[h] \in InPoll <=> pc'[h] \in InPoll
                            /\ pc[h] \in {"reporting", "acking"} <=>
                                 pc'[h] \in {"reporting", "acking"}
    PROVE  CommandsInv'
<1>1. CommandsOwn'
  BY CommandsStay DEF CommandsInv, CommandsOwn
<1>2. SeenSettled' /\ StoredIsSettled'
  BY CommandsStay DEF CommandsInv, SeenSettled, StoredIsSettled, TypeOK
<1> QED  BY <1>1, <1>2 DEF CommandsInv

\* A process that ends its poll has nothing in hand.
LEMMA NoCommands ==
    ASSUME TypeOK, [Next]_vars, CommandsInv, NEW h \in Hosts, NEW place \in Places \ InPoll, NEW q,
           Go(h, place, q), Forget(h), identity' = identity,
           \A g \in Hosts : stored'[g] = stored[g] \/ \A c \in stored'[g] : command'[c] \in Settled
    PROVE  CommandsInv'
<1>1. /\ pc'[h] = place /\ seen'[h] = {} /\ todo'[h] = {} /\ current'[h] = NoCommand
      /\ \A g \in Hosts \ {h} : /\ pc'[g] = pc[g] /\ seen'[g] = seen[g] /\ todo'[g] = todo[g]
                                /\ current'[g] = current[g]
  BY DEF Go, Forget, TypeOK
<1>2. CommandsOwn'
  <2> SUFFICES ASSUME NEW g \in Hosts
               PROVE  /\ pc'[g] \notin InPoll => seen'[g] = {} /\ todo'[g] = {}
                      /\ pc'[g] \in {"reporting", "acking"} <=> current'[g] # NoCommand
                      /\ \A c \in todo'[g] \cup {current'[g]} :
                            c \in Commands => command'[c] # "none" /\ target'[c] = identity'[g]
    BY DEF CommandsOwn
  <2>1. CASE g = h  BY <1>1, <2>1, ClientAssumption DEF InPoll
  <2>2. CASE g # h  BY <1>1, <2>2, CommandsStay DEF CommandsInv, CommandsOwn
  <2> QED  BY <2>1, <2>2
<1>3. SeenSettled'
  BY <1>1, CommandsStay DEF CommandsInv, SeenSettled, TypeOK
<1>4. StoredIsSettled'
  BY CommandsStay DEF CommandsInv, StoredIsSettled, TypeOK
<1> QED  BY <1>2, <1>3, <1>4 DEF CommandsInv

\* Each step keeps the commands in hand the agent's own, and what is stored settled.
LEMMA CommandsKept == TypeOK /\ ClientInv /\ CommandsInv /\ [Next]_vars => CommandsInv'
<1> SUFFICES ASSUME TypeOK, ClientInv, CommandsInv, [Next]_vars
             PROVE  CommandsInv'
  OBVIOUS
<1>0. /\ CommandsOwn /\ SeenSettled /\ StoredIsSettled /\ WaitsForOwn /\ TypeOK'
      /\ pc \in [Hosts -> Places] /\ NoCommand \notin Commands
  BY TypeKept, ClientAssumption DEF CommandsInv, ClientInv, TypeOK
<1>1. ASSUME NEW h \in Hosts, NEW place \in Places, NEW q, Go(h, place, q),
             UNCHANGED <<identity, stored, seen, todo, current>>,
             pc[h] \in InPoll <=> place \in InPoll,
             pc[h] \in {"reporting", "acking"} <=> place \in {"reporting", "acking"}
      PROVE  CommandsInv'
  <2>1. \A g \in Hosts : pc'[g] = IF g = h THEN place ELSE pc[g]  BY <1>0, <1>1 DEF Go
  <2> QED  BY <1>1, <2>1, SameCommands
<1>2. ASSUME NEW h \in Hosts, Resume(h) \/ Enrol(h) \/ Heartbeat(h) \/ Answered(h) \/ Unanswered(h)
                              \/ EnrolmentFails(h)
      PROVE  CommandsInv'
  BY <1>1, <1>2
     DEF Resume, Enrol, Heartbeat, Answered, Unanswered, EnrolmentFails, InPoll, Places, files,
         poll, memory
<1>3. ASSUME NEW h \in Hosts, Reported(h) \/ GiveUp(h)
      PROVE  CommandsInv'
  <2>1. CASE Reported(h)
    BY <1>1, <2>1 DEF Reported, InPoll, Places, files
  <2>2. CASE GiveUp(h)
    <3>1. pc[h] \in Waiting  BY <1>0, <2>2 DEF GiveUp, WaitsForOwn
    <3> QED
      BY <1>1, <2>2, <3>1 DEF GiveUp, Waiting, InPoll, Places, files, poll, memory
  <2> QED  BY <1>3, <2>1, <2>2
<1>4. ASSUME NEW h \in Hosts, Save(h) \/ CycleRefused(h) \/ CycleLost(h) \/ Crash(h)
      PROVE  CommandsInv'
  <2>1. CASE Save(h)
    <3>1. \A c \in seen[h] : command[c] \in Settled
      <4>1. current[h] = NoCommand  BY <1>0, <2>1 DEF Save, CommandsOwn
      <4>2. seen[h] \subseteq Commands  BY DEF TypeOK
      <4> QED  BY <1>0, <4>1, <4>2 DEF SeenSettled
    <3>2. \A g \in Hosts : stored'[g] = stored[g] \/ \A c \in stored'[g] : command'[c] \in Settled
      BY <2>1, <3>1, CommandsStay DEF Save, TypeOK
    <3> QED  BY <2>1, <3>2, NoCommands DEF Save, Places, InPoll
  <2>2. CASE CycleRefused(h) \/ CycleLost(h) \/ Crash(h)
    BY <2>2, NoCommands DEF CycleRefused, CycleLost, Crash, Places, InPoll, files
  <2> QED  BY <1>4, <2>1, <2>2
<1>5. ASSUME NEW h \in Hosts, Enrolled(h)
      PROVE  CommandsInv'
  <2>1. /\ \A g \in Hosts : pc'[g] = IF g = h THEN "ready" ELSE pc[g]
        /\ \A g \in Hosts \ {h} : identity'[g] = identity[g]
        /\ UNCHANGED <<stored, seen, todo, current>>
        /\ pc[h] = "enrolling"
    BY <1>5 DEF Enrolled, Go, TypeOK, memory, poll
  <2>2. todo[h] = {} /\ current[h] = NoCommand
    BY <1>0, <2>1 DEF CommandsOwn, InPoll, TypeOK
  <2>3. CommandsOwn'
    BY <1>0, <2>1, <2>2, CommandsStay DEF CommandsOwn, InPoll
  <2>4. SeenSettled' /\ StoredIsSettled'
    BY <1>0, <2>1, CommandsStay DEF SeenSettled, StoredIsSettled, TypeOK
  <2> QED  BY <2>3, <2>4 DEF CommandsInv
<1>6. ASSUME NEW h \in Hosts, Poll(h)
      PROVE  CommandsInv'
  <2>1. /\ \A g \in Hosts : pc'[g] = IF g = h THEN "handling" ELSE pc[g]
        /\ \A g \in Hosts : seen'[g] = IF g = h THEN stored[h] ELSE seen[g]
        /\ \A g \in Hosts \ {h} : todo'[g] = todo[g]
        /\ todo'[h] = {c \in Commands : command[c] = "available" /\ target[c] = identity[h]}
        /\ UNCHANGED <<identity, stored, current, command>>
        /\ pc[h] = "polling"
    BY <1>6 DEF Poll, Go, TypeOK, files, commands
  <2>2. current[h] = NoCommand  BY <1>0, <2>1 DEF CommandsOwn, TypeOK
  <2>3. CommandsOwn'
    BY <1>0, <2>1, <2>2, CommandsStay DEF CommandsOwn, InPoll
  <2>4. SeenSettled' /\ StoredIsSettled'
    BY <1>0, <2>1, CommandsStay DEF SeenSettled, StoredIsSettled, TypeOK
  <2> QED  BY <2>3, <2>4 DEF CommandsInv
<1>7. ASSUME NEW h \in Hosts, Handle(h)
      PROVE  CommandsInv'
  <2>1. PICK c \in todo[h] : /\ Replay(h, c) \/ Run(h, c)
                             /\ current' = [current EXCEPT ![h] = c]
                             /\ todo' = [todo EXCEPT ![h] = @ \ {c}]
    BY <1>7 DEF Handle
  <2>2. c \in Commands  BY <2>1 DEF TypeOK
  <2>3. /\ \A g \in Hosts \ {h} : /\ pc'[g] = pc[g] /\ seen'[g] = seen[g]
                                  /\ todo'[g] = todo[g] /\ current'[g] = current[g]
        /\ pc'[h] \in {"reporting", "acking"} /\ seen'[h] \subseteq seen[h] \cup {c}
        /\ todo'[h] \subseteq todo[h] /\ current'[h] = c
        /\ UNCHANGED <<identity, stored, command>>
        /\ pc[h] = "handling"
    BY <1>7, <2>1 DEF Handle, Replay, Run, Go, TypeOK, files, commands
  <2>4. current[h] = NoCommand  BY <1>0, <2>3 DEF CommandsOwn, TypeOK
  <2>5. CommandsOwn'
    <3>1. ASSUME NEW g \in Hosts
          PROVE  /\ pc'[g] \notin InPoll => seen'[g] = {} /\ todo'[g] = {}
                 /\ pc'[g] \in {"reporting", "acking"} <=> current'[g] # NoCommand
                 /\ \A d \in todo'[g] \cup {current'[g]} :
                       d \in Commands => command'[d] # "none" /\ target'[d] = identity'[g]
      <4>1. CASE g = h
        BY <1>0, <2>1, <2>2, <2>3, <4>1, CommandsStay DEF CommandsOwn, InPoll
      <4>2. CASE g # h
        BY <1>0, <2>3, <4>2, CommandsStay DEF CommandsOwn
      <4> QED  BY <4>1, <4>2
    <3> QED  BY <3>1 DEF CommandsOwn
  <2>6. SeenSettled' /\ StoredIsSettled'
    <3>1. \A d \in seen[h] : command[d] \in Settled
      BY <1>0, <2>4 DEF SeenSettled, TypeOK
    <3> QED  BY <1>0, <2>3, <3>1 DEF SeenSettled, StoredIsSettled
  <2> QED  BY <2>5, <2>6 DEF CommandsInv
<1>8. ASSUME NEW h \in Hosts, Ack(h)
      PROVE  CommandsInv'
  <2>1. /\ \A g \in Hosts : pc'[g] = IF g = h THEN "handling" ELSE pc[g]
        /\ \A g \in Hosts : current'[g] = IF g = h THEN NoCommand ELSE current[g]
        /\ UNCHANGED <<identity, stored, seen, todo>>
        /\ pc[h] = "acking" /\ command[current[h]] # "late"
        /\ command' = Acked(current[h], outcome[h])
    BY <1>8 DEF Ack, Go, TypeOK, files
  <2>2. current[h] \in Commands /\ command[current[h]] # "none"
    BY <1>0, <2>1 DEF CommandsOwn, TypeOK
  <2>3. command'[current[h]] \in Settled
    BY <2>1, <2>2 DEF Acked, TypeOK, CommandStates, Settled
  <2>4. CommandsOwn'
    BY <1>0, <2>1, CommandsStay DEF CommandsOwn, InPoll
  <2>5. SeenSettled' /\ StoredIsSettled'
    BY <1>0, <2>1, <2>3, CommandsStay DEF SeenSettled, StoredIsSettled, TypeOK
  <2> QED  BY <2>4, <2>5 DEF CommandsInv
<1>9. CASE UNCHANGED <<pc, identity, stored, seen, todo, current>>
  BY <1>9, SameCommands
<1>10. \/ \E h \in Hosts :
             ClientStep(h) \/ CycleLost(h) \/ GiveUp(h) \/ Crash(h) \/ EnrolmentFails(h)
       \/ UNCHANGED <<pc, identity, stored, seen, todo, current>>
  BY DEF Next, FinishAbandoned, Publish, Lapse, client, vars, files, memory, poll
<1> QED
  BY <1>2, <1>3, <1>4, <1>5, <1>6, <1>7, <1>8, <1>9, <1>10 DEF ClientStep

-----------------------------------------------------------------------------
(* How often a command is run. *)

\* The runs that nothing that went wrong accounts for: at most one, after which the
\* command is over, in hand, or its agent's certificate has expired for good.
RunsAccounted ==
    \A c \in Commands :
        /\ runs[c] <= 1 + failures
        /\ runs[c] > failures =>
              \/ Over(c)
              \/ expired[target[c]]
              \/ \E h \in Hosts : current[h] = c
        /\ \A h \in Hosts : c \in todo[h] => runs[c] <= failures

\* A step that runs nothing, and lets go of a command only when it is over.
LEMMA NotRun ==
    ASSUME TypeOK, ClientInv, [Next]_vars, RunsAccounted, UNCHANGED runs,
           \A h \in Hosts : todo'[h] \subseteq todo[h],
           \A c \in Commands, h \in Hosts :
               current[h] = c => \/ current'[h] = c \/ Over(c)' \/ expired'[target[c]]
                                 \/ failures' = failures + 1
    PROVE  RunsAccounted'
<1>1. /\ failures \in Nat /\ failures' \in Nat /\ runs \in [Commands -> Nat]
      /\ failures <= failures'
  <2>1. failures' = failures \/ failures' = failures + 1
    <3>1. [FleetNext]_fleetVars \/ Mishap  BY GatewaySteps
    <3> QED
      BY <3>1 DEF Mishap, FleetNext, ServerNext, BeginEnroll, EndEnroll, BeginPlain, BeginReport,
                  EndPlain, EndReport, Refuse, Fail, Serve, ReadInventory, FlushInventory,
                  ReadExposures, ReadCatalogue, BeginSweep, EndSweep, GrowOld, ExpireCert,
                  LearnVuln, fleetVars, fleet, agents, tables
  <2> QED  BY <2>1, FleetAssumption DEF TypeOK, FleetTypeOK
<1>2. \A c \in Commands : target'[c] = target[c] /\ (Over(c) => Over(c)')
  BY CommandsStay
<1>3. \A c \in Commands : expired[target[c]] => expired'[target[c]]
  BY GatewaySteps, AgentsStay DEF TypeOK
<1>4. ASSUME NEW c \in Commands
      PROVE  /\ runs'[c] <= 1 + failures'
             /\ runs'[c] > failures' =>
                   \/ Over(c)'
                   \/ expired'[target'[c]]
                   \/ \E h \in Hosts : current'[h] = c
             /\ \A h \in Hosts : c \in todo'[h] => runs'[c] <= failures'
  BY <1>1, <1>2, <1>3 DEF RunsAccounted
<1> QED  BY <1>4 DEF RunsAccounted, Over

\* Each step keeps the account of the runs.
LEMMA RunsKept ==
    TypeOK /\ ClientInv /\ CommandsInv /\ RunsAccounted /\ [Next]_vars => RunsAccounted'
<1> SUFFICES ASSUME TypeOK, ClientInv, CommandsInv, RunsAccounted, [Next]_vars
             PROVE  RunsAccounted'
  OBVIOUS
<1>0. /\ CommandsOwn /\ IdentityOwn /\ WaitsForOwn /\ NoCommand \notin Commands
      /\ \A c \in Commands : target[c] \in Agents
  BY ClientAssumption DEF CommandsInv, ClientInv, TypeOK
\* Steps that leave all that is in hand.
<1>1. ASSUME UNCHANGED <<runs, todo, current>>
      PROVE  RunsAccounted'
  BY <1>1, NotRun
\* Steps that drop what a process has in hand.
<1>2. ASSUME NEW h \in Hosts, Forget(h), UNCHANGED runs,
             \/ current[h] \notin Commands
             \/ failures' = failures + 1
             \/ command'[current[h]] \in Settled \cup {"late"}
             \/ expired'[target[current[h]]]
      PROVE  RunsAccounted'
  <2>1. /\ \A g \in Hosts : todo'[g] \subseteq todo[g]
        /\ \A g \in Hosts \ {h} : current'[g] = current[g]
    BY <1>2 DEF Forget, TypeOK
  <2>2. ASSUME NEW c \in Commands, NEW g \in Hosts, current[g] = c
        PROVE  \/ current'[g] = c \/ Over(c)' \/ expired'[target[c]]
               \/ failures' = failures + 1
    BY <1>2, <2>1, <2>2 DEF Over
  <2> QED  BY <1>2, <2>1, <2>2, NotRun
<1>3. ASSUME NEW h \in Hosts, CycleLost(h) \/ Crash(h)
      PROVE  RunsAccounted'
  BY <1>2, <1>3 DEF CycleLost, Crash, commands
<1>4. ASSUME NEW h \in Hosts, Save(h)
      PROVE  RunsAccounted'
  <2>1. current[h] = NoCommand  BY <1>0, <1>4 DEF Save, CommandsOwn
  <2> QED  BY <1>0, <1>2, <1>4, <2>1 DEF Save, commands
<1>5. ASSUME NEW h \in Hosts, CycleRefused(h)
      PROVE  RunsAccounted'
  <2>1. UNCHANGED <<command, expired, runs>> /\ Forget(h)
    BY <1>5 DEF CycleRefused, commands, fleetVars, fleet, agents, tables
  <2>2. CASE pc[h] = "polling"
    <3>1. current[h] = NoCommand  BY <1>0, <2>2 DEF CommandsOwn
    <3> QED  BY <1>0, <1>2, <2>1, <3>1
  <2>3. CASE pc[h] = "acking" /\ command[current[h]] = "late"
    BY <1>2, <2>1, <2>3 DEF Over
  <2>4. CASE pc[h] = "acking" /\ ~Admitted(identity[h])
    <3>1. current[h] \in Commands /\ target[current[h]] = identity[h]
      BY <1>0, <2>4 DEF CommandsOwn, TypeOK
    <3>2. expired[identity[h]]  BY <1>0, <2>4 DEF Admitted, IdentityOwn
    <3> QED  BY <1>2, <2>1, <3>1, <3>2
  <2> QED  BY <1>5, <2>2, <2>3, <2>4 DEF CycleRefused
<1>6. ASSUME NEW h \in Hosts, Ack(h)
      PROVE  RunsAccounted'
  <2>1. /\ UNCHANGED <<runs, todo>> /\ command' = Acked(current[h], outcome[h])
        /\ pc[h] = "acking" /\ command[current[h]] # "late"
        /\ \A g \in Hosts \ {h} : current'[g] = current[g]
    BY <1>6 DEF Ack, TypeOK
  <2>2. current[h] \in Commands /\ command[current[h]] # "none"
    BY <1>0, <2>1 DEF CommandsOwn, TypeOK
  <2>3. command'[current[h]] \in Settled
    BY <2>1, <2>2 DEF Acked, TypeOK, CommandStates, Settled
  <2>4. ASSUME NEW c \in Commands, NEW g \in Hosts, current[g] = c
        PROVE  current'[g] = c \/ Over(c)'
    BY <2>1, <2>3, <2>4 DEF Over
  <2> QED  BY <2>1, <2>4, NotRun
<1>7. ASSUME NEW h \in Hosts, NEW c \in todo[h], Replay(h, c), pc[h] = "handling",
             current' = [current EXCEPT ![h] = c], todo' = [todo EXCEPT ![h] = @ \ {c}]
      PROVE  RunsAccounted'
  <2>1. current[h] = NoCommand  BY <1>0, <1>7 DEF CommandsOwn
  <2>2. UNCHANGED runs /\ \A g \in Hosts : todo'[g] \subseteq todo[g]
    BY <1>7 DEF Replay, commands, TypeOK
  <2>3. \A g \in Hosts : current[g] \in Commands => current'[g] = current[g]
    BY <1>0, <1>7, <2>1 DEF TypeOK
  <2> QED  BY <2>2, <2>3, NotRun
<1>8. ASSUME NEW h \in Hosts, NEW c \in todo[h], Run(h, c), pc[h] = "handling",
             current' = [current EXCEPT ![h] = c], todo' = [todo EXCEPT ![h] = @ \ {c}]
      PROVE  RunsAccounted'
  <2>1. current[h] = NoCommand /\ c \in Commands  BY <1>0, <1>8 DEF CommandsOwn, TypeOK
  <2>2. /\ \A d \in Commands : runs'[d] = IF d = c THEN runs[d] + 1 ELSE runs[d]
        /\ UNCHANGED <<command, target>>
        /\ \A g \in Hosts : todo'[g] = IF g = h THEN todo[g] \ {c} ELSE todo[g]
        /\ \A g \in Hosts : current'[g] = IF g = h THEN c ELSE current[g]
    BY <1>8 DEF Run, TypeOK
  <2>3. /\ \A a \in Agents : expired[a] => expired'[a]
        /\ failures' = failures /\ failures \in Nat /\ runs \in [Commands -> Nat]
    BY <1>8, GatewaySteps, AgentsStay, FleetAssumption
       DEF Run, SendReport, BeginReport, fleetVars, fleet, agents, tables, TypeOK, FleetTypeOK
  <2>4. ASSUME NEW g \in Hosts, c \in todo'[g]
        PROVE  FALSE
    <3>1. g # h /\ c \in todo[g]  BY <2>2, <2>4
    <3>2. identity[g] = target[c] /\ identity[h] = target[c] /\ target[c] # NoAgent
      BY <1>0, <2>1, <3>1, ClientAssumption DEF CommandsOwn
    <3> QED  BY <1>0, <3>1, <3>2 DEF IdentityOwn
  <2>5. ASSUME NEW d \in Commands
        PROVE  /\ runs'[d] <= 1 + failures'
               /\ runs'[d] > failures' =>
                     \/ Over(d)'
                     \/ expired'[target'[d]]
                     \/ \E g \in Hosts : current'[g] = d
               /\ \A g \in Hosts : d \in todo'[g] => runs'[d] <= failures'
    <3>1. CASE d = c
      <4>1. runs[c] <= failures /\ runs[c] \in Nat  BY <2>1, <2>3 DEF RunsAccounted
      <4>2. runs'[c] = runs[c] + 1 /\ current'[h] = c  BY <2>1, <2>2
      <4>3. runs'[c] <= 1 + failures'  BY <2>3, <4>1, <4>2
      <4>4. \A g \in Hosts : c \notin todo'[g]  BY <2>4
      <4>5. runs'[d] <= 1 + failures'  BY <3>1, <4>3
      <4>6. \E g \in Hosts : current'[g] = d  BY <3>1, <4>2
      <4>7. \A g \in Hosts : d \notin todo'[g]  BY <3>1, <4>4
      <4> QED  BY <4>5, <4>6, <4>7
    <3>2. CASE d # c
      <4>1. /\ runs'[d] = runs[d] /\ failures' = failures
            /\ UNCHANGED <<command, target>>
            /\ \A g \in Hosts : todo'[g] \subseteq todo[g]
        BY <2>2, <2>3, <3>2
      <4>2. \A g \in Hosts : current[g] = d => current'[g] = d
        BY <1>0, <2>1, <2>2
      <4>3. /\ runs[d] <= 1 + failures
            /\ runs[d] > failures =>
                  Over(d) \/ expired[target[d]] \/ \E g \in Hosts : current[g] = d
            /\ \A g \in Hosts : d \in todo[g] => runs[d] <= failures
        BY DEF RunsAccounted
      <4>4. Over(d) => Over(d)'  BY <4>1 DEF Over
      <4>5. expired[target[d]] => expired'[target'[d]]  BY <1>0, <2>3, <4>1
      <4>6. runs'[d] > failures' =>
                  Over(d)' \/ expired'[target'[d]] \/ \E g \in Hosts : current'[g] = d
        BY <4>1, <4>2, <4>3, <4>4, <4>5
      <4>7. \A g \in Hosts : d \in todo'[g] => runs'[d] <= failures'
        BY <4>1, <4>3
      <4>8. runs'[d] <= 1 + failures'  BY <4>1, <4>3
      <4> QED  BY <4>6, <4>7, <4>8
    <3> QED  BY <3>1, <3>2
  <2> QED  BY <2>5 DEF RunsAccounted, Over
<1>9. ASSUME NEW h \in Hosts, Poll(h)
      PROVE  RunsAccounted'
  <2>1. /\ UNCHANGED <<runs, command, target, expired, failures, current>>
        /\ \A g \in Hosts \ {h} : todo'[g] = todo[g]
        /\ todo'[h] = {c \in Commands : command[c] = "available" /\ target[c] = identity[h]}
        /\ pc[h] = "polling" /\ ~expired[identity[h]]
    BY <1>9 DEF Poll, Admitted, TypeOK, commands, fleetVars, fleet, agents, tables
  <2>2. ASSUME NEW c \in Commands, c \in todo'[h]
        PROVE  runs[c] <= failures
    <3>1. command[c] = "available" /\ target[c] = identity[h] /\ identity[h] # NoAgent
      BY <1>0, <2>1, <2>2 DEF IdentityOwn
    <3>2. ~Over(c)  BY <3>1 DEF Over, Settled
    <3>3. ASSUME NEW g \in Hosts, current[g] = c
          PROVE  FALSE
      <4>1. identity[g] = identity[h] /\ current[g] # NoCommand
        BY <1>0, <3>1, <3>3 DEF CommandsOwn
      <4>2. g = h  BY <3>1, <4>1, <1>0 DEF IdentityOwn
      <4> QED  BY <1>0, <2>1, <4>1, <4>2 DEF CommandsOwn
    <3>4. runs[c] \in Nat /\ failures \in Nat
      BY FleetAssumption DEF TypeOK, FleetTypeOK
    <3> QED  BY <2>1, <3>1, <3>2, <3>3, <3>4 DEF RunsAccounted
  <2> QED  BY <2>1, <2>2 DEF RunsAccounted, Over
<1>10. ASSUME NEW h \in Hosts, ClientStep(h)
       PROVE  RunsAccounted'
  <2>1. CASE Handle(h)  BY <2>1, <1>7, <1>8 DEF Handle
  <2>2. CASE Resume(h) \/ Enrol(h) \/ Enrolled(h) \/ Heartbeat(h) \/ Answered(h) \/ Unanswered(h)
             \/ Reported(h)
    BY <2>2, <1>1 DEF Resume, Enrol, Enrolled, Heartbeat, Answered, Unanswered, Reported,
                      commands, memory, poll
  <2> QED  BY <1>10, <1>4, <1>5, <1>6, <1>9, <2>1, <2>2 DEF ClientStep
<1>11. ASSUME NEW h \in Hosts, GiveUp(h) \/ EnrolmentFails(h)
       PROVE  RunsAccounted'
  BY <1>11, <1>1 DEF GiveUp, EnrolmentFails, commands, memory, poll
<1>12. CASE UNCHANGED <<runs, todo, current>>  BY <1>12, <1>1
<1>13. \/ \E h \in Hosts :
             ClientStep(h) \/ CycleLost(h) \/ GiveUp(h) \/ Crash(h) \/ EnrolmentFails(h)
       \/ UNCHANGED <<runs, todo, current>>
  BY DEF Next, FinishAbandoned, Publish, Lapse, client, vars, memory, poll
<1> QED
  BY <1>3, <1>10, <1>11, <1>12, <1>13

-----------------------------------------------------------------------------
(* Theorems of the agent with its gateway. *)

\* The invariant holds when nothing is enrolled.
LEMMA AtFirst ==
    Init => TypeOK /\ ClientInv /\ ExposureInv /\ SoleReporters /\ CommandsInv /\ RunsAccounted
<1> SUFFICES ASSUME Init
             PROVE  /\ TypeOK /\ ClientInv /\ ExposureInv
                    /\ SoleReporters /\ CommandsInv /\ RunsAccounted
  OBVIOUS
<1>1. TypeOK
  BY FleetTypedAtFirst DEF Init, TypeOK, CommandStates, Places
<1>2. ClientInv
  BY DEF Init, ClientInv, WaitsForOwn, IdentityOwn, Waiting
<1>3. CommandsInv
  BY ClientAssumption
     DEF Init, CommandsInv, CommandsOwn, SeenSettled, StoredIsSettled, InPoll
<1>4. RunsAccounted
  BY <1>1, FleetAssumption DEF Init, FleetInit, RunsAccounted
<1>5. SoleReporters
  BY DEF Init, FleetInit, SoleReporters, Idle, InWork, Flushed
<1> QED  BY <1>1, <1>2, <1>3, <1>4, <1>5, FollowsAtFirst DEF Init

\* What every step of a host, the gateway or an operator keeps.
AgentInv ==
    /\ TypeOK /\ ClientInv /\ ExposureInv /\ SoleReporters /\ CommandsInv /\ RunsAccounted

\* The inductive invariant: what processes wait for and have in hand, whose agent they
\* are, what reports have read, that no two agents report for one asset, and which runs are
\* accounted for.
THEOREM AgentInvariant == Spec => []AgentInv
<1>1. Init => AgentInv  BY AtFirst DEF AgentInv
<1>2. AgentInv /\ [Next]_vars => AgentInv'
  <2> SUFFICES ASSUME AgentInv, [Next]_vars
               PROVE  AgentInv'
    OBVIOUS
  <2>1. TypeOK'  BY TypeKept DEF AgentInv
  <2>2. ClientInv'  BY WaitsKept, IdentityKept DEF AgentInv, ClientInv
  <2>3. ExposureInv' /\ SoleReporters'  BY GatewayKept, SoleKept DEF AgentInv
  <2>4. CommandsInv' /\ RunsAccounted'  BY CommandsKept, RunsKept DEF AgentInv
  <2> QED  BY <2>1, <2>2, <2>3, <2>4 DEF AgentInv
<1> QED  BY <1>1, <1>2, PTL DEF Spec

\* The agent's process, files and commands keep their types.
THEOREM AgentTypeCorrect == Spec => []TypeOK
<1>1. AgentInv => TypeOK  BY DEF AgentInv
<1> QED  BY <1>1, AgentInvariant, PTL

\* Whatever heartbeats overlap, are given up or lost, and whatever the catalogue becomes, an
\* asset's exposures are those of the software it shows, where a host runs the one agent it
\* has enrolled (recompute_exposure after apply_software_inventory).
THEOREM ExposuresFollowReports == Spec => []ExposureFollowsInventory
<1>1. AgentInv => ExposureFollowsInventory
  BY DEF AgentInv, ExposureInv, SoleReporters, UncrossedFollows, ExposureFollowsInventory
<1> QED  BY <1>1, AgentInvariant, PTL

\* No agent takes a command it was really given for a replay (poll_commands).
THEOREM NoFalseReplay == Spec => []StoredIsSettled
<1>1. AgentInv => StoredIsSettled  BY DEF AgentInv, CommandsInv
<1> QED  BY <1>1, AgentInvariant, PTL

\* A command runs once, and once more for each thing that went wrong (poll_commands).
THEOREM RunsBounded == Spec => []RunBudget
<1>1. AgentInv => RunBudget  BY DEF AgentInv, RunsAccounted, RunBudget
<1> QED  BY <1>1, AgentInvariant, PTL
=============================================================================
