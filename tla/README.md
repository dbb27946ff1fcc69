# OpenIntelligence in TLA+

A verification development of the OpenIntelligence backend: models of its
components, TLC configurations that check them on small instances, and theorems
about them with proofs checked by TLAPS. `PROJECT.json` maps every definition to
the lines it models and lists the runs, mutants, findings, hazards and theorems.

1. Inventory · 2. Modules · 3. Runs · 4. Theorems · 5. Not modelled · 6. What is left

## 1. Inventory

Everything that has state lives in PostgreSQL, but for the rate limiter's windows in
Redis and the endpoint agent's two files; the server's processes keep none between two
transactions. The API (`app/main.py`) serves requests concurrently, each in one
transaction that `get_db` commits when the handler returns and rolls back on any
exception. Four workers (`docker-compose.yml`, one process each) poll the same
tables. Components interact through rows, never by calls. A session writes only the
columns whose value differs from the one it read, and it writes them when it next
queries (autoflush) or commits; until then, others may read and write the row. Most
of what is hard in this code comes from that.

| Component | State it keeps | Operations | What is hard | What makes it correct |
| --- | --- | --- | --- | --- |
| Automation outbox (`db/orchestration_models.py`) | a row per step of a dispatched run: state, attempts, schedule, lease | inserted by dispatch, claimed and settled by workers | shared by processes under leases | each row settled once, in bounded attempts |
| Connector worker (`workers/connector_delivery.py`) | the batch in its memory | claim, call, record | crash after the call, lease shorter than the batch, timeout of a call that landed | a row in one hand at a time; attempts and calls bounded; delivered means acted on; every row settled |
| Internal worker (`workers/internal_automation*.py`) | none | claim and process in one transaction | a run that is rejected late | cases and reports are created once |
| Run control plane (`api/v1/orchestration.py`) | runs: state, approvals | propose, approve, reject, dispatch | reads without locks, overwritten later | nothing is dispatched unapproved, twice or in part |
| Dead-letter replay (`services/dead_letter_replay.py`) | a new outbox row and an audit row | replay | the constraint of the original row | a dead letter is delivered again |
| Endpoint intents (`api/v1/endpoint_intents.py`, `services/endpoint_intents.py`) | intents, audit rows | create, approve, cancel | approvals in any state, deadlines | two approvers other than the requester |
| Agent commands (`api/v1/platform.py`) | commands | publish, poll, ack | ack against sweep | only authorised commands, one result |
| Intent expiry (`workers/intent_expiry*.py`) | none | sweep | reads without locks, overlapping sweeps | windows close; one audit row of an expiry, which holds of one worker |
| Agent gateway (`agent_gateway/mtls.py`, `api/v1/assets.py`, `services/agents.py`) | agents, certificates, single-use keys | enrol, heartbeat, mark stale | overlapping heartbeats, status overwritten | an agent that reports shows as active |
| Exposure (`services/agents.py`) | inventory, exposures of an asset, which agents of one hostname share | reconcile, match, resolve | separate reads, unique rows, an exposure that comes back, a catalogue rewritten meanwhile | open exposures are exactly what matches, as long as reports of two agents do not overlap |
| Endpoint agent (`endpoint_agent/client.py`) | identity file, nonce file, its memory | enrol, report, poll, run, ack, save | crash between ack and save, requests given up that the server finishes | a command is run once, and again only after a failure |
| Ingest (`ingest/pipeline.py`) | merged records, source runs, quarantine | run, merge, flush | feeds in any order, two runs at once, failure in the middle | merging loses nothing, maturity only rises |
| Feed connectors (`ingest/connectors.py`, `services/provenance.py`) | a cursor while they run | page, normalise, park | malformed items, failing, short and ill-shaped answers | what is malformed is parked; included means whole; both with exceptions listed under findings |
| Correlation (`services/correlation.py`, `evidence_resolver.py`) | assessments, briefs | resolve, score, brief | only the newest rows are read | knowledge never lowers a score; a brief has evidence |
| Alerts (`workers/alert_evaluation.py`, `api/v1/alerting.py`) | alerts | evaluate, aggregate, create, acknowledge | two writers of a fingerprint, a severity that the cooldown ignores, cooldown boundary | every occurrence counted, no second alert within the cooldown |
| Rate limiter (`core/ratelimit.py`) | a sorted set per key, in Redis or a process | admit | window boundary, several clocks, no Redis | no window admits more than the limit |
| API keys (`core/deps.py`, `api/v1/admin.py`) | keys | bootstrap, authenticate, mint, revoke | revocation during a request | revoked stays revoked, scopes only shrink, no lock-out |
| Reports (`ai/reports.py`, `api/v1/ai.py`) | reports | queue, generate in the background | order of commit and task, death of the process | a report is whole, failed, or being worked on |
| Investigation graph (`api/v1/graph.py`) | relationships | relate, traverse | hop and node limits | what it shows is what is within reach |
| Cases, governance, health, views, envelopes, capability gate, scripts, console | rows that are inserted and listed, or none | - | - | - |

## 2. Modules

| Module | Extends | What it is |
| --- | --- | --- |
| `Outbox` | | the `automation_outbox` table and the queries and writes on it |
| `ConnectorDelivery` | `Outbox` | the connector worker processes |
| `OutboxContract` | | what the outbox promises, without claims, leases and processes |
| `AutomationRuns` | | runs and the requests on them |
| `Automation` | `AutomationRuns` | the loop: requests, internal workers, replays, the connector worker by its contract |
| `EndpointIntents` | | intents, their commands, and the expiry sweep |
| `Exposure` | | inventory and exposure tables, reconciliation and matching |
| `AgentFleet` | `Exposure` | enrolment, heartbeats and the stale sweep as overlapping requests |
| `AgentClient` | `AgentFleet` | the endpoint agent composed with the gateway and its commands |
| `Ingest` | | overlapping ingest runs on one catalogue |
| `Feeds` | | the ten feed connectors and the provenance of answers |
| `Correlation` | | evidence, score, assessments and briefs |
| `Alerts` | | alerts raised by evaluations and by clients |
| `RateLimit` | | the sliding window in Redis and in memory |
| `ApiKeys` | `RateLimit` | keys, and the requests that use them behind the limiter |
| `Reports` | | reports and their background tasks |
| `Graph` | | relationships and the bounded traversal |
| `MC...` | the module named | what TLC needs: sets of model values, symmetry, for the two agents of `MCAgentFleet` two constraints; `MCIngest`, `MCAccess` and `MCAnalysis` put systems side by side |
| `..._proofs` | the module named, `TLAPS` | theorems and lemmas |

`Automation_proofs` is about `Automation` and the `AutomationRuns` it extends,
`AgentClient_proofs` about `AgentClient` and `AgentFleet`, `ApiKeys_proofs` about `ApiKeys`
and `RateLimit`, `Feeds_proofs` about `Feeds` and `Correlation`, `Analysis_proofs` about
`Reports`, `Alerts` and `Graph`.

`MCIngest` runs `Ingest` and `Correlation`, `MCAccess` runs `ApiKeys` and `Alerts`, and
`MCAnalysis` runs `Feeds`, `Reports` and `Graph`, as systems side by side, of which one is
chosen in the initial state (`part`); they share nothing.
Definitions headed "Mutant" in the modules are wrong on purpose: each is a plausible
bug of the definition after it, and `PROJECT.json` names the property it breaks.

### Outbox and ConnectorDelivery

A row is its `(run_id, step_index)`. `state` and `attempts` are the columns of that
name. `available_at` and `lease_until` are kept as the number of ticks until they
are reached, so that time needs no bound: `available[r] = 0` stands for
`available_at <= now`, `lease[r] = NoLease` for `lease_until < now` or NULL.
`lease_token` is written and never read by the code, and left out.

| Action | Code |
| --- | --- |
| `Dispatch` | the insert of a row by `dispatch_run` |
| `Claim` | `claim()`, one transaction: select pending and abandoned rows of the owned actions up to the limit, mark and lease them. `SKIP LOCKED` passes over rows another transaction holds, so any part of the claimable rows may be taken |
| `Call` | the request leaves in `Connector.deliver`, and the endpoint acts on it or never does |
| `Delivered`, `Retry`, `DeadLetter` | the write at the end of `deliver()`, by the kind of receipt. `attempts` is the value loaded by the claim plus one |
| `Crash` | the process dies, or an exception `deliver()` does not catch ends `main()`; its memory is gone, its rows stay `delivering` |
| `Tick` | time passes, for all timestamps alike |

`batch`, `mem` (the loaded `attempts`), `current` and `landed` are a worker's memory.
`calls` and `effects` record what happened outside: calls made and times the
endpoint acted. An endpoint that gets an `Idempotency-Key` (`Keyed`; only `siem.push`
sends one) acts once.

A worker that spends `CallTicks` on one row must go on to the next: the HTTP timeout
bounds a call. The time of a batch is therefore at most `BatchLimit * CallTicks`.
As shipped, that is 20 calls of 10 seconds or more against a lease of 120: a lease
does not cover a batch, and what keeps rows in one hand is that there is one worker
process. `ExclusiveClaims` states the two ways to be safe; the theorems that need one
of them assume it, and `connector_overrun` drops both.

### AutomationRuns

No handler of `orchestration.py` locks the run it reads, so a request is `Read`, which
loads the run and takes the early returns, and later one of `propose_run`,
`approve_run`, `reject_run`, `dispatch_run`, which write the columns the handler
assigned, or `Rollback`. `stored[r][i]` counts outbox rows per step and run.

Requests of one API key do not overlap: `get_principal` assigns `last_used_at`, the
session flushes it before the handler's first query, and the row stays locked until
the commit. Each key thus has at most one request past its read. The console calls
the API with one service key, so what `automation_one_key` shows is what its users see.

The models assume that the database fills in primary keys on insert.

### Automation

`Dispatch` is `dispatch_run` with the rows it inserts, `Control` every other step of a
request. A row's `outcome` is its `state` column; `"delivering"` and `"retry"` do not
occur, since an internal worker claims, processes and commits in one transaction
(`ClaimRows`, one `LoadRun` per row, `CommitBatch`), and the connector worker appears by
its contract (`Connector`: settled once). `batch` is the set of rows the transaction has
locked with `SKIP LOCKED`; `found` is what `process()` saw of each row's run, which no
lock protects and nothing caches. `AbortBatch` is an exception or a crash: the whole
transaction is undone. `created` counts committed cases and reports.

`Replay` is one step, since it holds the dead letter's row. Its insert needs that no row
has the run and step; `refused` records that one did.

### EndpointIntents

`approve` and `publish` hold the intent's row from their query to their commit, `ack`
holds the command's row; each is a `Begin...` and an `End...`, with `Locked` and
`acking` as the locks. The sweep reads without a lock (`BeginSweep`), then its updates
wait for the rows and overwrite them (`EndSweep`); a sweep that dies or loses a
deadlock against an ack is `AbortSweep`, an ack that does is `LoseAck`. `create`,
`cancel` and `poll` are single steps. `elapsed` is the passing of `expires_at`, which
a command inherits from its intent. Approvals are the actors of the audit rows, as
the code counts them. `expiries` counts the audit rows of expiry per intent. Compose runs
one expiry worker, and sweeps of one follow each other, which is what makes `OneExpiryAudit`
a theorem there; two sweeps that overlap break it, although the code says otherwise.

### Exposure, AgentFleet and AgentClient

`Exposure` holds the two tables of an asset and the catalogue, of which it keeps the packages
each vulnerability matches: that is what the CPEs and the product of a row decide, and the
feeds rewrite both (`Learn`). `Reconciled` is `apply_software_inventory`, `Matched` with
`Recomputed` is `recompute_exposure`, and `InventoryRefused` and `ExposureRefused` say when a
unique constraint refuses a row: a package listed twice, a row another heartbeat has inserted
meanwhile, an exposure that was resolved and matches again. The due date of an exposure is
computed once, read by reports and views only, and left out, as is the limit on the length of
the nonce file.

| Action of `AgentFleet` | Code |
| --- | --- |
| `BeginEnroll`, `EndEnroll` | the key is read and checked; the agent is inserted, the key burned if it is of single use |
| `BeginPlain`, `EndPlain` | a heartbeat without inventory, which writes when it commits |
| `BeginReport`, `ReadInventory` | one with inventory: its first query takes the agent's row and reads the asset's software |
| `FlushInventory` | the flush of the changed rows, which waits for those of other heartbeats, and the query for the software as it then stands |
| `ReadExposures`, `ReadCatalogue` | the queries for the open exposures and for the vulnerabilities |
| `EndReport` | the match of what was read, the flush of the exposures and the commit |
| `Refuse`, `Fail` | a constraint, or another error, rolls everything back |
| `BeginSweep`, `EndSweep` | `mark_stale_agents`, which reads and writes over |
| `GrowOld`, `ExpireCert`, `LearnVuln` | time, and the catalogue |

Each query of the matching is a step, and what it read is kept in the request. The agent's
row keeps apart reports of one agent. It does not keep apart those of two agents that were
enrolled under one hostname: they share the asset, and only a package that both touch makes
one wait. `crossed` remembers the assets on which such reports have overlapped, `basis` the
catalogue that the last report of an asset was matched with. `UncrossedFollows` is stated of
the assets that are not crossed, and `ExposureFollowsInventory` of all: it holds of hosts with
one agent, which is the theorem `ExposuresFollowReports`, and not of two.
`mark_stale_agents` is called by nothing in the repository; the model lets it run at any
time, so that what is shown holds once it is scheduled.

`AgentClient` is one process per host. `pc` is the place in `main()`, `awaits` the
request it waits for, `identity` and `stored` are its files, `seen`, `todo`, `current`
and `outcome` its memory. A cycle is `Heartbeat`, `Answered`, `Poll`, for each command
`Handle` (`Replay` or `Run`), `Reported` and `Ack`, and `Save` of the nonces. Whatever raises an error
ends in `CycleRefused` or `CycleLost`; `GiveUp` is a client that stops waiting while the
server works on, `Crash` the death of the process, and `FinishAbandoned` what the server
makes of requests nobody waits for. The module is composed with all of `AgentFleet`.
Publication and expiry of commands are `Publish` and `Lapse`: how a command comes to be
authorised is in `EndpointIntents`.

### Ingest and Feeds

`Feeds` is a run from the side of the feed: `Checks` gives, connector by connector, the
order in which an item is tested and what happens to it (ingested, parked in quarantine,
passed over, or an exception), and `Start`, `Request`, `RequestFails`, `Handle`, `PageDone`,
`Finish` follow the generator through its pages. `Answers` says how many items an answer may
have: none, where it lacks its list; fewer than were announced; of GitHub's search one page.
`AnswerRaises` is an answer whose JSON is no object, and an item may raise as well: an
exception that is no `ConnectorError` leaves the pipeline (`at = "raised"`) and is rolled back
by `Unwind`, so that there is no row and the previous run's stays the latest.
`sources_included` is what `build_provenance` shows.

`lost` remembers that a malformed item was passed over. `MalformedIsParked` says that the
seven connectors which check an item before they pass it over (`Careful`) never do so, in runs
that finish and in those that do not; of the other three, `base.py` says it in vain (see
Findings). `short` remembers an answer that left out what the connector will not
ask for again: an empty page of NVD, the last answer of OSV, an answer of the others.
`IncludedUnlessShort` says what a source that is shown as included stands for: all that it was
served, and all that the feed has unless an answer fell short.

`Ingest` is the same run from the side of the catalogue. `PersistVuln` and
`PersistExploit` look a row up (`Seen`: from the session if it is loaded), merge
(`Merged`, `Escalated`) and hold the result in memory; `Flush` sends what differs and
keeps the rows locked, which makes overlapping runs wait (`Waits`) and refuses one of two
that insert the same CVE (`Refused`). `Finish` commits, `Die` is every other end. `raced`
records the vulnerabilities two runs had in hand at once: there the later write drops
what the earlier one merged, and the properties say so instead of ruling it out.

### Correlation

`evaluate` resolves evidence, scores it and keeps a record; `generate_ai_brief` writes
one for a record. `Raises` models that `exploit_maturity` is loaded as a plain string of
which the resolver takes `.value`: evaluations of vulnerabilities, and of assets with an
open exposure, fail. `create_sighting` inserts anywhere in the order, since clients state
when they observed.

### Alerts

A subject is a rule with an entity; the fingerprint of an alert is its subject, severity and
hour. `tx` is the transaction of an evaluator or a client: rows it has written are seen by
others when it commits and are locked until then. An evaluation goes through `Look` (the
cooldown query, which finds the subject's alerts of any severity: a client may have posted one
with another than the rule's), `LockSeen`, `Insert` with its savepoint,
`Count` and `CommitTransaction`; a post uses `Insert` and `Count`. Waiting for a row of another is a
disabled step; a deadlock is ended by `AbortTransaction` of one of the two. `triggers` counts what
was committed.

### RateLimit and ApiKeys

A store is a bag of admission times per key (`HitsAt` are its elements). `Pruned` and `WouldAdmit` are the script
and its twin in memory; a process in `degraded` uses its own store, as `app/main.py` decides at
start. Clocks may differ by `MaxSkew`. `told` is the announced `Retry-After`. Redis is never
lost or restarted in the model: with it, its windows would start anew.

`ApiKeys` puts requests behind the limiter: `Authenticate` reads the row without a lock,
`Use` is the flush that notes `last_used_at` and locks it, `Commit` mints, revokes or
does neither, `Abort` rolls back. `Bootstrap` is the command for the first key, `Lapse`
an expiry or a burned enrolment key.

### Reports and Graph

`job` holds the request and the background task of a report. `commitFirst` is the order
of the two, which depends on the installed FastAPI (up to 0.117 requests commit first;
`pyproject.toml` allows later ones, where the task finds no row and the report is never
generated). `Collect`, `Write`, `Refuse`, `Complete`, `Fail` are the stages;
`Break` is a session that fails, `Die` the process.

`Hops` is the loop of `traverse_graph` as a function of the hop, each with the query's
limit of one row more than there is room for. It is compared with `InReach`, the rows that
touch a ball (`Balls`) around the seed. A traversal is evaluated on one set of rows, whereas
the code queries hop by hop and may see a relationship that was committed between two hops:
what `TraversalExact` says is of traversals during which none is.

## 3. Runs

Bounds are in the `.cfg` files. Deadlock is checked in the connector runs; the others
really may stop (all runs dispatched, all intents closed, a bound on what is started).
A run marked *(violation)* checks one sentence of the repository that its code breaks.

| Run | Instance | Shows |
| --- | --- | --- |
| `connector_leased` | 2 workers, 3 rows of which 2 are owned and 1 keyed, batch 2, lease 2, 3 attempts, 1 crash | a row is in one hand at a time; calls stay within attempts plus crashes; delivered means acted on; settled rows stay settled; the workers refine `OutboxContract` |
| `connector_overrun` | 2 workers, lease shorter than the batch, 2 attempts | with rows claimed from under a worker, recorded attempts stay bounded and every row is settled |
| `automation_loop` | 3 keys, 1 run, 3 steps of which 2 are internal, 2 internal workers, 1 lost transaction | nothing dispatched or done unapproved, twice or in part; `dispatched_at` tells the truth; cases and reports created once; a run shown as dispatched has lost no internal step |
| `automation_one_key` | 1 key, 2 runs, 2 internal steps, 2 internal workers, 1 lost transaction | runs keep to their life cycle; every internal step of a dispatched run takes effect |
| `automation_replay` *(violation)* | 1 key, 1 connector row | no dead letter can be replayed |
| `intents` | 4 keys, 1 intent, 2 sweepers, 1 lost sweep | quorum, authorised commands, one delivery state, windows that close |
| `intents_overlap` *(violation)* | 3 keys, 2 intents of which 1 may be published, 2 sweepers, 1 lost sweep | two sweeps audit one expiry |
| `agent_client` | 1 host, 1 agent, 1 package that is listed twice, 1 command, 2 requests under way, 2 failures | a stored nonce is a settled command's; commands run once, and once more per failure; heartbeats are answered; who reports shows as active |
| `fleet_reports` | 2 agents of 1 hostname, 2 packages, 1 vulnerability that the feeds rewrite at any moment, 2 requests under way, 1 failure | exposure follows inventory on an asset whose agents' reports have not overlapped |
| `ingest` | 2 runs at a time of 4, feeds NVD, KEV and Exploit-DB, 2 CVEs and an exploit naming both; beside it 3 sightings, 2 evaluations, 1 brief | outside races the catalogue depends on the set of feeds only; even within, the known stays known and links mean exploitable; knowledge never lowers a score, briefs rest on evidence |
| `access` | 2 processes, 2 keys, 2 requests, limit 1, window 3, skew 1, time 3; beside it 1 subject, 2 severities, 2 evaluators, 1 client, an hour of 2 ticks, a cooldown of 3, transactions of 1 tick, 3 of them up to tick 4 | windows respected, told clients admitted, no lock-out, revoked for good; each trigger counted once, no second alert within the cooldown |
| `analysis` | ten connectors, feeds of up to 3 items, pages of 2, 2 runs; beside it 2 reports, and 4 nodes, 3 relationships, depth 3 | seven connectors drop no malformed item; a source shows as included only for what it was served, all of it unless an answer fell short; reports are whole or failed and settle; traversals are exact |

Why the bounds are enough. Delivery needs two rows (one in progress, one waiting under
the same lease), two processes, one crash and one attempt more than the last. Quorums
need two approvers and a requester, one more key to race them, and two sweeps to
overlap; a second intent lets one sweep hold one while it has none of the other. Each step of an automation request or worker reads and writes one run, so one
run is enough for safety; two of its rows in one batch may see it differently. A lost
cycle of the agent is one request given up, which then overlaps the next: two requests,
one failure; the hazards of nonces and exposures are per command and per pair, and the
theorems have them for any number. Two agents and two packages are what it takes to report
at once without waiting for each other; there `ReportsApart` makes certificates last and keeps
enrolments, stale sweeps and plain heartbeats to the times without a report, as `agent_client`
has them at any time, and `SomeUncrossed` leaves a behaviour once the reports have crossed. Two ingest runs race on one CVE and need a second CVE for the order in which they lock them;
a third and a fourth run come after a lost one. Three items put a page boundary between
sound and malformed ones. The alert instance crosses two hours and one cooldown, with
a bucket boundary inside a transaction. A limit of one in a window of three has its edge
at every tick, and the skew moves requests across it. Four nodes and three rows hold the
smallest paths, forks, cycles and multiple edges that depth three tells apart.
The mutants show that every property is sensitive to a plausible bug at that size.
`MaxCrashes`, `MaxAborts`, `MaxFailures`, `MaxRuns`, `MaxBegun`, `MaxTime`, `MaxMoment`,
`MaxSightings`, `MaxRecords`, `MaxBriefs`, `MaxItems` and `MaxRelationships` bound what
would otherwise grow; everything else is finite by itself.

### Findings

Disagreements between a text of the repository and its code that a run shows:

- `automation_replay`: replays of dead letters are always refused, since the dead letter still
  holds its `(run_id, step_index)` (`docs/governance.md:66-67`).
- `intents_overlap`: sweeps that overlap each write an audit row of the same expiry, which
  `intent_expiry.py:25-26` and `docs/security.md:87-88` deny.

Seen while modelling, and without a run of their own. The models contain what belongs to
modelled parts, and the properties are stated so that they hold with it.

- *Delivery.* Retries duplicate side effects of Slack and Jira after a timeout
  (`docs/security.md:85-87`); a crash between a call and its write adds an uncounted call
  although `docs/automation.md:31` promises bounded attempts (`CallBudget` says how many).
- *Runs and intents.* A late rejection or approval overwrites a dispatched run
  (`orchestration.py:299`); approvals change terminal intents
  (`services/endpoint_intents.py:7`); a sweep overwrites results of commands
  (`intent_expiry.py:25-26`);
  `docs/endpoint-intents.md:20-21` rules out the delivery that `platform.py:411` starts.
- *Agents.* Of two agents of one asset that report at once, one matches without the package
  that the other has flushed and not committed: it resolves an exposure that matches, or keeps
  one that does not, and the row of a resolved one is never opened again
  (`services/agents.py:182-183`). `UncrossedFollows` leaves this out; TLC finds it in seconds
  for `ExposureFollowsInventory` in the instance of `fleet_reports` without `SomeUncrossed`. Two overlapping enrolments with one single-use key both succeed, since the
  key's status is read once, before either has burned it (`docs/security.md:72-73`); this
  hazard alone has no property. A listing with the same name and version twice, or
  software whose exposure was resolved and comes back, is refused by a unique constraint,
  and the agent then repeats its full heartbeat for ever. `CERT_EXPIRED` is assigned and rolled back (`services/agents.py:101`).
  Nothing schedules the stale sweep, and agents that never reported are not stale.
  `urlopen`'s time-out while reading is not caught and ends the agent (`client.py:36-39`).
- *Ingest.* Overlapping runs lose sources and lower maturity. Any exception but a
  `ConnectorError` loses the run with its `source_runs` row (`pipeline.py:3-5` promises
  one), among others for a `since` without a zone, or for one item whose time stamp is no
  string (`base.py:126-128`, implementations "must not raise on a single malformed record").
- *Feeds.* OSV drops items without an id, Exploit-DB old rows without one, and GitHub weak
  repositories with an unreadable time stamp (`base.py:8-10`, "quarantined, not dropped");
  `MalformedIsParked` is about the other seven connectors. An empty page ends NVD's feed as a
  success, whatever was announced (`connectors.py:155`); other connectors take an answer
  without its list for an empty feed, and of GitHub's search the first page is all that is
  read: their sources show as included for a part (`provenance.py:4-6`), which
  `IncludedUnlessShort` tells apart by `short`.
- *Correlation, AI.* `.value` of a maturity that is a plain string raises in
  `evidence_resolver.py`, `reports.py:218`, `rag.py:147` and `assets.py:155`; a score can reach 33 at
  most and every tier is "low". With FastAPI 0.118 reports are never generated.
- *Alerts.* Evaluations that straddle an hour can split an alert; a post can move
  `last_triggered_at` back; one malformed condition ends every evaluation
  (`alert_evaluation.py:56`).
- *Graph.* A traversal that is full exactly at the end of a hop is not marked truncated
  (`docs/investigation-graph.md:18`).

### Fairness

- Delivery: `main()` loops for ever and is restarted by Compose, so an idle worker
  claims what is there (`Claim`), a worker with a batch makes its calls (`Call`), a
  call ends by its timeout and is recorded (`Record`), and time goes on (`Tick`). Which
  way a call ends is not fair. Weak fairness suffices: a claimable row stays so until
  it is claimed. Crashes are bounded, since a row cannot be settled by a process that
  dies each time it holds it.
- Internal worker: its `main()` loops for ever and is restarted by Compose, claims what
  it can and works off its batch; transactions that fail are bounded, since rows cannot
  be settled by a worker that fails each time.
- Intents: a request ends by commit or rollback, and the sweep comes round. The
  sweep's write has strong fairness: requests may lock its rows again and again, but
  PostgreSQL queues it for the row and grants it in turn.
- Agent client: each process is restarted and goes on (`ClientStep`), the server works
  on the requests it has (`Serve`), and finishes those that were abandoned. Waiting ends since heartbeats lock in one order; failures are bounded.
  `ReportingShows` is conditional: it speaks of agents that heartbeat and poll again and again.
- Reports: a background task that was scheduled takes its next step. Nothing is assumed
  of a process that died: its reports are in `hurt`.
- No fairness is assumed in the other runs; they check safety only.

## 4. Theorems

Every safety property that a passing run checks is a theorem, and its inductive invariant
another. `ExpiriesAuditedOnce` and `ExposuresFollowReports` are about deployments that no run
has to itself: one expiry worker, and a host with the one agent it enrolled.
Every statement holds for all values of the constants that meet the named
assumptions (`OutboxAssumption`, `DeliveryAssumption`, `RunsAssumption`,
`AutomationAssumption`, `IntentsAssumption`, `ExposureAssumption`, `FleetAssumption`,
`ClientAssumption`, `ReportsAssumption`, `RateLimitAssumption`, `AccessAssumption`,
`IngestAssumption`, `RowsAssumption`, `FeedsAssumption`, `CorrelationAssumption`,
`AlertsAssumption`, `AlertRowsAssumption`, `GraphAssumption`), which TLC evaluates in the
runs of their modules. They say that bounds and lengths are numbers, that a missing row is
not a row and an unknown value not a value, and, in `IntentsAssumption`, that there are
finitely many sweepers. The cooldown, the hour, the length of a transaction, windows, limits
and skews are arbitrary, and so are page sizes, evidence limits, depths and graphs.

**Delivery.** `DeliveryInv` is inductive under `ExclusiveClaims`. That no row is in two
hands is not inductive by itself: a second claim is kept off by the lease only while
the lease outlasts what the holder still has to do, which is `LeaseOutlastsBatch`
(lease left is at least rows left times `CallTicks`, less the time spent on the
current one). Each tick takes one from both sides; each recorded row takes `CallTicks`
off the work and resets the time spent. From exclusivity, a worker's loaded attempts
are the row's (`HeldRowsCurrent`), so counting is right (`AttemptsBounded`,
`CallsAccounted`) and settled rows are in nobody's hands (`SettledForGood`). The
refinement `ImplementsContract` maps a record to `Attempt`, an insert to `Submit`, and
everything else to a stutter. `AttemptsNeverExceed` needs none of this: whatever rows
are overwritten, a worker writes at most one more than it loaded, and it loaded fewer
than the limit.

**Runs.** `RunsInv` adds to the checked properties that approved and dispatched runs
have an approval, absent ones none, and that a dispatch under way read one. Approvals
can be replaced by others but never removed, so what a dispatch read stays true of
the run although the run's state may have changed. `OneKeyIsOrderly` rests on
`ReadIsCurrent`: with one key, nobody writes between a request's read and its commit.

**Automation loop.** `LoopInv` adds that rows exist when inserted, are held by one
transaction, and `FindingsHold`: a worker that saw its run in another state than
dispatched saw a run that was overwritten after its dispatch, and such a run never
shows as dispatched again, because its steps are in the outbox and a second dispatch
cannot insert them (`OverwrittenForGood`). `LoopImplementsRuns` shows that the loop
implements `Spec` of `AutomationRuns`, so the theorems on runs hold of it, among them
that `dispatched_at` tells the truth (`DispatchesRecorded`).

**Intents.** `IntentsInv` adds the row lock (`OneHolder`) and what a request knows while
it holds the lock (`DecisionsHold`): an approving decision has another approver who is
not the requester, a publication its quorum. A quorum, once there, is never lost, so a
command stays authorised after its intent has moved on. `AuditInv` carries the audit:
an intent that has an expiry row is closed for good, so a sweeper that still has it in
hand read it before the first row was written; the rows are at most the sweepers that
are not about to write one. With a single sweeper that is one row (`ExpiriesAuditedOnce`).

**Agent.** `AgentInv` joins what the client has (`ClientInv`), the tables (`ExposureInv`),
the commands in hand (`CommandsInv`) and the runs (`RunsAccounted`). For
the exposures, two reports that are worked on at once are of two agents, because each holds
its agent's row, so their asset is crossed (`OneWorker`); a report on one that is not crossed
thus finds what it has read unchanged when it commits (`ReadsCurrent`), and leaves open exactly
what the catalogue it read matches (`StoredFollows`). `ExposuresFollow` states this of the
gateway alone, under any clients. `ExposuresFollowReports` adds that a host reports as the one
agent it was enrolled as, so that no asset is crossed (`SoleReporters`). For
`NoFalseReplay`, a nonce goes to the file only after its ack, and an ack settles. For
`RunsBounded`, a command that has run as often as there were failures, plus one, is
settled, expired, or in hand: to be handed out again it has to be lost, which is one more
failure.

**Reports.** `ReportInv` strengthens `WholeOrFailed` for each report by what its task
knows: a request that is open has no row; a running task works on a queued row; figures
belong to a row; only a configured model refuses; broken sessions are in `hurt`.

**API keys.** Nothing is read again after authentication, so `AccessInv` says what stays
true of it: a row that was read has the same scopes now (`ReadStillTrue`), a decision to
mint or revoke was made by a key that held what it needed (`DecisionStands`), the writer
of a revocation is not its target (`WriterStands`), and parents are never deleted
(`ParentStays`). The limiter needs no part in it. `ScopesOnlyShrink` is stated for any
scopes; the run has `apikey.write` only, so there the theorem says more than TLC.

**Rate limiter.** A window that is respected now may be broken by the next admission, so
`LimiterInv` says of each store and key (`StoreSound`) what ties admissions to what is
held: at most the limit is held; of a window that is not yet over, every admission is still
held, because what the script removes is a window old by a clock that is at most `MaxSkew`
ahead; and Redis drops a key only when all of it is that old. The next admission thus finds
all that could share a window with it (`WindowKept`). For `RetriesAdmitted`, the announced
second is one at which the oldest request has left, and one of the limit's is free; it stays
free, since later steps only remove, until an admission takes back the announcement.

**Ingest.** `IngestInv` says of every row a run has in hand that it only rises over what
was read (`RunInv`), that rows which are flushed are held by one run (`HeldApart`), and
that an exploit that is newly linked has its vulnerability in the same hand, escalated.
A write of the columns that differ thus never lowers what others have written, which
gives `LinksMeanExploitable` and `KnowledgeStays` for any number of runs, feeds and CVEs.
For `OrderDoesNotMatter`, `MergeInv` follows a vulnerability that no two runs had in hand at
once: its row is what its feeds make of it (`Agrees`), which says nothing of their order, and
the row in the hand of a run is the committed one with its feed added. Merging keeps
`Agrees` for every feed, and a vulnerability that a second run takes up leaves the statement
by being `raced`.

**Feeds.** `FeedsInv` accounts for a run: what it has counted as ingested, quarantined or
passed, and the page in hand, add up to what it was served (`RunCounts`); a connector that
asks for no more has been served all, or had an answer that fell short (`ServedAll`). A run
that ends without quarantine or error has thus `ingested + passed = served`, which is
`IncludedServed`. For `MalformedParked`, the verdict of an item is that of its first failing
check (`FirstFailure`), and the lists of checks are gone through one by one (`VerdictParks`).

**Correlation.** `CorrelationInv` adds that what a record says could still be said, and no
more than could be said, of its entity now (`StillKnown`): sightings are only added, the
resolver sees more of them, and more evidence scores no lower (`AssessedHigher`). It is
stated for records whose rows all fit the limit; a truncated one may indeed know less.

**Alerts.** `AlertsInv` ties the occurrences of the rows to the triggers that were committed
(`TalliedRows`), and what an uncommitted transaction has written to what it has counted
(`Tallied`): it alone holds the rows it has written, which still carry the committed count
plus its own. The counts are cardinalities of sets of occurrences, so that a commit is a union
of disjoint sets. For `CooldownRespected`, an evaluation that has none beside it sees the
alerts of a subject a cooldown apart, and when it is about to insert, those it has not in hand
are a cooldown old (`Spaced`, `Clear`); a post that commits in between may only move
`last_triggered_at` back by the time a transaction lasts (`InOrder`), hence `MaxDelay`.

**Graph.** What n hops have come to (`Come`) is stated against the balls around the seed: the
edges are those within reach of the last hop that found any, or, when truncated, fill the
limit with a part of them, and a traversal that goes on has visited the whole ball and taken
all that touches its inside. Each hop keeps this (`ComesToHop`), a stop keeps it for good
(`NothingFurther`). The induction over hops goes through the least number that is not in a set
(`LeastNumber`, `AllNumbers`), because the library's induction theorems cannot be used; that
`Hops` and `Balls` satisfy their equations is proved from the same (`Recursion`).
`GraphSpec` is the graph alone, of which `analysis` runs `GraphNext`.

**Only model-checked.** Liveness, which is beyond this prover: `EventuallySettled`,
`StepsTakeEffect`, `WindowCloses`, `Answers`, `ReportingShows`, `ReportsSettle`; and the
violations, which are counterexamples and not theorems.

## 5. Not modelled

`PROJECT.json` lists every component with its status and reason.

- *Nothing to go wrong over time*: investigations and cases (rows inserted and listed),
  governance, health, intelligence, discovery, domain and workspace views (queries; their
  provenance is in `Feeds`), the capability gate (a static table; a refusal is a
  rollback), application assembly, the console, one-shot scripts.
- *Cryptography and external models*: command envelopes (no caller in the program),
  certificate signing, hashing of keys, prompts, retrieval and model calls. A chat stores
  nothing.
- *Same shape as what is modelled*: the upserts of victims, indicators and ransomware
  groups; the creation of playbooks, alert rules, users and roles; tenant settings.

Abstracted in what is modelled: contents of payloads and receipts, tenants (every query
is by tenant, and no two tenants share a row), ordering of a claim by `created_at`
(subsumed by `SKIP LOCKED`), feeds' text formats, CPE strings and product names (a
vulnerability matches a set of packages; a package without a version never conflicts), the choice of alert candidates, words of reports and briefs.
The initial states are those of an empty, migrated database.

An approval that is decided before the deadline and swept at the same time may end
either way; no text promises which.

## 6. What is left

One composition of `Automation` with `ConnectorDelivery` on a shared `Outbox` would add to
this development: today they are joined through `OutboxContract`, which the worker is proved
to implement, and which the loop takes for the connector worker.
