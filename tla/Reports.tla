------------------------------ MODULE Reports ------------------------------
(***************************************************************************)
(* Reports on request (app/api/v1/ai.py, app/ai/reports.py): the request   *)
(* adds a queued row, and a background task of the same process collects   *)
(* the figures, has the model write around them if one is configured, and  *)
(* settles the row.  What the task notes in between is never committed.    *)
(*                                                                         *)
(* When the background task runs depends on the installed FastAPI, which   *)
(* pyproject.toml only bounds from below: up to 0.117 a request commits    *)
(* before its background tasks run, from 0.118 on after.                   *)
(*                                                                         *)
(* The maturity of a vulnerability is loaded as a plain string, and the    *)
(* figures take its .value: collecting them raises when an asset has an    *)
(* open exposure.                                                          *)
(***************************************************************************)
EXTENDS Integers

CONSTANTS
    ReportIds,
    Absent,     \* no such row
    NoError

VARIABLES
    report,       \* the rows of reports
    job,          \* the request and the background task of each report
    commitFirst,  \* whether requests commit before their background tasks run
    configured,   \* whether a language model is configured
    exposed,      \* whether an asset has an open exposure
    hurt,         \* history: reports whose session broke, or whose process died
    figured       \* history: reports whose figures were collected

reportVars == <<report, job, commitFirst, configured, exposed, hurt, figured>>

ReportRows ==
    [status : {"queued", "completed", "failed"}, content : BOOLEAN,
     error : {NoError, "class", "response"}]
ASSUME ReportsAssumption == Absent \notin ReportRows

Queued == [status |-> "queued", content |-> FALSE, error |-> NoError]
NoJob == [request |-> "none", task |-> "none"]
Running == {"loaded", "figures", "text", "refused", "failing"}
Tasks == Running \cup {"none", "scheduled", "broken", "ended"}
Settled(r) == report[r] # Absent /\ report[r].status # "queued"

ReportsTypeOK ==
    /\ report \in [ReportIds -> ReportRows \cup {Absent}]
    /\ job \in [ReportIds -> [request : {"none", "open", "ended"}, task : Tasks]]
    /\ {commitFirst, configured, exposed} \subseteq BOOLEAN
    /\ hurt \subseteq ReportIds
    /\ figured \subseteq ReportIds

ReportsInit ==
    /\ report = [r \in ReportIds |-> Absent]
    /\ job = [r \in ReportIds |-> NoJob]
    /\ commitFirst \in BOOLEAN
    /\ configured \in BOOLEAN
    /\ exposed = FALSE
    /\ hurt = {}
    /\ figured = {}

-----------------------------------------------------------------------------
(* The request. *)

SetJob(r, request, task) == job' = [job EXCEPT ![r] = [request |-> request, task |-> task]]

generate_report(r) ==
    /\ job[r] = NoJob /\ report[r] = Absent
    /\ SetJob(r, "open", "none")
    /\ hurt' = hurt \ {r}
    /\ UNCHANGED <<report, commitFirst, configured, exposed, figured>>

\* The response is sent, and with it the background task is started.
Respond(r) ==
    /\ job[r].task = "none"
    /\ job[r].request = IF commitFirst THEN "ended" ELSE "open"
    /\ SetJob(r, job[r].request, "scheduled")
    /\ UNCHANGED <<report, commitFirst, configured, exposed, hurt, figured>>

\* get_db's commit.
CommitRequest(r) ==
    /\ job[r].request = "open"
    /\ job[r].task = IF commitFirst THEN "none" ELSE "ended"
    /\ report' = [report EXCEPT ![r] = Queued]
    /\ SetJob(r, "ended", job[r].task)
    /\ UNCHANGED <<commitFirst, configured, exposed, hurt, figured>>

\* The commit fails, and there is no report.
AbortRequest(r) ==
    /\ job[r].request = "open"
    /\ job[r].task = IF commitFirst THEN "none" ELSE "ended"
    /\ SetJob(r, "none", "none")
    /\ UNCHANGED <<report, commitFirst, configured, exposed, hurt, figured>>

-----------------------------------------------------------------------------
(* The background task: _run. *)

Continue(r, from, to) ==
    /\ job[r].task = from
    /\ SetJob(r, job[r].request, to)

StartTask(r) ==
    /\ Continue(r, "scheduled", IF report[r] = Absent THEN "ended" ELSE "loaded")
    /\ UNCHANGED <<report, commitFirst, configured, exposed, hurt, figured>>

\* _collect_facts.
Collect(r) ==
    /\ Continue(r, "loaded", IF exposed THEN "failing" ELSE "figures")
    /\ figured' = IF exposed THEN figured ELSE figured \cup {r}
    /\ UNCHANGED <<report, commitFirst, configured, exposed, hurt>>

\* _write: without a model the figures are the report; a model may refuse, or fail in a
\* way of its own.
Write(r) ==
    /\ \/ Continue(r, "figures", "text")
       \/ configured /\ Continue(r, "figures", "refused")
       \/ configured /\ Continue(r, "figures", "failing")
    /\ UNCHANGED <<report, commitFirst, configured, exposed, hurt, figured>>

Settle(r, from, row) ==
    /\ Continue(r, from, "ended")
    /\ report' = [report EXCEPT ![r] = row]
    /\ UNCHANGED <<commitFirst, configured, exposed, hurt, figured>>

Complete(r) == Settle(r, "text", [status |-> "completed", content |-> TRUE, error |-> NoError])

\* Mutant: what was written is kept.
RefuseHalfWritten(r) ==
    Settle(r, "refused", [status |-> "failed", content |-> TRUE, error |-> "response"])

\* "A failed report is marked failed.  It is never silently saved half-written."
Refuse(r) == Settle(r, "refused", [status |-> "failed", content |-> FALSE, error |-> "response"])

\* Mutant: other exceptions end the task.
FailSilently(r) ==
    /\ Continue(r, "failing", "ended")
    /\ UNCHANGED <<report, commitFirst, configured, exposed, hurt, figured>>

\* Any other exception.
Fail(r) == Settle(r, "failing", [status |-> "failed", content |-> FALSE, error |-> "class"])

\* The session's transaction fails: a query or the commit.  The handler commits again,
\* which the session refuses.
Break(r) ==
    /\ \E from \in Running : Continue(r, from, "broken")
    /\ hurt' = hurt \cup {r}
    /\ UNCHANGED <<report, commitFirst, configured, exposed, figured>>

Raise(r) ==
    /\ Continue(r, "broken", "ended")
    /\ UNCHANGED <<report, commitFirst, configured, exposed, hurt, figured>>

-----------------------------------------------------------------------------

\* The process dies with all its requests and tasks.
Die ==
    /\ job' = [r \in ReportIds |-> NoJob]
    /\ hurt' = hurt \cup {r \in ReportIds : job[r].task # "ended" /\ job[r] # NoJob}
    /\ UNCHANGED <<report, commitFirst, configured, exposed, figured>>

\* A heartbeat opens an exposure, or resolves the last one.
Expose ==
    /\ exposed' = ~exposed
    /\ UNCHANGED <<report, job, commitFirst, configured, hurt, figured>>

Step(r) ==
    \/ Respond(r)
    \/ CommitRequest(r)
    \/ StartTask(r)
    \/ Collect(r)
    \/ Write(r)
    \/ Complete(r)
    \/ Refuse(r)
    \/ Fail(r)
    \/ Raise(r)

ReportsNext ==
    \/ \E r \in ReportIds : generate_report(r) \/ AbortRequest(r) \/ Step(r) \/ Break(r)
    \/ Die
    \/ Expose

\* The event loop runs what is ready.
FairReportsSpec ==
    ReportsInit /\ [][ReportsNext]_reportVars /\ \A r \in ReportIds : WF_reportVars(Step(r))

-----------------------------------------------------------------------------
(* Properties. *)

\* A report is completed with its text or failed without any (reports.py:142-143), and a
\* report stays queued without a task that works on it only if its session broke, its
\* process died, or requests commit last.  Without a model, only figures that could not be
\* collected fail one (reports.py:351, "emit the verified figures rather than nothing").
WholeOrFailed ==
    \A r \in ReportIds : report[r] # Absent =>
        /\ (report[r].status = "completed") = report[r].content
        /\ report[r].status = "failed" /\ ~configured => r \notin figured
        /\ report[r].status = "queued" /\ (job[r] = NoJob \/ job[r].task = "ended") =>
              r \in hurt \/ ~commitFirst

\* Every report that is queued is settled in the end, if requests commit first, unless its
\* session breaks or its process dies.
ReportsSettle ==
    \A r \in ReportIds :
        report[r] # Absent ~> Settled(r) \/ r \in hurt \/ ~commitFirst
=============================================================================
