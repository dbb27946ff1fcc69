--------------------------- MODULE Analysis_proofs ---------------------------
(***************************************************************************)
(* What holds of what an analyst reads.                                    *)
(*                                                                         *)
(* Of reports: for any number of them, whenever their tasks run, break or  *)
(* die.  Of alerts: for any subjects, evaluations and posts, wherever they *)
(* wait for each other, and for any lengths of the cooldown, of the hour   *)
(* in a fingerprint and of a transaction.  Of traversals of the graph: for *)
(* any entities and relationships, any depth and any limit.                *)
(***************************************************************************)
EXTENDS Reports, Alerts, Graph, FiniteSetTheorems, WellFoundedInduction, TLAPS

-----------------------------------------------------------------------------
(* Reports. *)

ReportsSpec == ReportsInit /\ [][ReportsNext]_reportVars

\* A job keeps its type wherever its request and its task go.
LEMMA JobTyped ==
    ASSUME ReportsTypeOK, NEW r \in ReportIds, NEW request \in {"none", "open", "ended"},
           NEW task \in Tasks, SetJob(r, request, task)
    PROVE  job' \in [ReportIds -> [request : {"none", "open", "ended"}, task : Tasks]]
BY DEF ReportsTypeOK, SetJob

\* Each step keeps rows, jobs and histories in their types.
LEMMA ReportsTyped == ReportsTypeOK /\ [ReportsNext]_reportVars => ReportsTypeOK'
<1> SUFFICES ASSUME ReportsTypeOK, [ReportsNext]_reportVars
             PROVE  ReportsTypeOK'
  OBVIOUS
<1>0. \A r \in ReportIds :
        job[r].request \in {"none", "open", "ended"} /\ job[r].task \in Tasks
  BY DEF ReportsTypeOK
<1>1. ASSUME NEW r \in ReportIds, generate_report(r)
      PROVE  ReportsTypeOK'
  <2>1. "none" \in Tasks  BY DEF Tasks
  <2> QED  BY <1>1, <2>1, JobTyped DEF generate_report, ReportsTypeOK
<1>2. ASSUME NEW r \in ReportIds, AbortRequest(r)
      PROVE  ReportsTypeOK'
  <2>1. "none" \in Tasks  BY DEF Tasks
  <2> QED  BY <1>2, <2>1, JobTyped DEF AbortRequest, ReportsTypeOK
<1>3. ASSUME NEW r \in ReportIds, NEW from, NEW to \in Tasks, Continue(r, from, to)
      PROVE  job' \in [ReportIds -> [request : {"none", "open", "ended"}, task : Tasks]]
  BY <1>0, <1>3, JobTyped DEF Continue
<1>4. ASSUME NEW r \in ReportIds, NEW from, NEW row \in ReportRows, Settle(r, from, row)
      PROVE  ReportsTypeOK'
  <2>1. "ended" \in Tasks  BY DEF Tasks
  <2> QED  BY <1>3, <1>4, <2>1 DEF Settle, ReportsTypeOK
<1>5. ASSUME NEW r \in ReportIds, Step(r)
      PROVE  ReportsTypeOK'
  <2>1. CASE Respond(r)
    <3>1. "scheduled" \in Tasks  BY DEF Tasks
    <3> QED  BY <1>0, <2>1, <3>1, JobTyped DEF Respond, ReportsTypeOK
  <2>2. CASE CommitRequest(r)
    <3>1. Queued \in ReportRows  BY DEF Queued, ReportRows
    <3> QED  BY <1>0, <2>2, <3>1, JobTyped DEF CommitRequest, ReportsTypeOK
  <2>3. CASE StartTask(r) \/ Write(r) \/ Raise(r)
    <3>1. {"loaded", "text", "refused", "failing", "ended"} \subseteq Tasks
      BY DEF Tasks, Running
    <3> QED  BY <1>3, <2>3, <3>1 DEF StartTask, Write, Raise, ReportsTypeOK
  <2>4. CASE Collect(r)
    <3>1. {"figures", "failing"} \subseteq Tasks  BY DEF Tasks, Running
    <3> QED  BY <1>3, <2>4, <3>1 DEF Collect, ReportsTypeOK
  <2>5. CASE Complete(r) \/ Refuse(r) \/ Fail(r)
    BY <1>4, <2>5 DEF Complete, Refuse, Fail, ReportRows
  <2> QED  BY <1>5, <2>1, <2>2, <2>3, <2>4, <2>5 DEF Step
<1>6. ASSUME NEW r \in ReportIds, Break(r)
      PROVE  ReportsTypeOK'
  <2>1. "broken" \in Tasks  BY DEF Tasks
  <2> QED  BY <1>3, <1>6, <2>1 DEF Break, ReportsTypeOK
<1>7. CASE Die
  <2>1. NoJob \in [request : {"none", "open", "ended"}, task : Tasks]  BY DEF NoJob, Tasks
  <2> QED  BY <1>7, <2>1 DEF Die, ReportsTypeOK
<1>8. CASE Expose  BY <1>8 DEF Expose, ReportsTypeOK
<1>9. CASE UNCHANGED reportVars  BY <1>9 DEF reportVars, ReportsTypeOK
<1> QED
  BY <1>1, <1>2, <1>5, <1>6, <1>7, <1>8, <1>9 DEF ReportsNext

-----------------------------------------------------------------------------

\* Besides, of each report: a request that is open has no row yet; figures are those of a
\* row, and collected once; only a configured model refuses, and only it or the collection
\* of figures fails; and a broken task is known to be.
ReportInv(r) ==
    /\ job[r].request = "open" => report[r] = Absent
    /\ r \in figured =>
          /\ report[r] # Absent
          /\ job[r] = NoJob \/ job[r].task \notin {"none", "scheduled", "loaded"}
    /\ job[r].task \in Running => report[r] # Absent
    /\ report[r] # Absent /\ job[r].task # "ended" /\ job[r] # NoJob => report[r].status = "queued"
    /\ job[r].task = "refused" => configured
    /\ job[r].task = "failing" /\ ~configured => r \notin figured
    /\ job[r].task = "broken" => r \in hurt

\* What WholeOrFailed says of one report.
Whole(r) == report[r] # Absent =>
    /\ (report[r].status = "completed") = report[r].content
    /\ report[r].status = "failed" /\ ~configured => r \notin figured
    /\ report[r].status = "queued" /\ (job[r] = NoJob \/ job[r].task = "ended") =>
          r \in hurt \/ ~commitFirst

ReportsInv == \A r \in ReportIds : Whole(r) /\ ReportInv(r)

Same(r) ==
    /\ report'[r] = report[r] /\ job'[r] = job[r]
    /\ (r \in hurt' <=> r \in hurt) /\ (r \in figured' <=> r \in figured)

\* A step of one report leaves the others as they were.
LEMMA OneReport ==
    ASSUME ReportsInv, UNCHANGED <<commitFirst, configured>>, NEW r \in ReportIds,
           \A q \in ReportIds \ {r} : Same(q),
           ReportInv(r)', Whole(r)'
    PROVE  ReportsInv'
<1>1. ASSUME NEW q \in ReportIds \ {r}
      PROVE  Whole(q)' /\ ReportInv(q)'
  BY DEF ReportsInv, ReportInv, Whole, Same
<1> QED  BY <1>1 DEF ReportsInv

\* Each step keeps the invariant.
LEMMA ReportsKept == ReportsTypeOK /\ ReportsInv /\ [ReportsNext]_reportVars => ReportsInv'
<1> SUFFICES ASSUME ReportsTypeOK, ReportsInv, [ReportsNext]_reportVars
             PROVE  ReportsInv'
  OBVIOUS
<1>0. ASSUME NEW r \in ReportIds
      PROVE  /\ ReportInv(r) /\ Whole(r)
             /\ report[r] # Absent => report[r] \in ReportRows
             /\ Absent \notin ReportRows
             /\ job[r].request \in {"none", "open", "ended"} /\ job[r].task \in Tasks
             /\ job[r] = [request |-> job[r].request, task |-> job[r].task]
  BY ReportsAssumption DEF ReportsInv, ReportsTypeOK
<1>1. ASSUME NEW r \in ReportIds, generate_report(r)
      PROVE  ReportsInv'
  <2>1. ReportInv(r)'
    BY <1>0, <1>1 DEF generate_report, ReportsTypeOK, SetJob, Continue,
       ReportInv, NoJob, Running
  <2>2. Whole(r)'
    BY <1>0, <1>1 DEF generate_report, ReportsTypeOK, SetJob, Continue, Whole,
       ReportInv, NoJob, Running
  <2>3. /\ UNCHANGED <<commitFirst, configured>>
        /\ \A q \in ReportIds \ {r} : Same(q)
    BY <1>1 DEF generate_report, ReportsTypeOK, SetJob, Continue, Same
  <2> QED  BY <2>1, <2>2, <2>3, OneReport
<1>2. ASSUME NEW r \in ReportIds, AbortRequest(r)
      PROVE  ReportsInv'
  <2>1. ReportInv(r)'
    BY <1>0, <1>2 DEF AbortRequest, ReportsTypeOK, SetJob, Continue,
       ReportInv, NoJob, Running
  <2>2. Whole(r)'
    BY <1>0, <1>2 DEF AbortRequest, ReportsTypeOK, SetJob, Continue, Whole,
       ReportInv, NoJob, Running
  <2>3. /\ UNCHANGED <<commitFirst, configured>>
        /\ \A q \in ReportIds \ {r} : Same(q)
    BY <1>2 DEF AbortRequest, ReportsTypeOK, SetJob, Continue, Same
  <2> QED  BY <2>1, <2>2, <2>3, OneReport
<1>3. ASSUME NEW r \in ReportIds, Respond(r)
      PROVE  ReportsInv'
  <2>1. ReportInv(r)'
    BY <1>0, <1>3 DEF Respond, ReportsTypeOK, SetJob, Continue,
       ReportInv, NoJob, Running
  <2>2. Whole(r)'
    BY <1>0, <1>3 DEF Respond, ReportsTypeOK, SetJob, Continue, Whole,
       ReportInv, NoJob, Running
  <2>3. /\ UNCHANGED <<commitFirst, configured>>
        /\ \A q \in ReportIds \ {r} : Same(q)
    BY <1>3 DEF Respond, ReportsTypeOK, SetJob, Continue, Same
  <2> QED  BY <2>1, <2>2, <2>3, OneReport
<1>4. ASSUME NEW r \in ReportIds, CommitRequest(r)
      PROVE  ReportsInv'
  <2>1. ReportInv(r)'
    BY <1>0, <1>4 DEF CommitRequest, Queued, ReportsTypeOK, SetJob, Continue,
       ReportInv, NoJob, Running
  <2>2. Whole(r)'
    BY <1>0, <1>4
    DEF CommitRequest, Queued, ReportsTypeOK, SetJob, Continue, Whole,
       ReportInv, NoJob, Running
  <2>3. /\ UNCHANGED <<commitFirst, configured>>
        /\ \A q \in ReportIds \ {r} : Same(q)
    BY <1>4 DEF CommitRequest, Queued, ReportsTypeOK, SetJob, Continue, Same
  <2> QED  BY <2>1, <2>2, <2>3, OneReport
<1>5. ASSUME NEW r \in ReportIds, StartTask(r)
      PROVE  ReportsInv'
  <2>1. ReportInv(r)'
    BY <1>0, <1>5 DEF StartTask, ReportsTypeOK, SetJob, Continue,
       ReportInv, NoJob, Running
  <2>2. Whole(r)'
    BY <1>0, <1>5 DEF StartTask, ReportsTypeOK, SetJob, Continue, Whole,
       ReportInv, NoJob, Running
  <2>3. /\ UNCHANGED <<commitFirst, configured>>
        /\ \A q \in ReportIds \ {r} : Same(q)
    BY <1>5 DEF StartTask, ReportsTypeOK, SetJob, Continue, Same
  <2> QED  BY <2>1, <2>2, <2>3, OneReport
<1>6. ASSUME NEW r \in ReportIds, Collect(r)
      PROVE  ReportsInv'
  <2>1. ReportInv(r)'
    BY <1>0, <1>6 DEF Collect, ReportsTypeOK, SetJob, Continue,
       ReportInv, NoJob, Running
  <2>2. Whole(r)'
    BY <1>0, <1>6 DEF Collect, ReportsTypeOK, SetJob, Continue, Whole,
       ReportInv, NoJob, Running
  <2>3. /\ UNCHANGED <<commitFirst, configured>>
        /\ \A q \in ReportIds \ {r} : Same(q)
    BY <1>6 DEF Collect, ReportsTypeOK, SetJob, Continue, Same
  <2> QED  BY <2>1, <2>2, <2>3, OneReport
<1>7. ASSUME NEW r \in ReportIds, Write(r)
      PROVE  ReportsInv'
  <2>1. ReportInv(r)'
    BY <1>0, <1>7 DEF Write, ReportsTypeOK, SetJob, Continue,
       ReportInv, NoJob, Running
  <2>2. Whole(r)'
    BY <1>0, <1>7 DEF Write, ReportsTypeOK, SetJob, Continue, Whole,
       ReportInv, NoJob, Running
  <2>3. /\ UNCHANGED <<commitFirst, configured>>
        /\ \A q \in ReportIds \ {r} : Same(q)
    BY <1>7 DEF Write, ReportsTypeOK, SetJob, Continue, Same
  <2> QED  BY <2>1, <2>2, <2>3, OneReport
<1>8. ASSUME NEW r \in ReportIds, NEW from \in Running, NEW row \in ReportRows,
             Settle(r, from, row),
             (row.status = "completed") = row.content, row.status # "queued",
             row.status = "failed" /\ ~configured => r \notin figured
      PROVE  ReportsInv'
  <2>1. /\ report'[r] = row /\ row # Absent
        /\ job'[r] = [request |-> job[r].request, task |-> "ended"]
        /\ UNCHANGED <<commitFirst, configured, hurt, figured>>
        /\ \A q \in ReportIds \ {r} : report'[q] = report[q] /\ job'[q] = job[q]
    BY <1>8, ReportsAssumption DEF Settle, Continue, SetJob, ReportsTypeOK
  <2>2. job[r].request # "open"  BY <1>0, <1>8 DEF ReportInv, Settle, Continue
  <2>3. ReportInv(r)'  BY <2>1, <2>2 DEF ReportInv, Running
  <2>4. Whole(r)'  BY <1>8, <2>1 DEF Whole
  <2>5. \A q \in ReportIds \ {r} : Same(q)  BY <2>1 DEF Same
  <2> QED  BY <2>1, <2>3, <2>4, <2>5, OneReport
<1>9. ASSUME NEW r \in ReportIds, Complete(r) \/ Refuse(r) \/ Fail(r)
      PROVE  ReportsInv'
  <2>1. CASE Complete(r)
    <3> DEFINE row == [status |-> "completed", content |-> TRUE, error |-> NoError]
    <3>1. "text" \in Running /\ row \in ReportRows  BY DEF Running, ReportRows
    <3> QED  BY <1>8, <2>1, <3>1 DEF Complete
  <2>2. CASE Refuse(r)
    <3> DEFINE row == [status |-> "failed", content |-> FALSE, error |-> "response"]
    <3>1. "refused" \in Running /\ row \in ReportRows  BY DEF Running, ReportRows
    <3>2. configured  BY <1>0, <2>2 DEF Refuse, Settle, Continue, ReportInv
    <3> QED  BY <1>8, <2>2, <3>1, <3>2 DEF Refuse
  <2>3. CASE Fail(r)
    <3> DEFINE row == [status |-> "failed", content |-> FALSE, error |-> "class"]
    <3>1. "failing" \in Running /\ row \in ReportRows  BY DEF Running, ReportRows
    <3>2. ~configured => r \notin figured
      BY <1>0, <2>3 DEF Fail, Settle, Continue, ReportInv
    <3> QED  BY <1>8, <2>3, <3>1, <3>2 DEF Fail
  <2> QED  BY <1>9, <2>1, <2>2, <2>3
<1>10. ASSUME NEW r \in ReportIds, Raise(r) \/ Break(r)
      PROVE  ReportsInv'
  <2>1. ReportInv(r)'
    BY <1>0, <1>10 DEF Raise, Break, ReportsTypeOK, SetJob, Continue,
       ReportInv, NoJob, Running
  <2>2. Whole(r)'
    BY <1>0, <1>10 DEF Raise, Break, ReportsTypeOK, SetJob, Continue, Whole,
       ReportInv, NoJob, Running
  <2>3. /\ UNCHANGED <<commitFirst, configured>>
        /\ \A q \in ReportIds \ {r} : Same(q)
    BY <1>10 DEF Raise, Break, ReportsTypeOK, SetJob, Continue, Same
  <2> QED  BY <2>1, <2>2, <2>3, OneReport
<1>11. CASE Die
  <2>1. \A r \in ReportIds : job'[r] = NoJob /\ (r \in hurt' <=>
            r \in hurt \/ (job[r].task # "ended" /\ job[r] # NoJob))
    BY <1>11 DEF Die
  <2>2. UNCHANGED <<report, commitFirst, configured, figured>>  BY <1>11 DEF Die
  <2>3. ASSUME NEW r \in ReportIds
        PROVE  ReportInv(r)' /\ Whole(r)'
    <3>1. job'[r].request = "none" /\ job'[r].task = "none"  BY <2>1 DEF NoJob
    <3>2. Whole(r)'  BY <1>0, <2>1, <2>2 DEF Whole
    <3> QED  BY <1>0, <2>1, <2>2, <3>1, <3>2 DEF ReportInv, Running
  <2> QED  BY <2>3 DEF ReportsInv
<1>12. CASE Expose \/ UNCHANGED reportVars
  BY <1>12 DEF Expose, reportVars, ReportsInv, Whole, ReportInv
<1> QED
  BY <1>1, <1>2, <1>3, <1>4, <1>5, <1>6, <1>7, <1>8, <1>9, <1>10, <1>11, <1>12
  DEF ReportsNext, Step

\* Rows, jobs and histories keep their types.
THEOREM ReportsTypeCorrect == ReportsSpec => []ReportsTypeOK
<1>1. ASSUME ReportsInit
      PROVE  ReportsTypeOK
  <2>1. NoJob \in [request : {"none", "open", "ended"}, task : Tasks]  BY DEF NoJob, Tasks
  <2> QED  BY <1>1, <2>1 DEF ReportsInit, ReportsTypeOK
<1> QED  BY <1>1, ReportsTyped, PTL DEF ReportsSpec

\* No report is kept half-written, and none is stuck but for the reasons given
\* (ReportGenerator.generate and generate_report's background task).
THEOREM ReportsWhole == ReportsSpec => []WholeOrFailed
<1>1. ASSUME ReportsInit
      PROVE  ReportsInv
  <2>1. ASSUME NEW r \in ReportIds
        PROVE  /\ report[r] = Absent /\ r \notin figured /\ job[r] = NoJob
               /\ job[r].request = "none" /\ job[r].task = "none"
    BY <1>1 DEF ReportsInit, NoJob
  <2> QED  BY <2>1 DEF ReportsInv, Whole, ReportInv, Running
<1>2. ReportsInv => WholeOrFailed  BY DEF ReportsInv, Whole, WholeOrFailed
<1> QED  BY <1>1, <1>2, ReportsTypeCorrect, ReportsKept, PTL DEF ReportsSpec

-----------------------------------------------------------------------------
(* Alerts: types. *)

\* The hour of a time within bounds is within bounds.
LEMMA FingerprintIsKey ==
    ASSUME NEW s \in Subjects, NEW severity \in Severities, NEW now \in Moments
    PROVE  /\ alert_fingerprint(s, severity, now) \in Fingerprints
           /\ alert_fingerprint(s, severity, now)[1] = s
<1>1. now \in Nat /\ MaxMoment \in Nat /\ Hour \in Nat \ {0} /\ now <= MaxMoment
  BY AlertsAssumption DEF Moments
<1>2. now \div Hour \in Nat /\ now \div Hour <= MaxMoment \div Hour /\ MaxMoment \div Hour \in Nat
  BY <1>1
<1>3. now \div Hour \in 0..(MaxMoment \div Hour)
  BY <1>2
<1> QED BY <1>3 DEF alert_fingerprint, Fingerprints

\* What a transaction sees of an alert is a row, if there is one.
LEMMA RowTyped ==
    ASSUME AlertsTypeOK, NEW a \in Actors, NEW k \in Fingerprints
    PROVE  /\ Row(a, k) \in AlertRows \cup {NoAlert}
           /\ Busy(a) => /\ tx[a] \in Transactions
                         /\ tx[a].written[k] \in AlertRows \cup {NoAlert}
                         /\ tx[a].now \in Moments /\ tx[a].subject \in Subjects
                         /\ tx[a].severity \in Severities
           /\ RowExists(a, k) => Row(a, k) \in AlertRows
<1>1. Busy(a) => tx[a] \in Transactions
  BY DEF AlertsTypeOK, Busy
<1>2. Busy(a) => /\ tx[a].written[k] \in AlertRows \cup {NoAlert}
                 /\ tx[a].now \in Moments /\ tx[a].subject \in Subjects
                 /\ tx[a].severity \in Severities
  BY <1>1 DEF Transactions
<1>3. alerts[k] \in AlertRows \cup {NoAlert}
  BY DEF AlertsTypeOK
<1> QED BY <1>1, <1>2, <1>3 DEF Row, Written, RowExists

\* A row that is counted up counts one more, and keeps when and by whom it was raised.
LEMMA TriggeredTyped ==
    ASSUME NEW row \in AlertRows, NEW now \in Moments
    PROVE  /\ Triggered(row, now) \in AlertRows
           /\ Triggered(row, now).first = row.first
           /\ Triggered(row, now).last = now
           /\ Triggered(row, now).by = row.by
           /\ Triggered(row, now).occurrences = row.occurrences + 1
<1> DEFINE n == row.occurrences + 1
<1>1. row.occurrences + 1 \in Nat /\ now \in Moments
  BY DEF AlertRows
<1>2. Triggered(row, now) = [row EXCEPT !.occurrences = n, !.last = now]
  BY DEF Triggered
<1>3. n \in Nat /\ n = row.occurrences + 1
  BY <1>1
<1> HIDE DEF n
<1> QED BY <1>2, <1>3 DEF AlertRows

\* A new alert counts one, and was raised by its transaction when that started.
LEMMA NewAlertTyped ==
    ASSUME AlertsTypeOK, NEW a \in Actors, Busy(a)
    PROVE  /\ NewAlert(a) \in AlertRows
           /\ NewAlert(a).first = tx[a].now
           /\ NewAlert(a).last = tx[a].now
           /\ NewAlert(a).by = IF a \in Evaluators THEN "evaluation" ELSE "post"
           /\ NewAlert(a).occurrences = 1
<1>1. tx[a].now \in Moments
  BY DEF AlertsTypeOK, Busy, Transactions
<1> QED BY <1>1 DEF NewAlert, AlertRows

\* A transaction that counts a trigger, field by field.
LEMMA CountedFields ==
    ASSUME AlertsTypeOK, NEW a \in Actors, Busy(a), NEW k \in Fingerprints, NEW row \in AlertRows,
           Counted(a, k, row)
    PROVE  /\ tx'[a] \in Transactions
           /\ tx'[a] # NoTransaction
           /\ tx'[a].at = "next"
           /\ tx'[a].now = tx[a].now
           /\ tx'[a].written = [tx[a].written EXCEPT ![k] = row]
           /\ tx'[a].done = [tx[a].done EXCEPT ![tx[a].subject] = @ + 1]
           /\ tx' = [tx EXCEPT ![a] = tx'[a]]
           /\ UNCHANGED <<time, alerts, begun, triggers, overlapped>>
<1> DEFINE t == [tx[a] EXCEPT !.written[k] = row, !.done[tx[a].subject] = @ + 1,
                              !.at = "next", !.seen = {}]
<1>1. tx[a] \in Transactions
  BY DEF AlertsTypeOK, Busy
<1>2. tx' = [tx EXCEPT ![a] = t] /\ UNCHANGED <<time, alerts, begun, triggers, overlapped>>
  BY DEF Counted, Moves
<1>3. tx'[a] = t
  BY <1>2 DEF AlertsTypeOK
<1>4. /\ t.at = "next" /\ t.now = tx[a].now /\ t.todo = tx[a].todo
      /\ t.subject = tx[a].subject /\ t.seen = {}
      /\ t.written = [tx[a].written EXCEPT ![k] = row]
      /\ t.done = [tx[a].done EXCEPT ![tx[a].subject] = @ + 1]
  BY <1>1 DEF Transactions
<1>5. [tx[a].written EXCEPT ![k] = row] \in [Fingerprints -> AlertRows \cup {NoAlert}]
  BY <1>1 DEF Transactions
<1>6. [tx[a].done EXCEPT ![tx[a].subject] = @ + 1] \in [Subjects -> Nat]
  BY <1>1 DEF Transactions
<1>7. t \in Transactions
  BY <1>1, <1>5, <1>6 DEF Transactions
<1>8. t # NoTransaction
  BY <1>4 DEF NoTransaction
<1> QED BY <1>2, <1>3, <1>4, <1>7, <1>8

\* A step of a transaction keeps the types.
LEMMA MovesTyped ==
    ASSUME AlertsTypeOK, NEW a \in Actors, NEW t \in Transactions \cup {NoTransaction},
           Moves(a, t)
    PROVE  AlertsTypeOK'
BY DEF AlertsTypeOK, Moves

\* A transaction that counts an alert that it did not raise has found its row.
Counting ==
    \A a \in Actors : Busy(a) /\ tx[a].at = "count" =>
        \A k \in Fingerprints : k = FingerprintOf(a) => RowExists(a, k)

\* Each step keeps the rows and the transactions in their types.
LEMMA AlertsTyped == AlertsTypeOK /\ Counting /\ [AlertsNext]_alertVars => AlertsTypeOK'
<1> SUFFICES ASSUME AlertsTypeOK, Counting, [AlertsNext]_alertVars
             PROVE  AlertsTypeOK'
  OBVIOUS
<1>a. ASSUME NEW a \in Actors, NEW todo \in [Subjects -> 0..2], NEW s \in Subjects,
             NEW severity \in Severities, NEW at \in {"next", "insert"},
             Begin(a, todo, at, s, severity), overlapped' \in BOOLEAN
      PROVE  AlertsTypeOK'
  <2> DEFINE t == [at |-> at, now |-> time, todo |-> todo, subject |-> s,
                   severity |-> severity, seen |-> {},
                   written |-> [k \in Fingerprints |-> NoAlert], done |-> [u \in Subjects |-> 0]]
  <2>1. [k \in Fingerprints |-> NoAlert] \in [Fingerprints -> AlertRows \cup {NoAlert}]
    OBVIOUS
  <2>2. t \in Transactions
    BY <1>a, <2>1 DEF AlertsTypeOK, Transactions
  <2>3. tx' = [tx EXCEPT ![a] = t] /\ begun' = begun + 1 /\ begun < MaxBegun
        /\ UNCHANGED <<time, alerts, triggers>>
    BY <1>a DEF Begin
  <2> HIDE DEF t
  <2> QED BY <2>2, <2>3, <1>a, AlertsAssumption DEF AlertsTypeOK
<1>b. Evaluators \subseteq Actors /\ Posters \subseteq Actors
  BY DEF Actors
<1>1. ASSUME NEW e \in Evaluators, BeginEvaluation(e) PROVE AlertsTypeOK'
  <2>1. overlapped' \in BOOLEAN
    BY <1>1 DEF BeginEvaluation, AlertsTypeOK
  <2> QED BY <1>1, <1>a, <1>b, <2>1, AlertsAssumption DEF BeginEvaluation
<1>2. ASSUME NEW p \in Posters, BeginPost(p) PROVE AlertsTypeOK'
  <2>1. overlapped' \in BOOLEAN
    BY <1>2 DEF BeginPost, AlertsTypeOK
  <2>2. [t \in Subjects |-> 0] \in [Subjects -> 0..2]
    OBVIOUS
  <2> QED BY <1>2, <1>a, <1>b, <2>1, <2>2 DEF BeginPost
<1>3. ASSUME NEW e \in Evaluators, Look(e) PROVE AlertsTypeOK'
  <2>1. tx[e] \in Transactions /\ e \in Actors
    BY <1>3, <1>b DEF Look, Busy, AlertsTypeOK
  <2> DEFINE seen(s) == {k \in Fingerprints : k[1] = s /\ Recent(e, k)}
             t(s) == [tx[e] EXCEPT !.todo[s] = @ - 1, !.subject = s,
                                   !.severity = RuleSeverity[s], !.seen = seen(s),
                                   !.at = IF seen(s) = {} THEN "insert" ELSE "lock"]
  <2>2. PICK s \in Subjects : tx[e].todo[s] > 0 /\ Moves(e, t(s))
    BY <1>3 DEF Look
  <2>3. [tx[e].todo EXCEPT ![s] = @ - 1] \in [Subjects -> Nat]
    BY <2>1, <2>2 DEF Transactions
  <2>4. seen(s) \in SUBSET Fingerprints
    OBVIOUS
  <2>5. t(s) = [tx[e] EXCEPT !.todo = [tx[e].todo EXCEPT ![s] = @ - 1], !.subject = s,
                    !.severity = RuleSeverity[s], !.seen = seen(s),
                    !.at = IF seen(s) = {} THEN "insert" ELSE "lock"]
    BY <2>1 DEF Transactions
  <2>6. t(s) \in Transactions
    <3> HIDE DEF seen
    <3> QED BY <2>1, <2>3, <2>4, <2>5, AlertsAssumption DEF Transactions
  <2> QED BY <2>1, <2>2, <2>6, MovesTyped
<1>c. ASSUME NEW a \in Actors, Busy(a), NEW k \in Fingerprints, NEW row \in AlertRows,
             Counted(a, k, row)
      PROVE  AlertsTypeOK'
  BY <1>c, CountedFields DEF AlertsTypeOK
<1>4. ASSUME NEW e \in Evaluators, LockSeen(e) PROVE AlertsTypeOK'
  <2>1. tx[e] \in Transactions /\ e \in Actors /\ Busy(e)
    BY <1>4, <1>b DEF LockSeen, Busy, AlertsTypeOK
  <2>2. CASE Moves(e, [tx[e] EXCEPT !.at = "insert", !.seen = {}])
    <3>1. [tx[e] EXCEPT !.at = "insert", !.seen = {}] \in Transactions
      BY <2>1 DEF Transactions
    <3> QED BY <2>1, <2>2, <3>1, MovesTyped
  <2>3. ASSUME NEW k \in Fingerprints, RowExists(e, k),
               Counted(e, k, Triggered(Row(e, k), tx[e].now))
        PROVE  AlertsTypeOK'
    BY <2>1, <2>3, <1>c, RowTyped, TriggeredTyped
  <2> QED BY <1>4, <2>1, <2>2, <2>3 DEF LockSeen, Recent, Transactions
<1>5. ASSUME NEW a \in Actors, Insert(a) PROVE AlertsTypeOK'
  <2>1. tx[a] \in Transactions /\ Busy(a)
    BY <1>5 DEF Insert, Busy, AlertsTypeOK
  <2>2. FingerprintOf(a) \in Fingerprints
    BY <2>1, FingerprintIsKey DEF Transactions, FingerprintOf
  <2>3. CASE Moves(a, [tx[a] EXCEPT !.at = "count"])
    <3>1. [tx[a] EXCEPT !.at = "count"] \in Transactions
      BY <2>1 DEF Transactions
    <3> QED BY <2>3, <3>1, MovesTyped
  <2>4. CASE Counted(a, FingerprintOf(a), NewAlert(a))
    BY <2>1, <2>2, <2>4, <1>c, NewAlertTyped
  <2> QED BY <1>5, <2>3, <2>4 DEF Insert
<1>6. ASSUME NEW a \in Actors, CommitTransaction(a) PROVE AlertsTypeOK'
  <2>1. tx[a] \in Transactions
    BY <1>6 DEF CommitTransaction, Busy, AlertsTypeOK
  <2>2. \A s \in Subjects : triggers[s] + tx[a].done[s] \in Nat
    BY <2>1 DEF AlertsTypeOK, Transactions
  <2>3. \A k \in Fingerprints : Row(a, k) \in AlertRows \cup {NoAlert}
    BY RowTyped
  <2> QED BY <1>6, <2>2, <2>3 DEF CommitTransaction, AlertsTypeOK
<1>7. ASSUME NEW a \in Actors, AbortTransaction(a) PROVE AlertsTypeOK'
  BY <1>7, MovesTyped DEF AbortTransaction
<1>8. ASSUME NEW k \in Fingerprints, Acknowledge(k) PROVE AlertsTypeOK'
  <2>1. [alerts[k] EXCEPT !.acknowledged = TRUE] \in AlertRows
    BY <1>8 DEF Acknowledge, AlertsTypeOK, AlertRows
  <2> QED BY <1>8, <2>1 DEF Acknowledge, AlertsTypeOK
<1>9. CASE TimePasses
  BY <1>9, AlertsAssumption DEF TimePasses, AlertsTypeOK, Moments
<1>10. CASE UNCHANGED alertVars
  BY <1>10 DEF alertVars, AlertsTypeOK
<1>11. ASSUME NEW a \in Actors, Count(a) PROVE AlertsTypeOK'
  <2>1. tx[a] \in Transactions /\ Busy(a)
    BY <1>11 DEF Count, Busy, AlertsTypeOK
  <2> DEFINE k == FingerprintOf(a)
  <2>2. k \in Fingerprints
    BY <2>1, FingerprintIsKey DEF Transactions, FingerprintOf
  <2>3. RowExists(a, k)
    BY <1>11, <2>2 DEF Count, Counting
  <2> QED BY <1>11, <2>1, <2>2, <2>3, <1>c, RowTyped, TriggeredTyped DEF Count, Transactions
<1> QED BY <1>1, <1>2, <1>3, <1>4, <1>5, <1>6, <1>7, <1>8, <1>9, <1>10, <1>11
        DEF AlertsNext
-----------------------------------------------------------------------------
(* Alerts: the inductive invariant. *)

Origin(a) == IF a \in Evaluators THEN "evaluation" ELSE "post"
Base(k) == IF alerts[k] = NoAlert THEN 0 ELSE alerts[k].occurrences

\* A committed row was triggered last at most MaxDelay before it was first: by a post that
\* began before the evaluation that it waited for.
InOrder(k) ==
    alerts[k] # NoAlert =>
        alerts[k].first <= time /\ alerts[k].last >= alerts[k].first - MaxDelay

\* Triggers that were committed, as the occurrences of the rows.
TalliedRows(s) ==
    IsFiniteSet(OccurrencesOf(s)) /\ triggers[s] = Cardinality(OccurrencesOf(s))

\* Rows of a subject that evaluations have raised are a cooldown apart.
Raised(rows, k) == rows[k] # NoAlert /\ rows[k].by = "evaluation"
Apart(rows) ==
    \A j, k \in Fingerprints :
        j[1] = k[1] /\ Raised(rows, j) /\ Raised(rows, k) /\ rows[j].first < rows[k].first =>
        rows[k].first - rows[j].first > Cooldown - MaxDelay

Timely(a) == tx[a].now <= time /\ time <= tx[a].now + MaxDelay

\* A row that a transaction has written keeps where it came from, and counts more.
Follows(a, k) ==
    /\ tx[a].written[k].last = tx[a].now
    /\ tx[a].written[k].occurrences > Base(k)
    /\ IF alerts[k] = NoAlert
       THEN tx[a].written[k].first = tx[a].now /\ tx[a].written[k].by = Origin(a)
       ELSE /\ tx[a].written[k].first = alerts[k].first
            /\ tx[a].written[k].by = alerts[k].by

\* What a transaction has in hand is of the subject in hand, and is still there.
Handled(a) ==
    /\ tx[a].at = "lock" => \A k \in tx[a].seen : k[1] = tx[a].subject
    /\ tx[a].at = "insert" => tx[a].seen = {}
    /\ tx[a].at = "count" =>
          \A k \in Fingerprints : k = FingerprintOf(a) => RowExists(a, k)

\* The triggers of s that a has counted, as what they add to the rows.
PendingOf(a, s) ==
    UNION {{k} \X ((Base(k) + 1)..tx[a].written[k].occurrences) :
               k \in {j \in Fingerprints : j[1] = s /\ Written(a, j)}}
Tallied(a, s) ==
    IsFiniteSet(PendingOf(a, s)) /\ tx[a].done[s] = Cardinality(PendingOf(a, s))

\* Rows as the transaction of a sees them.
View(a) == [k \in Fingerprints |-> Row(a, k)]

\* The rows that an evaluation has not in hand are a cooldown away from it.
Clear(e) ==
    \A k \in Fingerprints \ tx[e].seen :
        k[1] = tx[e].subject /\ Raised(View(e), k) =>
        tx[e].now - View(e)[k].first > Cooldown - MaxDelay
Spaced(e) ==
    /\ \A k \in Fingerprints : Raised(alerts, k) => alerts[k].first <= tx[e].now
    /\ Apart(View(e))
    /\ tx[e].at \in {"lock", "insert"} => Clear(e)

\* What holds of a transaction that is under way: it alone has written its rows, and unless
\* evaluations have overlapped it is the only one.
Sound(a) ==
    /\ Timely(a) /\ Handled(a)
    /\ \A s \in Subjects : Tallied(a, s)
    /\ \A k \in Fingerprints : Written(a, k) => Follows(a, k) /\ ~HeldByOther(a, k)
    /\ a \in Evaluators /\ ~overlapped =>
          Spaced(a) /\ \A f \in Evaluators \ {a} : ~Busy(f)

AlertsInv ==
    /\ AlertsTypeOK
    /\ \A k \in Fingerprints : InOrder(k)
    /\ \A s \in Subjects : TalliedRows(s)
    /\ ~overlapped => Apart(alerts)
    /\ \A a \in Actors : Busy(a) => Sound(a)

-----------------------------------------------------------------------------
(* Steps that commit nothing. *)

\* A transaction sees and has what it had as long as it writes nothing and nothing is
\* committed.
LEMMA RowsStay ==
    ASSUME alerts' = alerts, NEW b \in Actors, Busy(b)' = Busy(b),
           Busy(b) => tx'[b].now = tx[b].now /\ tx'[b].written = tx[b].written
    PROVE  /\ \A k \in Fingerprints : /\ Written(b, k)' = Written(b, k)
                                      /\ RowExists(b, k)' = RowExists(b, k)
                                      /\ Written(b, k) => Follows(b, k)' = Follows(b, k)
           /\ View(b)' = View(b)
           /\ \A s \in Subjects : PendingOf(b, s)' = PendingOf(b, s)
<1>1. \A k \in Fingerprints : Written(b, k)' = Written(b, k)
  BY DEF Written
<1>2. \A k \in Fingerprints : Row(b, k)' = Row(b, k)
  BY <1>1 DEF Row, Written
<1>3. \A k \in Fingerprints : RowExists(b, k)' = RowExists(b, k) /\ Base(k)' = Base(k)
  BY <1>2 DEF RowExists, Base
<1>4. View(b)' = View(b)
  BY <1>2 DEF View
<1>5. \A k \in Fingerprints : Written(b, k) => Follows(b, k)' = Follows(b, k)
  BY <1>3 DEF Follows, Written
<1>6. \A s \in Subjects : PendingOf(b, s)' = PendingOf(b, s)
  <2> TAKE s \in Subjects
  <2>1. {j \in Fingerprints : j[1] = s /\ Written(b, j)}' =
            {j \in Fingerprints : j[1] = s /\ Written(b, j)}
    BY <1>1
  <2>2. \A k \in {j \in Fingerprints : j[1] = s /\ Written(b, j)} :
           ({k} \X ((Base(k) + 1)..tx[b].written[k].occurrences))'
         = {k} \X ((Base(k) + 1)..tx[b].written[k].occurrences)
    BY <1>3 DEF Written
  <2> QED BY <2>1, <2>2 DEF PendingOf
<1> QED BY <1>1, <1>3, <1>4, <1>5, <1>6

\* While one transaction moves, the others stay.
LEMMA OthersStay ==
    ASSUME AlertsTypeOK, NEW a \in Actors, NEW t, tx' = [tx EXCEPT ![a] = t],
           alerts' = alerts, NEW b \in Actors \ {a}
    PROVE  /\ tx'[b] = tx[b] /\ Busy(b)' = Busy(b)
           /\ \A k \in Fingerprints : /\ Written(b, k)' = Written(b, k)
                                      /\ RowExists(b, k)' = RowExists(b, k)
                                      /\ Written(b, k) => Follows(b, k)' = Follows(b, k)
           /\ View(b)' = View(b)
           /\ \A s \in Subjects : PendingOf(b, s)' = PendingOf(b, s)
<1>1. tx'[b] = tx[b]
  BY DEF AlertsTypeOK
<1>2. Busy(b)' = Busy(b)
  BY <1>1 DEF Busy
<1> QED BY <1>1, <1>2, RowsStay

\* A step of a transaction keeps the invariant, if what it then has in hand is sound and no
\* other holds the rows it has written.
LEMMA MovesKeepInvariant ==
    ASSUME AlertsInv, AlertsTypeOK', NEW a \in Actors, NEW t, tx' = [tx EXCEPT ![a] = t],
           UNCHANGED <<time, alerts, triggers>>, overlapped => overlapped',
           Busy(a)' => Sound(a)',
           \A k \in Fingerprints : Written(a, k)' => ~HeldByOther(a, k),
           a \in Evaluators /\ Busy(a)' /\ ~Busy(a) =>
               overlapped' \/ \A f \in Evaluators \ {a} : ~Busy(f)
    PROVE  AlertsInv'
<1>1. ASSUME NEW b \in Actors \ {a}, Busy(b)' PROVE Sound(b)'
  <2>2. /\ tx'[b] = tx[b] /\ Busy(b) /\ Sound(b)
        /\ \A k \in Fingerprints : /\ Written(b, k)' = Written(b, k)
                                   /\ RowExists(b, k)' = RowExists(b, k)
                                   /\ Written(b, k) => Follows(b, k)' = Follows(b, k)
        /\ View(b)' = View(b)
        /\ \A s \in Subjects : PendingOf(b, s)' = PendingOf(b, s)
    BY <1>1, OthersStay DEF AlertsInv
  <2>3. Timely(b)'
    BY <2>2 DEF Sound, Timely
  <2>4. Handled(b)'
    BY <2>2 DEF Sound, Handled, FingerprintOf, alert_fingerprint
  <2>5. \A s \in Subjects : Tallied(b, s)'
    BY <2>2 DEF Sound, Tallied
  <2>6. \A k \in Fingerprints : Written(b, k)' => Follows(b, k)' /\ ~HeldByOther(b, k)'
    <3> SUFFICES ASSUME NEW k \in Fingerprints, Written(b, k)'
                 PROVE  Follows(b, k)' /\ ~HeldByOther(b, k)'
      OBVIOUS
    <3>1. Follows(b, k) /\ ~HeldByOther(b, k) /\ Written(b, k)
      BY <2>2 DEF Sound
    <3>2. ~Written(a, k)'
      BY <3>1 DEF HeldByOther
    <3>3. ASSUME NEW c \in Actors \ {a, b} PROVE ~Written(c, k)'
      <4>1. c \in Actors \ {a} /\ ~Written(c, k)
        BY <3>1 DEF HeldByOther
      <4>2. Written(c, k)' = Written(c, k)
        BY <4>1, OthersStay DEF AlertsInv
      <4> QED BY <4>1, <4>2
    <3> QED BY <3>1, <3>2, <3>3, <2>2 DEF HeldByOther
  <2>7. ~overlapped' /\ b \in Evaluators =>
            Spaced(b)' /\ \A f \in Evaluators \ {b} : ~Busy(f)'
    <3> SUFFICES ASSUME ~overlapped', b \in Evaluators
                 PROVE  Spaced(b)' /\ \A f \in Evaluators \ {b} : ~Busy(f)'
      OBVIOUS
    <3>1. Spaced(b) /\ \A f \in Evaluators \ {b} : ~Busy(f)
      BY <2>2 DEF Sound
    <3>2. Spaced(b)'
      <4>1. Apart(View(b))' = Apart(View(b))
        BY <2>2 DEF Apart, Raised
      <4>2. Clear(b)' = Clear(b)
        BY <2>2 DEF Clear, Raised
      <4> QED BY <3>1, <4>1, <4>2, <2>2 DEF Spaced, Raised
    <3>3. ASSUME NEW f \in Evaluators \ {b}, f # a PROVE ~Busy(f)'
      <4>1. f \in Actors \ {a} /\ ~Busy(f)
        BY <3>1, <3>3 DEF Actors
      <4> QED BY <4>1, OthersStay DEF AlertsInv
    <3>4. a \in Evaluators => ~Busy(a)'
      BY <3>1, <2>2
    <3> QED BY <3>2, <3>3, <3>4
  <2> QED BY <2>3, <2>4, <2>5, <2>6, <2>7 DEF Sound
<1>2. \A s \in Subjects : TalliedRows(s)' = TalliedRows(s)
  BY DEF OccurrencesOf, AlertsOf, TalliedRows
<1>3. Apart(alerts)' = Apart(alerts)
  BY DEF Apart, Raised
<1>4. \A k \in Fingerprints : InOrder(k)' = InOrder(k)
  BY DEF InOrder
<1> QED BY <1>1, <1>2, <1>3, <1>4 DEF AlertsInv

\* A row that a transaction finds too old was raised a cooldown ago.
LEMMA TooOldIsFar ==
    ASSUME AlertsInv, NEW e \in Actors, Busy(e), NEW k \in Fingerprints, RowExists(e, k),
           ~Recent(e, k)
    PROVE  tx[e].now - Row(e, k).first > Cooldown - MaxDelay
<1>1. /\ Row(e, k) \in AlertRows /\ tx[e].now \in Moments /\ Sound(e) /\ InOrder(k)
      /\ AlertsTypeOK
  BY RowTyped DEF AlertsInv
<1>2. /\ Row(e, k).first \in Int /\ Row(e, k).last \in Int /\ tx[e].now \in Int
      /\ Cooldown \in Nat /\ MaxDelay \in Nat
  BY <1>1, AlertsAssumption DEF AlertRows, Moments
<1>3. Row(e, k).last < tx[e].now - Cooldown
  BY <1>2 DEF Recent
<1>4. ~Written(e, k)
  BY <1>1, <1>2, <1>3 DEF Sound, Follows, Row
<1>5. Row(e, k) = alerts[k] /\ alerts[k] # NoAlert
  BY <1>4 DEF Row, RowExists
<1>6. Row(e, k).last >= Row(e, k).first - MaxDelay
  BY <1>1, <1>5 DEF InOrder
<1> QED BY <1>2, <1>3, <1>6

\* A transaction that writes nothing stays sound if what it has in hand is.
LEMMA StillSound ==
    ASSUME AlertsInv, AlertsTypeOK', NEW a \in Actors, Busy(a), NEW t \in Transactions,
           Moves(a, t), t.now = tx[a].now, t.written = tx[a].written, t.done = tx[a].done,
           Handled(a)',
           a \in Evaluators /\ ~overlapped /\ t.at \in {"lock", "insert"} => Clear(a)'
    PROVE  AlertsInv'
<1>1. /\ tx' = [tx EXCEPT ![a] = t] /\ tx'[a] = t
      /\ UNCHANGED <<time, alerts, triggers, overlapped>>
  BY DEF Moves, AlertsInv, AlertsTypeOK
<1>2. Busy(a)'
  BY <1>1 DEF Busy, Transactions, NoTransaction
<1>3. Sound(a)
  BY DEF AlertsInv
<1>4. /\ \A k \in Fingerprints : /\ Written(a, k)' = Written(a, k)
                                 /\ Written(a, k) => Follows(a, k)' = Follows(a, k)
      /\ View(a)' = View(a)
      /\ \A s \in Subjects : PendingOf(a, s)' = PendingOf(a, s)
  BY <1>1, <1>2, RowsStay
<1>5. \A b \in Actors \ {a} : /\ Busy(b)' = Busy(b)
                              /\ \A k \in Fingerprints : Written(b, k)' = Written(b, k)
  BY <1>1, OthersStay DEF AlertsInv
<1>6. Sound(a)'
  <2>1. Timely(a)'
    BY <1>1, <1>3 DEF Sound, Timely
  <2>2. \A s \in Subjects : Tallied(a, s)'
    BY <1>1, <1>3, <1>4 DEF Sound, Tallied
  <2>3. \A k \in Fingerprints : Written(a, k)' => Follows(a, k)' /\ ~HeldByOther(a, k)'
    BY <1>3, <1>4, <1>5 DEF Sound, HeldByOther
  <2>4. a \in Evaluators /\ ~overlapped' =>
            Spaced(a)' /\ \A f \in Evaluators \ {a} : ~Busy(f)'
    <3> SUFFICES ASSUME a \in Evaluators, ~overlapped'
                 PROVE  Spaced(a)' /\ \A f \in Evaluators \ {a} : ~Busy(f)'
      OBVIOUS
    <3>1. Spaced(a) /\ \A f \in Evaluators \ {a} : ~Busy(f)
      BY <1>1, <1>3 DEF Sound
    <3>2. Apart(View(a))' = Apart(View(a))
      BY <1>4 DEF Apart, Raised
    <3>3. \A f \in Evaluators \ {a} : ~Busy(f)'
      BY <3>1, <1>5 DEF Actors
    <3> QED BY <3>1, <3>2, <3>3, <1>1 DEF Spaced, Raised
  <2> QED BY <2>1, <2>2, <2>3, <2>4 DEF Sound
<1> QED BY <1>1, <1>3, <1>4, <1>6, MovesKeepInvariant DEF Sound

\* A transaction starts with nothing written.
LEMMA BeginKeepsInvariant ==
    ASSUME AlertsInv, AlertsTypeOK', NEW a \in Actors, NEW todo \in [Subjects -> 0..2],
           NEW s \in Subjects, NEW severity \in Severities, NEW at \in {"next", "insert"},
           Begin(a, todo, at, s, severity),
           IF a \in Evaluators
           THEN /\ at = "next"
                /\ overlapped' = (overlapped \/ \E f \in Evaluators \ {a} : Busy(f))
           ELSE overlapped' = overlapped
    PROVE  AlertsInv'
<1> DEFINE t == [at |-> at, now |-> time, todo |-> todo, subject |-> s,
                 severity |-> severity, seen |-> {},
                 written |-> [k \in Fingerprints |-> NoAlert], done |-> [u \in Subjects |-> 0]]
<1>1. /\ tx' = [tx EXCEPT ![a] = t] /\ tx'[a] = t /\ ~Busy(a)
      /\ UNCHANGED <<time, alerts, triggers>>
  BY DEF Begin, AlertsInv, AlertsTypeOK
<1>2. /\ tx'[a].at = at /\ tx'[a].now = time /\ tx'[a].seen = {}
      /\ \A k \in Fingerprints : tx'[a].written[k] = NoAlert
      /\ \A u \in Subjects : tx'[a].done[u] = 0
  BY <1>1
<1>3. \A k \in Fingerprints : ~Written(a, k)'
  BY <1>2 DEF Written
<1>4. time \in Int /\ MaxDelay \in Nat
  BY AlertsAssumption DEF AlertsInv, AlertsTypeOK, Moments
<1>5. Sound(a)'
  <2>1. Timely(a)'
    BY <1>1, <1>2, <1>4 DEF Timely
  <2>2. Handled(a)'
    BY <1>2 DEF Handled
  <2>3. \A u \in Subjects : Tallied(a, u)'
    <3> TAKE u \in Subjects
    <3>1. {j \in Fingerprints : j[1] = u /\ Written(a, j)}' = {}
      BY <1>3
    <3>2. PendingOf(a, u)' = {}
      BY <3>1 DEF PendingOf
    <3> QED BY <3>2, <1>2, FS_EmptySet DEF Tallied
  <2>4. a \in Evaluators /\ ~overlapped' =>
            Spaced(a)' /\ \A f \in Evaluators \ {a} : ~Busy(f)'
    <3> SUFFICES ASSUME a \in Evaluators, ~overlapped'
                 PROVE  Spaced(a)' /\ \A f \in Evaluators \ {a} : ~Busy(f)'
      OBVIOUS
    <3>1. at = "next" /\ ~overlapped /\ \A f \in Evaluators \ {a} : ~Busy(f)
      OBVIOUS
    <3>2. \A k \in Fingerprints : View(a)'[k] = alerts[k]
      BY <1>1, <1>3 DEF View, Row
    <3>3. Apart(View(a))'
      BY <3>1, <3>2 DEF Apart, Raised, AlertsInv
    <3>4. \A k \in Fingerprints : Raised(alerts, k)' => alerts'[k].first <= tx'[a].now
      BY <1>1, <1>2 DEF Raised, AlertsInv, InOrder
    <3>5. \A f \in Evaluators \ {a} : ~Busy(f)'
      BY <3>1, <1>1, OthersStay DEF Actors, AlertsInv
    <3> QED BY <3>1, <3>3, <3>4, <3>5, <1>2 DEF Spaced
  <2> QED BY <2>1, <2>2, <2>3, <2>4, <1>3 DEF Sound
<1>6. a \in Evaluators => overlapped' \/ \A f \in Evaluators \ {a} : ~Busy(f)
  OBVIOUS
<1>7. overlapped => overlapped'
  OBVIOUS
<1> HIDE DEF t
<1> QED BY <1>1, <1>3, <1>5, <1>6, <1>7, MovesKeepInvariant

\* A transaction that is undone leaves nothing.
LEMMA AbortKeepsInvariant ==
    ASSUME AlertsInv, AlertsTypeOK', NEW a \in Actors, AbortTransaction(a)
    PROVE  AlertsInv'
<1>1. /\ tx' = [tx EXCEPT ![a] = NoTransaction] /\ tx'[a] = NoTransaction
      /\ UNCHANGED <<time, alerts, triggers, overlapped>>
  BY DEF AbortTransaction, Moves, AlertsInv, AlertsTypeOK
<1>2. ~Busy(a)' /\ \A k \in Fingerprints : ~Written(a, k)'
  BY <1>1 DEF Busy, Written
<1> QED BY <1>1, <1>2, MovesKeepInvariant

\* What an evaluation finds within the cooldown is there.
LEMMA LookKeepsInvariant ==
    ASSUME AlertsInv, AlertsTypeOK', NEW e \in Evaluators, Look(e)
    PROVE  AlertsInv'
<1>1. e \in Actors /\ tx[e] \in Transactions /\ Busy(e)
  BY DEF Look, Busy, AlertsInv, AlertsTypeOK, Actors
<1> DEFINE seen(s) == {k \in Fingerprints : k[1] = s /\ Recent(e, k)}
           t(s) == [tx[e] EXCEPT !.todo[s] = @ - 1, !.subject = s,
                                 !.severity = RuleSeverity[s], !.seen = seen(s),
                                 !.at = IF seen(s) = {} THEN "insert" ELSE "lock"]
<1>2. PICK s \in Subjects : tx[e].todo[s] > 0 /\ Moves(e, t(s))
  BY DEF Look
<1>3. tx'[e] = t(s) /\ UNCHANGED <<alerts, overlapped>>
  BY <1>1, <1>2 DEF Moves, AlertsInv, AlertsTypeOK
<1>4. /\ t(s).now = tx[e].now /\ t(s).written = tx[e].written /\ t(s).done = tx[e].done
      /\ t(s).subject = s /\ t(s).seen = seen(s)
      /\ t(s).at = IF seen(s) = {} THEN "insert" ELSE "lock"
  BY <1>1 DEF Transactions
<1>5. t(s) # NoTransaction
  BY <1>4 DEF NoTransaction
<1>6. t(s) \in Transactions /\ Busy(e)'
  BY <1>1, <1>3, <1>5 DEF AlertsTypeOK, Busy
<1>7. Handled(e)'
  BY <1>3, <1>4 DEF Handled
<1>8. View(e)' = View(e)
  BY <1>1, <1>3, <1>4, <1>6, RowsStay
<1>9. Clear(e)'
  <2> SUFFICES ASSUME NEW k \in Fingerprints \ seen(s), k[1] = s, Raised(View(e), k)
               PROVE  tx[e].now - View(e)[k].first > Cooldown - MaxDelay
    BY <1>3, <1>4, <1>8 DEF Clear, Raised
  <2>1. ~Recent(e, k) /\ RowExists(e, k) /\ View(e)[k] = Row(e, k)
    BY DEF Raised, View, RowExists
  <2> QED BY <2>1, <1>1, TooOldIsFar
<1> HIDE DEF t
<1> QED BY <1>1, <1>2, <1>4, <1>6, <1>7, <1>9, StillSound

\* All rows that it waited for have been triggered too long ago.
LEMMA NoneLeftKeepsInvariant ==
    ASSUME AlertsInv, AlertsTypeOK', NEW e \in Evaluators, Busy(e), tx[e].at = "lock",
           {k \in tx[e].seen : Recent(e, k)} = {},
           Moves(e, [tx[e] EXCEPT !.at = "insert", !.seen = {}])
    PROVE  AlertsInv'
<1> DEFINE t == [tx[e] EXCEPT !.at = "insert", !.seen = {}]
<1>1. e \in Actors /\ tx[e] \in Transactions
  BY DEF Busy, AlertsInv, AlertsTypeOK, Actors
<1>2. tx'[e] = t /\ UNCHANGED <<alerts, overlapped>>
  BY <1>1 DEF Moves, AlertsInv, AlertsTypeOK
<1>3. /\ t.now = tx[e].now /\ t.written = tx[e].written /\ t.done = tx[e].done
      /\ t.subject = tx[e].subject /\ t.seen = {} /\ t.at = "insert"
  BY <1>1 DEF Transactions
<1>4. t # NoTransaction
  BY <1>3 DEF NoTransaction
<1>5. t \in Transactions /\ Busy(e)'
  BY <1>1, <1>2, <1>4 DEF AlertsTypeOK, Busy
<1>6. Handled(e)'
  BY <1>2, <1>3 DEF Handled
<1>7. View(e)' = View(e)
  BY <1>1, <1>2, <1>3, <1>5, RowsStay
<1>8. ASSUME ~overlapped PROVE Clear(e)'
  <2> SUFFICES ASSUME NEW k \in Fingerprints, k[1] = tx[e].subject, Raised(View(e), k)
               PROVE  tx[e].now - View(e)[k].first > Cooldown - MaxDelay
    BY <1>2, <1>3, <1>7 DEF Clear, Raised
  <2>1. RowExists(e, k) /\ View(e)[k] = Row(e, k)
    BY DEF Raised, View, RowExists
  <2>2. CASE k \in tx[e].seen
    BY <2>1, <2>2, <1>1, TooOldIsFar
  <2>3. CASE k \notin tx[e].seen
    BY <2>3, <1>1, <1>8 DEF AlertsInv, Sound, Spaced, Clear
  <2> QED BY <2>2, <2>3
<1>9. Moves(e, t)
  OBVIOUS
<1> HIDE DEF t
<1> QED BY <1>1, <1>3, <1>5, <1>6, <1>8, <1>9, StillSound

\* A transaction that finds the fingerprint taken goes on to count it.
LEMMA TakenKeepsInvariant ==
    ASSUME AlertsInv, AlertsTypeOK', NEW a \in Actors, Busy(a),
           RowExists(a, FingerprintOf(a)),
           Moves(a, [tx[a] EXCEPT !.at = "count"])
    PROVE  AlertsInv'
<1> DEFINE t == [tx[a] EXCEPT !.at = "count"]
<1>1. tx[a] \in Transactions
  BY DEF Busy, AlertsInv, AlertsTypeOK
<1>2. tx'[a] = t /\ UNCHANGED alerts
  BY <1>1 DEF Moves, AlertsInv, AlertsTypeOK
<1>3. /\ t.now = tx[a].now /\ t.written = tx[a].written /\ t.done = tx[a].done
      /\ t.subject = tx[a].subject /\ t.severity = tx[a].severity /\ t.at = "count"
  BY <1>1 DEF Transactions
<1>4. t # NoTransaction
  BY <1>3 DEF NoTransaction
<1>5. t \in Transactions /\ Busy(a)'
  BY <1>1, <1>2, <1>4 DEF AlertsTypeOK, Busy
<1>6. \A k \in Fingerprints : RowExists(a, k)' = RowExists(a, k)
  BY <1>1, <1>2, <1>3, <1>5, RowsStay
<1>7. Handled(a)'
  BY <1>2, <1>3, <1>6 DEF Handled, FingerprintOf, alert_fingerprint
<1>8. Moves(a, t)
  OBVIOUS
<1> HIDE DEF t
<1> QED BY <1>3, <1>5, <1>7, <1>8, StillSound

-----------------------------------------------------------------------------
(* A trigger is counted. *)

\* What a transaction has counted, trigger by trigger.
LEMMA PendingElements ==
    ASSUME AlertsTypeOK, NEW a \in Actors, Busy(a), NEW s \in Subjects, NEW p
    PROVE  p \in PendingOf(a, s) <=>
               \E k \in Fingerprints, n \in Nat :
                   /\ p = <<k, n>> /\ k[1] = s /\ Written(a, k)
                   /\ Base(k) < n /\ n <= tx[a].written[k].occurrences
<1>1. \A k \in Fingerprints : Base(k) \in Nat
  BY DEF Base, AlertsTypeOK, AlertRows
<1>2. \A k \in Fingerprints : Written(a, k) => tx[a].written[k].occurrences \in Nat
  BY RowTyped DEF Written, AlertRows
<1>3. ASSUME NEW k \in Fingerprints, Written(a, k), NEW n
      PROVE  n \in (Base(k) + 1)..tx[a].written[k].occurrences <=>
             n \in Nat /\ Base(k) < n /\ n <= tx[a].written[k].occurrences
  BY <1>1, <1>2, <1>3
<1> QED BY <1>3 DEF PendingOf

\* A row that is written counts one more trigger, of the subject it was written for.
LEMMA CountedKeepsInvariant ==
    ASSUME AlertsInv, AlertsTypeOK', NEW a \in Actors, Busy(a), NEW k \in Fingerprints,
           NEW row \in AlertRows, Counted(a, k, row), k[1] = tx[a].subject,
           ~HeldByOther(a, k), row.last = tx[a].now,
           IF RowExists(a, k)
           THEN /\ row.first = Row(a, k).first /\ row.by = Row(a, k).by
                /\ row.occurrences = Row(a, k).occurrences + 1
           ELSE /\ row.first = tx[a].now /\ row.by = Origin(a) /\ row.occurrences = 1
                /\ tx[a].at = "insert"
    PROVE  AlertsInv'
<1>1. /\ tx'[a] # NoTransaction
      /\ tx'[a].at = "next"
      /\ tx'[a].now = tx[a].now
      /\ tx'[a].written = [tx[a].written EXCEPT ![k] = row]
      /\ tx'[a].done = [tx[a].done EXCEPT ![tx[a].subject] = @ + 1]
      /\ tx' = [tx EXCEPT ![a] = tx'[a]]
      /\ UNCHANGED <<time, alerts, begun, triggers, overlapped>>
  BY CountedFields DEF AlertsInv
<1>2. tx[a] \in Transactions /\ Sound(a) /\ Busy(a)' /\ row # NoAlert
  BY <1>1, AlertRowsAssumption DEF AlertsInv, AlertsTypeOK, Busy
<1>3. /\ tx'[a].written[k] = row
      /\ \A j \in Fingerprints : j # k => tx'[a].written[j] = tx[a].written[j]
  BY <1>1, <1>2 DEF Transactions
<1>4. /\ Written(a, k)'
      /\ \A j \in Fingerprints : j # k => Written(a, j)' = Written(a, j)
  BY <1>2, <1>3 DEF Written
<1>5. \A b \in Actors \ {a} : /\ Busy(b)' = Busy(b)
                              /\ \A j \in Fingerprints : Written(b, j)' = Written(b, j)
  BY <1>1, OthersStay DEF AlertsInv
<1>6. \A j \in Fingerprints : Written(a, j)' => ~HeldByOther(a, j) /\ ~HeldByOther(a, j)'
  BY <1>2, <1>4, <1>5 DEF Sound, HeldByOther
<1>7. \A j \in Fingerprints : Base(j)' = Base(j) /\ Base(j) \in Nat
  BY <1>1 DEF Base, AlertsInv, AlertsTypeOK, AlertRows
<1>8. row.occurrences > Base(k) /\ row.occurrences \in Nat
  <2>1. Written(a, k) => Row(a, k) = tx[a].written[k] /\ Follows(a, k)
    BY <1>2 DEF Row, Sound
  <2>2. ~Written(a, k) => Row(a, k) = alerts[k]
    BY DEF Row
  <2>3. RowExists(a, k) => Row(a, k).occurrences \in Nat /\ Row(a, k).occurrences >= Base(k)
    BY <2>1, <2>2, <1>7, RowTyped DEF AlertRows, AlertsInv, Follows, RowExists, Base
  <2>4. ~RowExists(a, k) => Base(k) = 0
    BY <2>1, <2>2 DEF RowExists, Base, Written
  <2> QED BY <2>3, <2>4, <1>7 DEF AlertRows
<1>9. \A j \in Fingerprints : Written(a, j)' => Follows(a, j)'
  <2> SUFFICES ASSUME NEW j \in Fingerprints, Written(a, j)'
               PROVE  Follows(a, j)'
    OBVIOUS
  <2>1. CASE j # k
    BY <2>1, <1>1, <1>2, <1>3, <1>4, <1>7 DEF Sound, Follows
  <2>2. CASE j = k
    <3>1. IF alerts[k] = NoAlert THEN row.first = tx[a].now /\ row.by = Origin(a)
          ELSE row.first = alerts[k].first /\ row.by = alerts[k].by
      BY <1>2 DEF RowExists, Row, Sound, Follows, Written
    <3> QED BY <2>2, <3>1, <1>1, <1>3, <1>7, <1>8 DEF Follows, Origin
  <2> QED BY <2>1, <2>2
<1>10. \A s \in Subjects : Tallied(a, s)'
  <2> SUFFICES ASSUME NEW s \in Subjects
               PROVE  Tallied(a, s)'
    OBVIOUS
  <2>1. \A p : p \in PendingOf(a, s) <=>
            \E j \in Fingerprints, n \in Nat :
                /\ p = <<j, n>> /\ j[1] = s /\ Written(a, j)
                /\ Base(j) < n /\ n <= tx[a].written[j].occurrences
    BY <1>2, PendingElements DEF AlertsInv
  <2>5. \A p : p \in PendingOf(a, s)' <=>
            \E j \in Fingerprints, n \in Nat :
                /\ p = <<j, n>> /\ j[1] = s /\ Written(a, j)'
                /\ Base(j) < n /\ n <= tx'[a].written[j].occurrences
    <3>1. \A j \in Fingerprints : Written(a, j)' => tx'[a].written[j].occurrences \in Nat
      BY <1>3, <1>4, RowTyped DEF Written, AlertRows, AlertsInv
    <3>2. ASSUME NEW j \in Fingerprints, Written(a, j)', NEW n
          PROVE  n \in (Base(j)' + 1)..tx'[a].written[j].occurrences <=>
                 n \in Nat /\ Base(j) < n /\ n <= tx'[a].written[j].occurrences
      BY <1>7, <3>1, <3>2
    <3> QED BY <3>2 DEF PendingOf
  <2>2. IsFiniteSet(PendingOf(a, s)) /\ tx[a].done[s] = Cardinality(PendingOf(a, s))
    BY <1>2 DEF Sound, Tallied
  <2>3. CASE s # k[1]
    <3>2. \A j \in Fingerprints : j[1] = s =>
              Written(a, j)' = Written(a, j) /\ tx'[a].written[j] = tx[a].written[j]
      BY <2>3, <1>3, <1>4
    <3>3. \A p : p \in PendingOf(a, s)' <=> p \in PendingOf(a, s)
      BY <2>1, <2>5, <3>2
    <3>1. PendingOf(a, s)' = PendingOf(a, s)
      BY <3>3
    <3> QED BY <3>1, <2>2, <2>3, <1>1, <1>2 DEF Tallied, Transactions
  <2>4. CASE s = k[1]
    <3> DEFINE n0 == row.occurrences
    <3>1. <<k, n0>> \notin PendingOf(a, s)
      BY <2>1, <1>2, RowTyped DEF RowExists, Row, Written, AlertRows, AlertsInv
    <3>2. \A n \in Nat : n <= n0 /\ n # n0 /\ Base(k) < n =>
              Written(a, k) /\ n <= tx[a].written[k].occurrences
      BY <1>7, <1>8, RowTyped DEF RowExists, Row, AlertsInv, Base, AlertRows
    <3>3. Written(a, k) => \A n \in Nat : n <= tx[a].written[k].occurrences => n <= n0
      BY <1>8, RowTyped DEF RowExists, Row, AlertsInv, AlertRows, Written
    <3>4. PendingOf(a, s)' \subseteq PendingOf(a, s) \cup {<<k, n0>>}
      BY <2>1, <2>5, <3>2, <1>3, <1>4
    <3>5. PendingOf(a, s) \subseteq PendingOf(a, s)'
      BY <2>1, <2>5, <3>3, <1>3, <1>4
    <3>6. <<k, n0>> \in PendingOf(a, s)'
      BY <2>5, <2>4, <1>3, <1>4, <1>7, <1>8
    <3>7. PendingOf(a, s)' = PendingOf(a, s) \cup {<<k, n0>>}
      BY <3>4, <3>5, <3>6
    <3>8. /\ IsFiniteSet(PendingOf(a, s)')
          /\ Cardinality(PendingOf(a, s)') = Cardinality(PendingOf(a, s)) + 1
      BY <2>2, <3>1, <3>7, FS_AddElement
    <3>9. tx'[a].done[s] = tx[a].done[s] + 1
      BY <2>4, <1>1, <1>2 DEF Transactions
    <3> QED BY <2>2, <3>8, <3>9 DEF Tallied
  <2> QED BY <2>3, <2>4
<1>11. Timely(a)' /\ Handled(a)'
  BY <1>1, <1>2 DEF Sound, Timely, Handled
<1>12. ASSUME a \in Evaluators, ~overlapped
       PROVE  Spaced(a)' /\ \A f \in Evaluators \ {a} : ~Busy(f)'
  <2>1. Spaced(a) /\ \A f \in Evaluators \ {a} : ~Busy(f)
    BY <1>2, <1>12 DEF Sound
  <2>2. \A f \in Evaluators \ {a} : ~Busy(f)'
    BY <2>1, <1>5 DEF Actors
  <2>3. /\ View(a)'[k] = row /\ View(a)[k] = Row(a, k)
        /\ \A j \in Fingerprints : j # k => View(a)'[j] = View(a)[j]
    BY <1>1, <1>3, <1>4 DEF View, Row
  <2>4. Apart(View(a))'
    <3> SUFFICES ASSUME NEW i \in Fingerprints, NEW j \in Fingerprints, i[1] = j[1],
                        Raised(View(a), i)', Raised(View(a), j)',
                        View(a)'[i].first < View(a)'[j].first
                 PROVE  View(a)'[j].first - View(a)'[i].first > Cooldown - MaxDelay
      BY DEF Apart
    <3>1. CASE RowExists(a, k)
      <4>1. \A l \in Fingerprints : Raised(View(a), l)' =>
                Raised(View(a), l) /\ View(a)'[l].first = View(a)[l].first
        BY <2>3, <3>1 DEF Raised, RowExists
      <4> QED BY <4>1, <2>1 DEF Spaced, Apart
    <3>2. CASE ~RowExists(a, k)
      <4>1. row.first = tx[a].now /\ tx[a].seen = {} /\ Clear(a)
        BY <3>2, <2>1, <1>2 DEF Sound, Handled, Spaced
      <4>2. CASE i # k /\ j # k
        BY <4>2, <2>1, <2>3 DEF Spaced, Apart, Raised
      <4>3. CASE i # k /\ j = k
        BY <4>1, <4>3, <2>3 DEF Clear, Raised
      <4>4. CASE i = k /\ j # k
        <5>1. View(a)[j] = Row(a, j) /\ Raised(View(a), j) /\ tx[a].now < Row(a, j).first
          BY <4>1, <4>4, <2>3 DEF View, Raised
        <5>2. Row(a, j).first <= tx[a].now
          <6>1. tx[a].now \in Int
            BY <1>2 DEF Transactions, Moments
          <6>2. CASE alerts[j] = NoAlert
            BY <5>1, <6>1, <6>2, <1>2 DEF Raised, Row, Sound, Follows
          <6>3. CASE alerts[j] # NoAlert
            BY <5>1, <6>3, <1>2, <2>1 DEF Raised, Row, Sound, Follows, Spaced
          <6> QED BY <6>2, <6>3
        <5>3. Row(a, j).first \in Int /\ tx[a].now \in Int
          BY <5>1, <1>2, RowTyped DEF Raised, RowExists, AlertsInv, AlertRows, Moments,
             Transactions
        <5> QED BY <5>1, <5>2, <5>3
      <4>5. CASE i = k /\ j = k
        BY <4>5, <2>3 DEF AlertRows, Moments
      <4> QED BY <4>2, <4>3, <4>4, <4>5
    <3> QED BY <3>1, <3>2
  <2> QED BY <2>1, <2>2, <2>4, <1>1 DEF Spaced, Raised
<1>13. Sound(a)'
  BY <1>1, <1>6, <1>9, <1>10, <1>11, <1>12 DEF Sound
<1> QED BY <1>1, <1>2, <1>6, <1>13, MovesKeepInvariant

-----------------------------------------------------------------------------
(* Rows are committed or acknowledged. *)

\* Rows that lose no alert and gain none of an evaluation's are as far apart as they were.
LEMMA ApartStays ==
    ASSUME NEW old, NEW new, Apart(old),
           \A k \in Fingerprints : Raised(new, k) => Raised(old, k) /\ new[k].first = old[k].first
    PROVE  Apart(new)
BY DEF Apart

\* Another transaction stays sound when a row that it has not written changes.
LEMMA OthersStaySound ==
    ASSUME AlertsInv, NEW b \in Actors, Busy(b), tx'[b] = tx[b],
           UNCHANGED <<time, overlapped>>,
           \A c \in Actors : Busy(c)' => tx'[c] = tx[c],
           \A k \in Fingerprints : alerts[k] # NoAlert => alerts'[k] # NoAlert,
           \A k \in Fingerprints : Written(b, k) =>
               Base(k)' = Base(k) /\ Follows(b, k)' = Follows(b, k),
           b \in Evaluators /\ ~overlapped =>
               \A k \in Fingerprints : Raised(alerts, k)' =>
                   Raised(alerts, k) /\ alerts'[k].first = alerts[k].first
    PROVE  Sound(b)'
<1>1. Sound(b) /\ Busy(b)'
  BY DEF AlertsInv, Busy
<1>2. /\ \A k \in Fingerprints : Written(b, k)' = Written(b, k)
      /\ \A c \in Actors : /\ Busy(c)' => Busy(c)
                           /\ \A k \in Fingerprints : Written(c, k)' => Written(c, k)
  BY <1>1 DEF Written, Busy
<1>3. \A k \in Fingerprints : RowExists(b, k) => RowExists(b, k)'
  BY <1>2 DEF RowExists, Row, Written
<1>4. Timely(b)' /\ Handled(b)'
  BY <1>1, <1>3 DEF Sound, Timely, Handled, FingerprintOf,
                      alert_fingerprint
<1>5. \A s \in Subjects : Tallied(b, s)'
  <2> TAKE s \in Subjects
  <2>1. {j \in Fingerprints : j[1] = s /\ Written(b, j)}' =
            {j \in Fingerprints : j[1] = s /\ Written(b, j)}
    BY <1>2
  <2>2. \A k \in {j \in Fingerprints : j[1] = s /\ Written(b, j)} :
           ({k} \X ((Base(k) + 1)..tx[b].written[k].occurrences))'
         = {k} \X ((Base(k) + 1)..tx[b].written[k].occurrences)
    OBVIOUS
  <2>3. PendingOf(b, s)' = PendingOf(b, s)
    BY <2>1, <2>2 DEF PendingOf
  <2> QED BY <2>3, <1>1 DEF Sound, Tallied
<1>6. \A k \in Fingerprints : Written(b, k)' => Follows(b, k)' /\ ~HeldByOther(b, k)'
  BY <1>1, <1>2 DEF Sound, HeldByOther
<1>7. ASSUME b \in Evaluators, ~overlapped
      PROVE  Spaced(b)' /\ \A f \in Evaluators \ {b} : ~Busy(f)'
  <2>1. Spaced(b) /\ \A f \in Evaluators \ {b} : ~Busy(f)
    BY <1>1, <1>7 DEF Sound
  <2>2. \A f \in Evaluators \ {b} : ~Busy(f)'
    BY <2>1, <1>2 DEF Actors
  <2>3. \A k \in Fingerprints : Raised(View(b), k)' =>
            Raised(View(b), k) /\ View(b)'[k].first = View(b)[k].first
    BY <1>2, <1>7 DEF Raised, View, Row, Written
  <2>4. Apart(View(b))'
    BY <2>1, <2>3 DEF Spaced, Apart
  <2>5. Clear(b) => Clear(b)'
    BY <2>3 DEF Clear
  <2> QED BY <2>1, <2>2, <2>4, <2>5, <1>7 DEF Spaced
<1> QED BY <1>4, <1>5, <1>6, <1>7 DEF Sound

\* The occurrences of a subject's alerts, one by one.
LEMMA OccurrenceElements ==
    ASSUME AlertsTypeOK, NEW s \in Subjects, NEW p
    PROVE  p \in OccurrencesOf(s) <=>
               \E k \in Fingerprints, n \in Nat \ {0} : p = <<k, n>> /\ k[1] = s /\ n <= Base(k)
<1>1. \A k \in AlertsOf(s) : k \in Fingerprints /\ k[1] = s /\ alerts[k].occurrences \in Nat
                             /\ Base(k) = alerts[k].occurrences
  BY DEF AlertsTypeOK, AlertRows, AlertsOf, Base
<1>2. ASSUME NEW k \in AlertsOf(s), NEW n
      PROVE  n \in 1..alerts[k].occurrences <=> n \in Nat \ {0} /\ n <= Base(k)
  BY <1>1
<1>3. \A k \in Fingerprints : k[1] = s /\ k \notin AlertsOf(s) => Base(k) = 0
  BY DEF AlertsOf, Base
<1> QED BY <1>1, <1>2, <1>3 DEF OccurrencesOf

\* What a transaction committed is what was triggered.
LEMMA CommitKeepsInvariant ==
    ASSUME AlertsInv, AlertsTypeOK', NEW a \in Actors, CommitTransaction(a)
    PROVE  AlertsInv'
<1>1. /\ Busy(a) /\ Sound(a) /\ alerts' = View(a)
      /\ tx' = [tx EXCEPT ![a] = NoTransaction] /\ tx'[a] = NoTransaction
      /\ triggers' = [s \in Subjects |-> triggers[s] + tx[a].done[s]]
      /\ UNCHANGED <<time, begun, overlapped>>
  BY DEF CommitTransaction, View, AlertsInv, AlertsTypeOK
<1>2. \A c \in Actors : Busy(c)' => c # a /\ tx'[c] = tx[c] /\ Busy(c)
  BY <1>1 DEF Busy, AlertsInv, AlertsTypeOK
<1>3. \A k \in Fingerprints : alerts'[k] = IF Written(a, k) THEN tx[a].written[k] ELSE alerts[k]
  BY <1>1 DEF View, Row
<1>4. \A k \in Fingerprints : Written(a, k) =>
          /\ tx[a].written[k] # NoAlert /\ tx[a].written[k] \in AlertRows /\ Follows(a, k)
  BY <1>1, RowTyped DEF Written, Sound, AlertsInv
<1>5. \A k \in Fingerprints : alerts[k] # NoAlert => alerts'[k] # NoAlert
  BY <1>3, <1>4
<1>6. \A k \in Fingerprints :
          /\ Base(k) \in Nat /\ Base(k)' \in Nat
          /\ Base(k)' = IF Written(a, k) THEN tx[a].written[k].occurrences ELSE Base(k)
          /\ Written(a, k) => Base(k) < Base(k)'
  BY <1>3, <1>4 DEF Base, Follows, AlertRows, AlertsInv, AlertsTypeOK
<1>7. ASSUME ~overlapped, a \notin Evaluators, NEW k \in Fingerprints, Raised(alerts, k)'
      PROVE  Raised(alerts, k) /\ alerts'[k].first = alerts[k].first
  BY <1>3, <1>4, <1>7 DEF Raised, Follows, Origin
<1>8. ASSUME NEW b \in Actors, Busy(b)' PROVE Sound(b)'
  <2>1. b # a /\ tx'[b] = tx[b] /\ Busy(b) /\ Sound(b)
    BY <1>2, <1>8 DEF AlertsInv
  <2>2. ASSUME NEW k \in Fingerprints, Written(b, k)
        PROVE  Base(k)' = Base(k) /\ Follows(b, k)' = Follows(b, k)
    <3>1. ~Written(a, k)
      BY <2>1, <2>2 DEF Sound, HeldByOther
    <3> QED BY <3>1, <2>1, <1>3, <1>6 DEF Follows, Origin
  <2>3. b \in Evaluators /\ ~overlapped => a \notin Evaluators
    BY <1>1, <2>1 DEF Sound
  <2> QED BY <2>1, <2>2, <2>3, <1>1, <1>2, <1>5, <1>7, OthersStaySound
<1>9. \A k \in Fingerprints : InOrder(k)'
  <2> SUFFICES ASSUME NEW k \in Fingerprints, alerts'[k] # NoAlert
               PROVE  alerts'[k].first <= time /\ alerts'[k].last >= alerts'[k].first - MaxDelay
    BY <1>1 DEF InOrder
  <2>1. InOrder(k)
    BY DEF AlertsInv
  <2>2. CASE ~Written(a, k)
    BY <2>1, <2>2, <1>3 DEF InOrder
  <2>3. CASE Written(a, k)
    <3>1. time \in Int /\ MaxDelay \in Nat /\ tx[a].now \in Int /\ Timely(a)
      BY <1>1, RowTyped, AlertsAssumption DEF AlertsInv, AlertsTypeOK, Moments, Sound
    <3>2. alerts[k] # NoAlert => alerts[k].first \in Int /\ alerts[k].first <= time
      BY <2>1 DEF InOrder, AlertsInv, AlertsTypeOK, AlertRows, Moments
    <3>3. /\ alerts'[k].last = tx[a].now /\ alerts'[k].first \in Int
          /\ \/ alerts'[k].first = tx[a].now
             \/ alerts[k] # NoAlert /\ alerts'[k].first = alerts[k].first
      BY <2>3, <1>3, <1>4 DEF Follows, AlertRows, Moments
    <3> QED BY <3>1, <3>2, <3>3 DEF Timely
  <2> QED BY <2>2, <2>3
<1>10. \A s \in Subjects : TalliedRows(s)'
  <2> TAKE s \in Subjects
  <2>1. /\ IsFiniteSet(OccurrencesOf(s)) /\ triggers[s] = Cardinality(OccurrencesOf(s))
        /\ IsFiniteSet(PendingOf(a, s)) /\ tx[a].done[s] = Cardinality(PendingOf(a, s))
    BY <1>1 DEF AlertsInv, TalliedRows, Sound, Tallied
  <2>2. \A p : p \in OccurrencesOf(s) <=>
            \E k \in Fingerprints, n \in Nat \ {0} : p = <<k, n>> /\ k[1] = s /\ n <= Base(k)
    BY OccurrenceElements DEF AlertsInv
  <2>3. \A p : p \in OccurrencesOf(s)' <=>
            \E k \in Fingerprints, n \in Nat \ {0} : p = <<k, n>> /\ k[1] = s /\ n <= Base(k)'
    <3>1. \A k \in AlertsOf(s)' : k \in Fingerprints /\ k[1] = s /\ alerts'[k].occurrences \in Nat
                                  /\ Base(k)' = alerts'[k].occurrences
      BY DEF AlertsTypeOK, AlertRows, AlertsOf, Base
    <3>2. ASSUME NEW k \in AlertsOf(s)', NEW n
          PROVE  n \in 1..alerts'[k].occurrences <=> n \in Nat \ {0} /\ n <= Base(k)'
      BY <3>1
    <3>3. \A k \in Fingerprints : k[1] = s /\ k \notin AlertsOf(s)' => Base(k)' = 0
      BY DEF AlertsOf, Base
    <3> QED BY <3>1, <3>2, <3>3 DEF OccurrencesOf
  <2>4. \A p : p \in PendingOf(a, s) <=>
            \E k \in Fingerprints, n \in Nat : /\ p = <<k, n>> /\ k[1] = s /\ Written(a, k)
                                               /\ Base(k) < n /\ n <= Base(k)'
    BY <1>1, <1>6, PendingElements DEF AlertsInv
  <2>5. \A p : p \in OccurrencesOf(s)' <=> p \in OccurrencesOf(s) \/ p \in PendingOf(a, s)
    <3>1. \A k \in Fingerprints, n \in Nat \ {0} :
              n <= Base(k)' <=>
                  n <= Base(k) \/ (Written(a, k) /\ Base(k) < n /\ n <= Base(k)')
      BY <1>6
    <3>2. \A k \in Fingerprints, n \in Nat : Base(k) < n => n \in Nat \ {0}
      BY <1>6
    <3> QED BY <2>2, <2>3, <2>4, <3>1, <3>2
  <2>6. OccurrencesOf(s) \cap PendingOf(a, s) = {}
    <3>1. \A k \in Fingerprints, n \in Nat : ~(n <= Base(k) /\ Base(k) < n)
      BY <1>6
    <3> QED BY <2>2, <2>4, <3>1
  <2>7. OccurrencesOf(s)' = OccurrencesOf(s) \cup PendingOf(a, s)
    BY <2>5
  <2>8. /\ IsFiniteSet(OccurrencesOf(s)')
        /\ Cardinality(OccurrencesOf(s)') =
               Cardinality(OccurrencesOf(s)) + Cardinality(PendingOf(a, s))
    <3> DEFINE O == OccurrencesOf(s)
               P == PendingOf(a, s)
    <3>1. IsFiniteSet(O) /\ IsFiniteSet(P) /\ Cardinality(O \cap P) = 0
      BY <2>1, <2>6, FS_EmptySet
    <3> HIDE DEF O, P
    <3>2. /\ IsFiniteSet(O \cup P)
          /\ Cardinality(O \cup P) = Cardinality(O) + Cardinality(P) - Cardinality(O \cap P)
      BY <3>1, FS_Union
    <3>3. Cardinality(O) \in Nat /\ Cardinality(P) \in Nat
      BY <3>1, FS_CardinalityType
    <3>4. Cardinality(O \cup P) = Cardinality(O) + Cardinality(P)
      BY <3>1, <3>2, <3>3
    <3> QED BY <2>7, <3>2, <3>4 DEF O, P
  <2> QED BY <2>1, <2>8, <1>1 DEF TalliedRows
<1>11. ~overlapped => Apart(alerts')
  <2>1. CASE a \in Evaluators
    BY <2>1, <1>1 DEF Sound, Spaced
  <2>2. CASE a \notin Evaluators
    BY <2>2, <1>7, ApartStays DEF AlertsInv, Raised
  <2> QED BY <2>1, <2>2
<1> QED BY <1>1, <1>8, <1>9, <1>10, <1>11 DEF AlertsInv, Apart

\* An acknowledgement changes no count.
LEMMA AcknowledgeKeepsInvariant ==
    ASSUME AlertsInv, AlertsTypeOK', NEW k \in Fingerprints, Acknowledge(k)
    PROVE  AlertsInv'
<1>1. /\ alerts[k] # NoAlert /\ alerts[k] \in AlertRows
      /\ \A a \in Actors : ~Written(a, k)
      /\ alerts' = [alerts EXCEPT ![k].acknowledged = TRUE]
      /\ UNCHANGED <<time, tx, begun, triggers, overlapped>>
  BY DEF Acknowledge, AlertsInv, AlertsTypeOK
<1>2. alerts'[k] = [alerts[k] EXCEPT !.acknowledged = TRUE] /\ alerts'[k] \in AlertRows
  BY <1>1 DEF AlertsInv, AlertsTypeOK, AlertRows
<1>3. /\ \A j \in Fingerprints : j # k => alerts'[j] = alerts[j]
      /\ alerts'[k] # NoAlert /\ alerts'[k].first = alerts[k].first
      /\ alerts'[k].last = alerts[k].last /\ alerts'[k].by = alerts[k].by
      /\ alerts'[k].occurrences = alerts[k].occurrences
  BY <1>1, <1>2, AlertRowsAssumption DEF AlertsInv, AlertsTypeOK, AlertRows
<1>4. \A j \in Fingerprints : /\ Base(j)' = Base(j)
                              /\ alerts'[j] # NoAlert <=> alerts[j] # NoAlert
                              /\ Raised(alerts, j)' =>
                                     Raised(alerts, j) /\ alerts'[j].first = alerts[j].first
  BY <1>1, <1>3 DEF Base, Raised
<1>5. ASSUME NEW b \in Actors, Busy(b)' PROVE Sound(b)'
  <2>1. Busy(b) /\ \A c \in Actors : tx'[c] = tx[c]
    BY <1>1, <1>5 DEF Busy
  <2>2. ASSUME NEW j \in Fingerprints, Written(b, j) PROVE Follows(b, j)' = Follows(b, j)
    <3>1. j # k
      BY <1>1, <2>2
    <3> QED BY <3>1, <1>1, <1>3, <1>4 DEF Follows, Origin
  <2> QED BY <2>1, <2>2, <1>1, <1>4, OthersStaySound
<1>6. \A j \in Fingerprints : InOrder(j)'
  BY <1>1, <1>3 DEF AlertsInv, InOrder
<1>7. \A s \in Subjects : TalliedRows(s)'
  <2> TAKE s \in Subjects
  <2>1. AlertsOf(s)' = AlertsOf(s)
    BY <1>4 DEF AlertsOf
  <2>2. \A j \in AlertsOf(s) : ({j} \X (1..alerts[j].occurrences))'
                             = {j} \X (1..alerts[j].occurrences)
    BY <1>3 DEF AlertsOf
  <2>3. OccurrencesOf(s)' = OccurrencesOf(s)
    BY <2>1, <2>2 DEF OccurrencesOf
  <2> QED BY <2>3, <1>1 DEF AlertsInv, TalliedRows
<1>8. ~overlapped => Apart(alerts')
  BY <1>4, ApartStays DEF AlertsInv, Raised
<1> QED BY <1>1, <1>5, <1>6, <1>7, <1>8 DEF AlertsInv, Apart

\* Time only ends cooldowns.
LEMMA TickKeepsInvariant ==
    ASSUME AlertsInv, AlertsTypeOK', TimePasses
    PROVE  AlertsInv'
<1>1. /\ time' = time + 1 /\ \A a \in Actors : Busy(a) => time < tx[a].now + MaxDelay
      /\ UNCHANGED <<alerts, tx, begun, triggers, overlapped>>
  BY DEF TimePasses
<1>2. time \in Int /\ MaxDelay \in Nat
  BY AlertsAssumption DEF AlertsInv, AlertsTypeOK, Moments
<1>3. \A b \in Actors :
          /\ Busy(b)' = Busy(b) /\ View(b)' = View(b)
          /\ \A k \in Fingerprints : /\ Written(b, k)' = Written(b, k)
                                     /\ RowExists(b, k)' = RowExists(b, k)
                                     /\ Written(b, k) => Follows(b, k)' = Follows(b, k)
          /\ \A s \in Subjects : PendingOf(b, s)' = PendingOf(b, s)
  <2> TAKE b \in Actors
  <2>1. Busy(b)' = Busy(b)
    BY <1>1 DEF Busy
  <2> QED BY <2>1, <1>1, RowsStay
<1>4. ASSUME NEW b \in Actors, Busy(b)' PROVE Sound(b)'
  <2>1. Busy(b) /\ Sound(b) /\ tx[b].now \in Int
    BY <1>3, <1>4 DEF AlertsInv, AlertsTypeOK, Busy, Transactions, Moments
  <2>2. Timely(b)'
    BY <2>1, <1>1, <1>2 DEF Sound, Timely
  <2>3. Handled(b)'
    BY <2>1, <1>1, <1>3 DEF Sound, Handled, FingerprintOf, alert_fingerprint
  <2>4. \A s \in Subjects : Tallied(b, s)'
    BY <2>1, <1>1, <1>3 DEF Sound, Tallied
  <2>5. \A k \in Fingerprints : Written(b, k)' => Follows(b, k)' /\ ~HeldByOther(b, k)'
    BY <2>1, <1>3 DEF Sound, HeldByOther
  <2>6. b \in Evaluators /\ ~overlapped' =>
            Spaced(b)' /\ \A f \in Evaluators \ {b} : ~Busy(f)'
    <3> SUFFICES ASSUME b \in Evaluators, ~overlapped'
                 PROVE  Spaced(b)' /\ \A f \in Evaluators \ {b} : ~Busy(f)'
      OBVIOUS
    <3>1. Spaced(b) /\ \A f \in Evaluators \ {b} : ~Busy(f)
      BY <2>1, <1>1 DEF Sound
    <3>2. Apart(View(b))' = Apart(View(b)) /\ Clear(b)' = Clear(b)
      BY <1>1, <1>3 DEF Apart, Clear, Raised
    <3>3. \A f \in Evaluators \ {b} : ~Busy(f)'
      BY <3>1, <1>3 DEF Actors
    <3> QED BY <3>1, <3>2, <3>3, <1>1 DEF Spaced, Raised
  <2> QED BY <2>2, <2>3, <2>4, <2>5, <2>6 DEF Sound
<1>5. \A k \in Fingerprints : InOrder(k)'
  <2> SUFFICES ASSUME NEW k \in Fingerprints, alerts[k] # NoAlert
               PROVE  alerts[k].first <= time' /\ alerts[k].last >= alerts[k].first - MaxDelay
    BY <1>1 DEF InOrder
  <2>1. alerts[k].first \in Int /\ InOrder(k)
    BY DEF AlertsInv, AlertsTypeOK, AlertRows, Moments
  <2> QED BY <2>1, <1>1, <1>2 DEF InOrder
<1>6. \A s \in Subjects : TalliedRows(s)'
  BY <1>1 DEF AlertsInv, TalliedRows, OccurrencesOf, AlertsOf
<1>7. ~overlapped' => Apart(alerts)'
  BY <1>1 DEF AlertsInv, Apart, Raised
<1> QED BY <1>4, <1>5, <1>6, <1>7 DEF AlertsInv

-----------------------------------------------------------------------------

\* Each step keeps the invariant of alerts.
LEMMA AlertsStep == AlertsInv /\ [AlertsNext]_alertVars => AlertsInv'
<1> SUFFICES ASSUME AlertsInv, [AlertsNext]_alertVars
             PROVE  AlertsInv'
  OBVIOUS
<1>1. Counting
  BY DEF Counting, AlertsInv, Sound, Handled
<1>2. AlertsTypeOK'
  BY <1>1, AlertsTyped DEF AlertsInv
<1>3. Evaluators \subseteq Actors /\ Posters \subseteq Actors
  BY DEF Actors
<1>4. ASSUME NEW e \in Evaluators, BeginEvaluation(e) PROVE AlertsInv'
  BY <1>2, <1>3, <1>4, BeginKeepsInvariant, AlertsAssumption DEF BeginEvaluation
<1>5. ASSUME NEW p \in Posters, BeginPost(p) PROVE AlertsInv'
  <2>1. PICK s \in Subjects, severity \in Severities :
            Begin(p, [t \in Subjects |-> 0], "insert", s, severity)
    BY <1>5 DEF BeginPost
  <2>2. [t \in Subjects |-> 0] \in [Subjects -> 0..2]
    OBVIOUS
  <2>3. p \notin Evaluators /\ overlapped' = overlapped
    BY <1>5, AlertsAssumption DEF BeginPost
  <2> QED BY <1>2, <1>3, <2>1, <2>2, <2>3, BeginKeepsInvariant
<1>6. ASSUME NEW e \in Evaluators, Look(e) PROVE AlertsInv'
  BY <1>2, <1>6, LookKeepsInvariant
<1>7. ASSUME NEW e \in Evaluators, LockSeen(e) PROVE AlertsInv'
  <2>1. /\ Busy(e) /\ tx[e].at = "lock" /\ e \in Actors /\ tx[e] \in Transactions
        /\ Sound(e) /\ \A k \in tx[e].seen : ~HeldByOther(e, k)
    BY <1>3, <1>7 DEF LockSeen, AlertsInv, AlertsTypeOK, Busy
  <2>2. CASE /\ {k \in tx[e].seen : Recent(e, k)} = {}
             /\ Moves(e, [tx[e] EXCEPT !.at = "insert", !.seen = {}])
    BY <1>2, <2>1, <2>2, NoneLeftKeepsInvariant
  <2>3. ASSUME NEW k \in tx[e].seen, Recent(e, k),
               Counted(e, k, Triggered(Row(e, k), tx[e].now))
        PROVE  AlertsInv'
    <3>1. k \in Fingerprints /\ k[1] = tx[e].subject /\ RowExists(e, k)
      BY <2>1, <2>3 DEF Transactions, Sound, Handled, Recent
    <3>2. Row(e, k) \in AlertRows /\ tx[e].now \in Moments
      BY <2>1, <3>1, RowTyped DEF AlertsInv
    <3> QED BY <1>2, <2>1, <2>3, <3>1, <3>2, TriggeredTyped, CountedKeepsInvariant
  <2> QED BY <1>7, <2>2, <2>3 DEF LockSeen
<1>8. ASSUME NEW a \in Actors, Busy(a), NEW k, k = FingerprintOf(a)
      PROVE  k \in Fingerprints /\ k[1] = tx[a].subject
  BY <1>8, FingerprintIsKey DEF AlertsInv, AlertsTypeOK, Busy, Transactions, FingerprintOf
<1>9. ASSUME NEW a \in Actors, Insert(a) PROVE AlertsInv'
  <2> DEFINE k == FingerprintOf(a)
  <2>1. Busy(a) /\ tx[a].at = "insert" /\ k \in Fingerprints /\ k[1] = tx[a].subject
    BY <1>8, <1>9 DEF Insert
  <2>2. CASE RowExists(a, k)
    BY <1>2, <1>9, <2>1, <2>2, TakenKeepsInvariant DEF Insert
  <2>3. CASE ~RowExists(a, k)
    <3>1. ~HeldByOther(a, k) /\ Counted(a, k, NewAlert(a))
      BY <1>9, <2>3 DEF Insert
    <3> HIDE DEF k
    <3> QED BY <1>2, <2>1, <2>3, <3>1, NewAlertTyped, CountedKeepsInvariant
            DEF Origin, AlertsInv
  <2> QED BY <2>2, <2>3
<1>10. ASSUME NEW a \in Actors, Count(a) PROVE AlertsInv'
  <2> DEFINE k == FingerprintOf(a)
  <2>1. /\ Busy(a) /\ tx[a].at = "count" /\ k \in Fingerprints /\ k[1] = tx[a].subject
        /\ ~HeldByOther(a, k) /\ Counted(a, k, Triggered(Row(a, k), tx[a].now))
    BY <1>8, <1>10 DEF Count
  <2>2. RowExists(a, k)
    BY <1>1, <2>1 DEF Counting
  <2> HIDE DEF k
  <2>3. Row(a, k) \in AlertRows /\ tx[a].now \in Moments
    BY <2>1, <2>2, RowTyped DEF AlertsInv
  <2> QED BY <1>2, <2>1, <2>2, <2>3, TriggeredTyped, CountedKeepsInvariant
<1>11. ASSUME NEW a \in Actors, CommitTransaction(a) PROVE AlertsInv'
  BY <1>2, <1>11, CommitKeepsInvariant
<1>12. ASSUME NEW a \in Actors, AbortTransaction(a) PROVE AlertsInv'
  BY <1>2, <1>12, AbortKeepsInvariant
<1>13. ASSUME NEW k \in Fingerprints, Acknowledge(k) PROVE AlertsInv'
  BY <1>2, <1>13, AcknowledgeKeepsInvariant
<1>14. CASE TimePasses
  BY <1>2, <1>14, TickKeepsInvariant
<1>15. CASE UNCHANGED alertVars
  <2>1. UNCHANGED <<time, alerts, tx, begun, triggers, overlapped>>
    BY <1>15 DEF alertVars
  <2>2. \A b \in Actors : /\ Busy(b)' = Busy(b)
                          /\ \A k \in Fingerprints : HeldByOther(b, k)' = HeldByOther(b, k)
    BY <2>1 DEF Busy, HeldByOther, Written
  <2>3. ASSUME NEW b \in Actors, Busy(b) PROVE Sound(b)'
    <3>1. \A k \in Fingerprints : Base(k)' = Base(k) /\ Follows(b, k)' = Follows(b, k)
      BY <2>1 DEF Base, Follows, Origin
    <3> QED BY <2>1, <2>3, <3>1, OthersStaySound DEF Raised
  <2> QED BY <1>2, <2>1, <2>2, <2>3 DEF AlertsInv, InOrder, TalliedRows, OccurrencesOf,
          AlertsOf, Apart, Raised
<1> QED BY <1>4, <1>5, <1>6, <1>7, <1>9, <1>10, <1>11, <1>12, <1>13, <1>14, <1>15
        DEF AlertsNext

\* It holds before there are alerts.
LEMMA AlertsInitially == AlertsInit => AlertsInv
<1> SUFFICES ASSUME AlertsInit
             PROVE  AlertsInv
  OBVIOUS
<1>1. /\ \A a \in Actors : ~Busy(a)
      /\ \A k \in Fingerprints : alerts[k] = NoAlert
  BY DEF AlertsInit, Busy
<1>2. AlertsTypeOK
  <2>1. 0 \in Moments /\ 0 \in 0..MaxBegun
    BY AlertsAssumption DEF Moments
  <2>2. [k \in Fingerprints |-> NoAlert] \in [Fingerprints -> AlertRows \cup {NoAlert}]
    OBVIOUS
  <2>3. [a \in Actors |-> NoTransaction] \in [Actors -> Transactions \cup {NoTransaction}]
    OBVIOUS
  <2> QED BY <2>1, <2>2, <2>3 DEF AlertsInit, AlertsTypeOK
<1>3. \A s \in Subjects : TalliedRows(s)
  <2> TAKE s \in Subjects
  <2>1. AlertsOf(s) = {}
    BY <1>1 DEF AlertsOf
  <2>2. OccurrencesOf(s) = {}
    BY <2>1 DEF OccurrencesOf
  <2> QED BY <2>2, FS_EmptySet DEF AlertsInit, TalliedRows
<1> QED BY <1>1, <1>2, <1>3 DEF AlertsInv, InOrder, Apart, Raised

\* What the rows count, what transactions hold of them and what was triggered fit together.
THEOREM AlertsInvariant == AlertsSpec => []AlertsInv
<1> QED BY AlertsInitially, AlertsStep, PTL DEF AlertsSpec

\* No trigger is lost, whatever posts and evaluations are under way, however they overlap
\* and in whatever order they are rolled back, commit and are acknowledged.
THEOREM TriggersCounted == AlertsSpec => []OccurrencesCounted
<1>1. AlertsInv => OccurrencesCounted
  BY DEF AlertsInv, TalliedRows, OccurrencesCounted
<1> QED BY <1>1, AlertsInvariant, PTL

\* Evaluations that do not overlap keep the cooldown, whatever clients post in between.
THEOREM CooldownRespected == AlertsSpec => []CooldownHolds
<1>1. AlertsInv => CooldownHolds
  BY DEF AlertsInv, Apart, Raised, CooldownHolds, AlertsOf
<1> QED BY <1>1, AlertsInvariant, PTL

-----------------------------------------------------------------------------
(* The investigation graph: recursion. *)

\* A set of numbers has a least one.
LEMMA LeastNumber ==
    ASSUME NEW T \in SUBSET Nat, T # {}
    PROVE  \E n \in T : \A m \in T : n <= m
<1> DEFINE R == OpToRel(<, Nat)
<1>1. IsWellFoundedOn(R, Nat)
  BY NatLessThanWellFounded
<1> HIDE DEF R
<1>2. PICK n \in T : \A m \in T : <<m, n>> \notin R
  BY <1>1, WFMin
<1>3. ASSUME NEW m \in T PROVE n <= m
  <2>1. m \in Nat /\ n \in Nat
    OBVIOUS
  <2>2. m < n => <<m, n>> \in R
    BY <2>1 DEF R, OpToRel
  <2> QED BY <2>1, <2>2, <1>2
<1> QED BY <1>3

\* A set of numbers with 0, and with n + 1 for each n it has, is all of them.
LEMMA AllNumbers ==
    ASSUME NEW T \in SUBSET Nat, 0 \in T, \A n \in T : n + 1 \in T
    PROVE  T = Nat
<1> DEFINE Rest == Nat \ T
<1> SUFFICES ASSUME Rest # {} PROVE FALSE
  OBVIOUS
<1>1. Rest \in SUBSET Nat
  OBVIOUS
<1> HIDE DEF Rest
<1>2. PICK n \in Rest : \A m \in Rest : n <= m
  BY <1>1, LeastNumber
<1>3. n \in Nat /\ n # 0 /\ n \notin T
  BY <1>2 DEF Rest
<1>4. n - 1 \in Nat /\ n - 1 \notin Rest
  BY <1>1, <1>2, <1>3
<1>5. n - 1 \in T
  BY <1>4 DEF Rest
<1>6. (n - 1) + 1 \in T
  BY <1>5
<1> QED BY <1>3, <1>6

\* A function that does the first n of the steps.
FirstSteps(S, first, step, n, g) ==
    /\ g \in [0..n -> S]
    /\ g[0] = first
    /\ \A m \in 0..(n - 1) : g[m + 1] = step[m][g[m]]

\* A function that does all the steps.
AllSteps(S, first, step, f) ==
    f \in [Nat -> S] /\ f[0] = first /\ \A n \in Nat : f[n + 1] = step[n][f[n]]

\* A function on the numbers may be given by its first value and a step.
LEMMA Recursion ==
    ASSUME NEW S, NEW first \in S, NEW step \in [Nat -> [S -> S]]
    PROVE  \E f : AllSteps(S, first, step, f)
<1> DEFINE First(n, g) == FirstSteps(S, first, step, n, g)
<1>1. \A n \in Nat : \E g : First(n, g)
  <2> DEFINE T == {n \in Nat : \E g : First(n, g)}
  <2>1. 0 \in T
    <3>1. First(0, [m \in 0..0 |-> first])
      BY DEF FirstSteps
    <3> QED BY <3>1
  <2>2. ASSUME NEW n \in T PROVE n + 1 \in T
    <3>1. n \in Nat
      OBVIOUS
    <3>2. PICK g : First(n, g)
      BY <2>2
    <3> DEFINE h == [m \in 0..(n + 1) |-> IF m = n + 1 THEN step[n][g[n]] ELSE g[m]]
    <3>3. g[n] \in S
      <4>1. n \in 0..n
        BY <3>1
      <4> QED BY <3>2, <4>1 DEF FirstSteps
    <3>4. step[n][g[n]] \in S
      BY <3>1, <3>3
    <3>5. h \in [0..(n + 1) -> S]
      <4>1. \A m \in 0..(n + 1) : m # n + 1 => m \in 0..n
        BY <3>1
      <4>2. g \in [0..n -> S]
        BY <3>2 DEF FirstSteps
      <4> QED BY <3>4, <4>1, <4>2
    <3>6. h[0] = first
      <4>1. 0 \in 0..(n + 1) /\ 0 # n + 1
        BY <3>1
      <4>2. g[0] = first
        BY <3>2 DEF FirstSteps
      <4> QED BY <4>1, <4>2
    <3>7. ASSUME NEW m \in 0..n PROVE h[m + 1] = step[m][h[m]]
      <4>1. CASE m = n
        <5>1. n + 1 \in 0..(n + 1) /\ n \in 0..(n + 1) /\ n # n + 1
          BY <3>1
        <5>2. h[n + 1] = step[n][g[n]] /\ h[n] = g[n]
          BY <5>1
        <5> QED BY <4>1, <5>2
      <4>2. CASE m # n
        <5>1. m \in 0..(n - 1) /\ m \in 0..(n + 1) /\ m + 1 \in 0..(n + 1) /\ m + 1 # n + 1
              /\ m # n + 1
          BY <3>1, <4>2
        <5>2. g[m + 1] = step[m][g[m]]
          BY <3>2, <5>1 DEF FirstSteps
        <5> QED BY <5>1, <5>2
      <4> QED BY <4>1, <4>2
    <3>8. (n + 1) - 1 = n
      BY <3>1
    <3> HIDE DEF h
    <3>9. First(n + 1, h)
      BY <3>5, <3>6, <3>7, <3>8 DEF FirstSteps
    <3> QED BY <3>1, <3>9
  <2>3. T \in SUBSET Nat
    OBVIOUS
  <2> HIDE DEF T
  <2>4. T = Nat
    BY <2>1, <2>2, <2>3, AllNumbers
  <2> QED BY <2>4 DEF T
<1>2. ASSUME NEW n \in Nat, NEW g, NEW h, First(n, g), First(n + 1, h)
      PROVE  \A m \in 0..n : g[m] = h[m]
  <2> DEFINE T == {m \in Nat : m \in 0..n => g[m] = h[m]}
  <2>1. 0 \in T
    BY <1>2 DEF FirstSteps
  <2>2. ASSUME NEW m \in T PROVE m + 1 \in T
    <3> SUFFICES ASSUME m + 1 \in 0..n PROVE g[m + 1] = h[m + 1]
      OBVIOUS
    <3>1. m \in 0..(n - 1) /\ m \in 0..((n + 1) - 1) /\ m \in 0..n
      OBVIOUS
    <3>2. g[m] = h[m]
      BY <3>1, <2>2
    <3> QED BY <1>2, <3>1, <3>2 DEF FirstSteps
  <2>3. T \in SUBSET Nat
    OBVIOUS
  <2> HIDE DEF T
  <2>4. T = Nat
    BY <2>1, <2>2, <2>3, AllNumbers
  <2> QED BY <2>4 DEF T
<1> DEFINE G(n) == CHOOSE g : First(n, g)
           f == [n \in Nat |-> G(n)[n]]
<1>3. \A n \in Nat : First(n, G(n))
  BY <1>1
<1> HIDE DEF G
<1>4. f \in [Nat -> S]
  <2>1. ASSUME NEW n \in Nat PROVE G(n)[n] \in S
    <3>1. n \in 0..n
      OBVIOUS
    <3> QED BY <1>3, <3>1 DEF FirstSteps
  <2> QED BY <2>1
<1>5. f[0] = first
  BY <1>3 DEF FirstSteps
<1>6. ASSUME NEW n \in Nat PROVE f[n + 1] = step[n][f[n]]
  <2>1. First(n, G(n)) /\ First(n + 1, G(n + 1)) /\ n \in 0..n /\ n \in 0..((n + 1) - 1)
    BY <1>3
  <2>2. G(n)[n] = G(n + 1)[n]
    BY <2>1, <1>2
  <2>3. G(n + 1)[n + 1] = step[n][G(n + 1)[n]]
    BY <2>1 DEF FirstSteps
  <2>4. n + 1 \in Nat
    OBVIOUS
  <2>5. f[n + 1] = G(n + 1)[n + 1] /\ f[n] = G(n)[n]
    BY <2>4
  <2> QED BY <2>2, <2>3, <2>5
<1> HIDE DEF f
<1>7. AllSteps(S, first, step, f)
  BY <1>4, <1>5, <1>6 DEF AllSteps
<1> QED BY <1>7

-----------------------------------------------------------------------------
(* The investigation graph: what the recursive definitions are. *)

AtSeed(seed) ==
    [edges |-> {}, frontier |-> {seed}, visited |-> {seed}, reached |-> 0,
     truncated |-> FALSE]

\* The states of a traversal.
Traversals(rows) ==
    [edges : SUBSET DOMAIN rows, frontier : SUBSET Nodes, visited : SUBSET Nodes,
     reached : Nat, truncated : BOOLEAN]

\* Both ends of a row are entities.
LEMMA EndsAreNodes ==
    ASSUME NEW rows \in Seq(Relationships), NEW i \in DOMAIN rows
    PROVE  Ends(rows[i]) \subseteq Nodes
<1>1. rows[i] \in Relationships
  OBVIOUS
<1> QED BY <1>1 DEF Ends, Relationships

\* A hop leads from a state of a traversal to another.
LEMMA HopTyped ==
    ASSUME NEW rows \in Seq(Relationships), NEW st \in Traversals(rows), NEW hop \in Nat,
           NEW max_edges \in Nat
    PROVE  Hop(rows, st, hop, max_edges) \in Traversals(rows)
<1> DEFINE remaining == max_edges - Cardinality(st.edges)
           discovered == Touching(rows, st.frontier) \ st.edges
           taken == Oldest(discovered, remaining)
           frontier == NextFrontier(rows, taken, st.visited)
<1>1. taken \subseteq DOMAIN rows
  BY DEF Oldest, Touching
<1> HIDE DEF taken
<1>2. frontier \subseteq Nodes
  BY <1>1, EndsAreNodes DEF NextFrontier
<1> HIDE DEF frontier
<1>3. [edges |-> st.edges \cup taken, frontier |-> frontier,
       visited |-> st.visited \cup frontier,
       reached |-> IF taken = {} THEN st.reached ELSE hop,
       truncated |-> Cardinality(discovered) > remaining] \in Traversals(rows)
  BY <1>1, <1>2 DEF Traversals
<1> QED BY <1>3 DEF Hop, taken, frontier

\* The states of a traversal follow each other by hops, until it stops.
LEMMA HopsSteps ==
    ASSUME NEW rows \in Seq(Relationships), NEW seed \in Nodes, NEW max_edges \in Nat
    PROVE  /\ Hops(rows, seed, max_edges)[0] = AtSeed(seed)
           /\ \A n \in Nat :
                 LET st == Hops(rows, seed, max_edges)[n]
                 IN  Hops(rows, seed, max_edges)[n + 1] =
                     IF Stops(st, max_edges) THEN st ELSE Hop(rows, st, n + 1, max_edges)
<1> DEFINE S == Traversals(rows)
           Moved(n, st) == IF Stops(st, max_edges) THEN st
                           ELSE Hop(rows, st, n + 1, max_edges)
           step == [n \in Nat |-> [st \in S |-> Moved(n, st)]]
           From(f) == [hop \in Nat |->
                          IF hop = 0 THEN AtSeed(seed)
                          ELSE IF Stops(f[hop - 1], max_edges) THEN f[hop - 1]
                               ELSE Hop(rows, f[hop - 1], hop, max_edges)]
<1>1. AtSeed(seed) \in S
  BY DEF AtSeed, Traversals
<1>2. \A n \in Nat, st \in S : Moved(n, st) \in S
  BY HopTyped
<1>3. step \in [Nat -> [S -> S]]
  BY <1>2
<1>4. \A n \in Nat, st \in S : step[n][st] = Moved(n, st)
  OBVIOUS
<1> HIDE DEF step, S
<1>5. PICK f : AllSteps(S, AtSeed(seed), step, f)
  BY <1>1, <1>3, Recursion
<1>6. f = From(f)
  <2>1. ASSUME NEW n \in Nat, n # 0 PROVE f[n] = Moved(n - 1, f[n - 1])
    <3>1. n - 1 \in Nat /\ (n - 1) + 1 = n
      BY <2>1
    <3>2. f[(n - 1) + 1] = step[n - 1][f[n - 1]] /\ f[n - 1] \in S
      BY <1>5, <3>1 DEF AllSteps
    <3> QED BY <1>4, <3>1, <3>2
  <2>2. \A n \in Nat : n # 0 => (n - 1) + 1 = n
    OBVIOUS
  <2>3. \A n \in Nat : f[n] = From(f)[n]
    BY <1>5, <2>1, <2>2 DEF AllSteps
  <2> QED BY <1>5, <2>3 DEF AllSteps
<1>7. Hops(rows, seed, max_edges) = CHOOSE g : g = From(g)
  BY DEF Hops, AtSeed
<1> HIDE DEF From
<1>8. Hops(rows, seed, max_edges) = From(Hops(rows, seed, max_edges))
  BY <1>6, <1>7
<1> DEFINE H == Hops(rows, seed, max_edges)
<1>9. H = From(H)
  BY <1>8
<1> HIDE DEF H
<1>10. H[0] = AtSeed(seed)
  BY <1>9 DEF From
<1>11. ASSUME NEW n \in Nat PROVE H[n + 1] = Moved(n, H[n])
  <2>1. n + 1 \in Nat /\ n + 1 # 0 /\ (n + 1) - 1 = n
    OBVIOUS
  <2> QED BY <1>9, <2>1 DEF From
<1> QED BY <1>10, <1>11 DEF H

\* Each ball is the one before and what the rows that touch it lead to.
LEMMA BallsSteps ==
    ASSUME NEW rows \in Seq(Relationships), NEW seed \in Nodes
    PROVE  /\ Balls(rows, seed)[0] = {seed}
           /\ \A n \in Nat :
                 LET ball == Balls(rows, seed)[n]
                 IN  Balls(rows, seed)[n + 1] =
                     ball \cup UNION {Ends(rows[i]) : i \in Touching(rows, ball)}
<1> DEFINE S == SUBSET Nodes
           Grown(ball) == ball \cup UNION {Ends(rows[i]) : i \in Touching(rows, ball)}
           step == [n \in Nat |-> [ball \in S |-> Grown(ball)]]
           From(f) == [n \in Nat |-> IF n = 0 THEN {seed} ELSE Grown(f[n - 1])]
<1>1. {seed} \in S
  OBVIOUS
<1>2. \A ball \in S : Grown(ball) \in S
  BY EndsAreNodes DEF Touching
<1>3. step \in [Nat -> [S -> S]]
  BY <1>2
<1>4. \A n \in Nat, ball \in S : step[n][ball] = Grown(ball)
  OBVIOUS
<1> HIDE DEF step, S
<1>5. PICK f : AllSteps(S, {seed}, step, f)
  BY <1>1, <1>3, Recursion
<1>6. f = From(f)
  <2>1. ASSUME NEW n \in Nat, n # 0 PROVE f[n] = Grown(f[n - 1])
    <3>1. n - 1 \in Nat /\ (n - 1) + 1 = n
      BY <2>1
    <3>2. f[(n - 1) + 1] = step[n - 1][f[n - 1]] /\ f[n - 1] \in S
      BY <1>5, <3>1 DEF AllSteps
    <3> QED BY <1>4, <3>1, <3>2
  <2>3. \A n \in Nat : f[n] = From(f)[n]
    BY <1>5, <2>1 DEF AllSteps
  <2> QED BY <1>5, <2>3 DEF AllSteps
<1>7. Balls(rows, seed) = CHOOSE g : g = From(g)
  BY DEF Balls
<1> DEFINE H == Balls(rows, seed)
<1> HIDE DEF From
<1>8. H = From(H)
  BY <1>6, <1>7
<1> HIDE DEF H
<1>9. H[0] = {seed}
  BY <1>8 DEF From
<1>10. ASSUME NEW n \in Nat PROVE H[n + 1] = Grown(H[n])
  <2>1. n + 1 \in Nat /\ n + 1 # 0 /\ (n + 1) - 1 = n
    OBVIOUS
  <2> QED BY <1>8, <2>1 DEF From
<1> QED BY <1>9, <1>10 DEF H

-----------------------------------------------------------------------------
(* The investigation graph: how far a traversal has come. *)

\* The rows are finitely many, so what is found of them can be counted.
LEMMA RowsFinite ==
    ASSUME NEW rows \in Seq(Relationships)
    PROVE  IsFiniteSet(DOMAIN rows) /\ DOMAIN rows \subseteq Nat
<1>1. DOMAIN rows = 1..Len(rows) /\ Len(rows) \in Nat
  OBVIOUS
<1>2. IsFiniteSet(1..Len(rows))
  BY <1>1, FS_Interval
<1> QED BY <1>1, <1>2

\* All of a set of rows fit where there is room for them.
LEMMA OldestAll ==
    ASSUME NEW found \in SUBSET Nat, IsFiniteSet(found), NEW n \in Int, Cardinality(found) <= n
    PROVE  Oldest(found, n) = found
<1>1. ASSUME NEW i \in found PROVE Cardinality({j \in found : j < i}) < n
  <2> DEFINE older == {j \in found : j < i}
  <2>1. older \in SUBSET found /\ older # found
    OBVIOUS
  <2> HIDE DEF older
  <2>2. /\ Cardinality(older) <= Cardinality(found) /\ IsFiniteSet(older)
        /\ Cardinality(older) # Cardinality(found)
    BY <2>1, FS_Subset
  <2>3. Cardinality(older) \in Nat /\ Cardinality(found) \in Nat
    BY <2>2, FS_CardinalityType
  <2> QED BY <2>2, <2>3 DEF older
<1> QED BY <1>1 DEF Oldest

\* Where there is not, as many are taken as there is room for.
LEMMA OldestFill ==
    ASSUME NEW found \in SUBSET Nat, IsFiniteSet(found), NEW n \in Nat, n <= Cardinality(found)
    PROVE  Cardinality(Oldest(found, n)) = n
<1> DEFINE Older(i) == {j \in found : j < i}
           T == {m \in Nat : m <= Cardinality(found) => Cardinality(Oldest(found, m)) = m}
<1>1. \A i \in found : IsFiniteSet(Older(i)) /\ Cardinality(Older(i)) \in Nat
  <2>1. \A i \in found : Older(i) \in SUBSET found
    OBVIOUS
  <2> QED BY <2>1, FS_Subset, FS_CardinalityType
<1>2. \A m \in Int : Oldest(found, m) = {i \in found : Cardinality(Older(i)) < m}
  BY DEF Oldest
<1>3. Cardinality(found) \in Nat
  BY FS_CardinalityType
<1>4. \A i \in found, j \in found : j < i => Cardinality(Older(j)) <= Cardinality(Older(i))
  <2> SUFFICES ASSUME NEW i \in found, NEW j \in found, j < i
               PROVE  Cardinality(Older(j)) <= Cardinality(Older(i))
    OBVIOUS
  <2>1. Older(j) \in SUBSET Older(i)
    <3>1. ASSUME NEW k \in found, k < j PROVE k < i
      <4>1. k \in Nat /\ j \in Nat /\ i \in Nat
        OBVIOUS
      <4> QED BY <3>1, <4>1
    <3> QED BY <3>1
  <2> HIDE DEF Older
  <2> QED BY <1>1, <2>1, FS_Subset
<1>5. 0 \in T
  <2>1. Oldest(found, 0) = {}
    <3>1. \A i \in found : ~(Cardinality(Older(i)) < 0)
      <4> HIDE DEF Older
      <4> QED BY <1>1
    <3> QED BY <3>1 DEF Oldest
  <2> QED BY <2>1, FS_EmptySet
<1>6. ASSUME NEW m \in T PROVE m + 1 \in T
  <2> SUFFICES ASSUME m + 1 <= Cardinality(found)
               PROVE  Cardinality(Oldest(found, m + 1)) = m + 1
    OBVIOUS
  <2> DEFINE taken == Oldest(found, m)
             rest == found \ taken
  <2>1. m \in Nat /\ m <= Cardinality(found)
    BY <1>3
  <2>2. Cardinality(taken) = m
    BY <1>6, <2>1
  <2>3. taken \in SUBSET found /\ rest \in SUBSET Nat
    BY DEF Oldest
  <2>4. IsFiniteSet(taken)
    BY <2>3, FS_Subset
  <2>5. rest # {}
    <3>1. taken # found
      BY <1>3, <2>1, <2>2
    <3> QED BY <2>3, <3>1
  <2>6. PICK x \in rest : \A y \in rest : x <= y
    BY <2>3, <2>5, LeastNumber
  <2>7. x \in found /\ x \notin taken /\ x \in Nat
    BY <2>3
  <2>8. \A i \in found : i \in taken <=> Cardinality(Older(i)) < m
    BY <1>2, <2>1
  <2>9. Older(x) = taken
    <3>1. ASSUME NEW j \in found, j < x PROVE j \in taken
      <4>1. j \notin rest
        BY <2>3, <2>6, <3>1
      <4> QED BY <4>1
    <3>2. ASSUME NEW j \in taken PROVE j \in found /\ j < x
      <4>1. j \in found /\ j \in Nat /\ j # x
        BY <2>3, <2>7
      <4>2. Cardinality(Older(j)) < m /\ ~(Cardinality(Older(x)) < m)
        BY <2>7, <2>8, <4>1
      <4>3. Cardinality(Older(j)) \in Nat /\ Cardinality(Older(x)) \in Nat
        BY <1>1, <2>7, <4>1
      <4>4. ~(x < j)
        <5>1. x < j => Cardinality(Older(x)) <= Cardinality(Older(j))
          BY <1>4, <2>7, <4>1
        <5> HIDE DEF Older
        <5> QED BY <2>1, <4>2, <4>3, <5>1
      <4> QED BY <2>7, <4>1, <4>4
    <3> QED BY <3>1, <3>2
  <2>10. \A i \in found : i \in Oldest(found, m + 1) <=> Cardinality(Older(i)) < m + 1
    BY <1>2, <2>1
  <2>11. Oldest(found, m + 1) = taken \cup {x}
    <3>1. ASSUME NEW i \in taken PROVE i \in Oldest(found, m + 1)
      <4>1. i \in found
        BY <2>3
      <4>2. Cardinality(Older(i)) < m /\ Cardinality(Older(i)) \in Nat
        BY <1>1, <2>8, <4>1
      <4> QED BY <2>1, <2>10, <4>1, <4>2
    <3>2. x \in Oldest(found, m + 1)
      <4>1. Cardinality(Older(x)) = m
        BY <2>2, <2>9
      <4> QED BY <2>1, <2>7, <2>10, <4>1
    <3>3. ASSUME NEW i \in Oldest(found, m + 1), i # x PROVE i \in taken
      <4> SUFFICES ASSUME i \notin taken PROVE FALSE
        OBVIOUS
      <4>1. i \in found /\ i \in rest /\ i \in Nat
        BY DEF Oldest
      <4>2. x < i
        BY <2>6, <2>7, <3>3, <4>1
      <4>3. taken \cup {x} \in SUBSET Older(i)
        <5>1. \A j \in taken : j < x
          BY <2>9
        <5>2. \A j \in taken : j \in found /\ j \in Nat
          BY <2>3
        <5>3. \A j \in taken : j < i
          BY <2>7, <4>1, <4>2, <5>1, <5>2
        <5> QED BY <2>7, <4>2, <5>2, <5>3
      <4>4. Cardinality(taken \cup {x}) = m + 1
        BY <2>2, <2>4, <2>7, FS_AddElement
      <4>5. m + 1 <= Cardinality(Older(i)) /\ Cardinality(Older(i)) \in Nat
        BY <1>1, <4>1, <4>3, <4>4, FS_Subset
      <4>6. Cardinality(Older(i)) < m + 1
        BY <2>10, <4>1
      <4> QED BY <2>1, <4>5, <4>6
    <3> QED BY <3>1, <3>2, <3>3
  <2> HIDE DEF taken
  <2> QED BY <2>2, <2>4, <2>7, <2>11, FS_AddElement
<1>7. T \in SUBSET Nat
  OBVIOUS
<1> HIDE DEF T
<1>8. T = Nat
  BY <1>5, <1>6, <1>7, AllNumbers
<1> QED BY <1>8 DEF T

\* Further reach is more reach.
LEMMA ReachGrows ==
    ASSUME NEW rows \in Seq(Relationships), NEW seed \in Nodes
    PROVE  /\ \A n \in Int : InReach(rows, seed, n) \subseteq DOMAIN rows
           /\ \A m, n \in Int : m <= n => InReach(rows, seed, m) \subseteq InReach(rows, seed, n)
<1> DEFINE R(n) == InReach(rows, seed, n)
           B(n) == Balls(rows, seed)[n]
           T(m) == {k \in Nat : R(m) \subseteq R(m + k)}
<1>1. \A n \in Nat : B(n) \subseteq B(n + 1)
  BY BallsSteps
<1>2. \A n \in Nat : R(n + 1) = Touching(rows, B(n))
  BY DEF InReach
<1>3. \A n \in Int : n <= 0 => R(n) = {}
  BY DEF InReach
<1>4. \A n \in Nat : R(n) \subseteq R(n + 1)
  <2> SUFFICES ASSUME NEW n \in Nat, n # 0 PROVE R(n) \subseteq R(n + 1)
    BY <1>3
  <2>1. n - 1 \in Nat /\ (n - 1) + 1 = n
    OBVIOUS
  <2>2. R(n) = Touching(rows, B(n - 1)) /\ R(n + 1) = Touching(rows, B(n))
    BY <1>2, <2>1
  <2>3. B(n - 1) \subseteq B(n)
    BY <1>1, <2>1
  <2> QED BY <2>2, <2>3 DEF Touching
<1>5. \A n \in Int : R(n) \subseteq DOMAIN rows
  BY DEF InReach, Touching
<1> HIDE DEF R
<1>6. ASSUME NEW m \in Nat PROVE T(m) = Nat
  <2>1. 0 \in T(m)
    OBVIOUS
  <2>2. ASSUME NEW k \in T(m) PROVE k + 1 \in T(m)
    <3>1. m + k \in Nat /\ (m + k) + 1 = m + (k + 1) /\ k + 1 \in Nat
      OBVIOUS
    <3>2. R(m + k) \subseteq R(m + (k + 1))
      BY <1>4, <3>1
    <3> QED BY <3>1, <3>2
  <2>3. T(m) \in SUBSET Nat
    OBVIOUS
  <2> HIDE DEF T
  <2> QED BY <2>1, <2>2, <2>3, AllNumbers
<1>7. ASSUME NEW m \in Int, NEW n \in Int, m <= n PROVE R(m) \subseteq R(n)
  <2>1. CASE m <= 0
    BY <1>3, <2>1
  <2>2. CASE ~(m <= 0)
    <3>1. m \in Nat /\ n - m \in Nat /\ m + (n - m) = n
      BY <1>7, <2>2
    <3>2. n - m \in T(m)
      BY <1>6, <3>1
    <3> QED BY <3>1, <3>2
  <2> QED BY <2>1, <2>2
<1> QED BY <1>5, <1>7 DEF R

\* What n hops have come to.  The rows that are shown are those within reach of so many hops
\* as have found some, or, when truncated, a part of them; when no node is new, there is
\* nothing further; and while the traversal goes on it has taken each hop in full.
Come(rows, seed, max_edges, n, st) ==
    /\ st \in Traversals(rows)
    /\ st.reached \in 0..n
    /\ InReach(rows, seed, st.reached - 1) \subseteq st.edges
    /\ st.edges \subseteq InReach(rows, seed, st.reached)
    /\ Cardinality(st.edges) <= max_edges
    /\ st.truncated => /\ st.edges # InReach(rows, seed, st.reached)
                       /\ Cardinality(st.edges) = max_edges
    /\ ~st.truncated => st.edges = InReach(rows, seed, st.reached)
    /\ ~st.truncated /\ st.frontier = {} =>
          \A k \in Nat : k >= st.reached =>
              InReach(rows, seed, k) = InReach(rows, seed, st.reached)
    /\ ~Stops(st, max_edges) =>
          /\ st.reached = n
          /\ st.visited = Balls(rows, seed)[n]
          /\ st.frontier \subseteq st.visited
          /\ Touching(rows, st.visited \ st.frontier) \subseteq st.edges

\* No hop has found no row.
LEMMA ComesToStart ==
    ASSUME NEW rows \in Seq(Relationships), NEW seed \in Nodes, NEW max_edges \in Nat
    PROVE  Come(rows, seed, max_edges, 0, AtSeed(seed))
<1>1. /\ AtSeed(seed) \in Traversals(rows) /\ AtSeed(seed).reached = 0
      /\ AtSeed(seed).edges = {} /\ ~AtSeed(seed).truncated
      /\ AtSeed(seed).frontier = {seed} /\ AtSeed(seed).visited = {seed}
  BY DEF AtSeed, Traversals
<1>2. Cardinality({}) = 0
  BY FS_EmptySet
<1>3. Touching(rows, {seed} \ {seed}) = {}
  BY DEF Touching
<1>4. Balls(rows, seed)[0] = {seed}
  BY BallsSteps
<1> DEFINE st == AtSeed(seed)
<1>5. /\ st \in Traversals(rows) /\ st.reached = 0 /\ st.edges = {} /\ ~st.truncated
      /\ st.frontier # {} /\ st.frontier = {seed} /\ st.visited = {seed}
  BY <1>1
<1> HIDE DEF st
<1>6. /\ st.reached \in 0..0
      /\ InReach(rows, seed, st.reached - 1) \subseteq st.edges
      /\ st.edges = InReach(rows, seed, st.reached)
      /\ Cardinality(st.edges) <= max_edges
      /\ Touching(rows, st.visited \ st.frontier) \subseteq st.edges
  <2>1. InReach(rows, seed, st.reached - 1) = {} /\ InReach(rows, seed, st.reached) = {}
    BY <1>5 DEF InReach
  <2>2. Cardinality(st.edges) <= max_edges /\ st.reached \in 0..0
    BY <1>2, <1>5
  <2>3. Touching(rows, st.visited \ st.frontier) = {}
    BY <1>3, <1>5
  <2> QED BY <1>5, <2>1, <2>2, <2>3
<1>7. Come(rows, seed, max_edges, 0, st)
  BY <1>4, <1>5, <1>6 DEF Come
<1> QED BY <1>7 DEF st

\* When a hop adds no node, none after it adds a row.
LEMMA NothingFurther ==
    ASSUME NEW rows \in Seq(Relationships), NEW seed \in Nodes, NEW n \in Nat,
           Balls(rows, seed)[n + 1] = Balls(rows, seed)[n]
    PROVE  \A k \in Nat : k >= n + 1 => InReach(rows, seed, k) = InReach(rows, seed, n + 1)
<1> DEFINE B(k) == Balls(rows, seed)[k]
           T == {k \in Nat : B(n + k) = B(n)}
<1>1. \A k \in Nat : B(k + 1) = B(k) \cup UNION {Ends(rows[i]) : i \in Touching(rows, B(k))}
  BY BallsSteps
<1>2. \A k \in Nat : InReach(rows, seed, k + 1) = Touching(rows, B(k))
  BY DEF InReach
<1>3. B(n + 1) = B(n)
  OBVIOUS
<1> HIDE DEF B
<1>4. T = Nat
  <2>1. 0 \in T
    OBVIOUS
  <2>2. ASSUME NEW k \in T PROVE k + 1 \in T
    <3>1. n + k \in Nat /\ n + (k + 1) = (n + k) + 1 /\ B(n + k) = B(n) /\ k + 1 \in Nat
      OBVIOUS
    <3>2. B((n + k) + 1) = B(n + 1)
      BY <1>1, <3>1
    <3> QED BY <1>3, <3>1, <3>2
  <2>3. T \in SUBSET Nat
    OBVIOUS
  <2> HIDE DEF T
  <2> QED BY <2>1, <2>2, <2>3, AllNumbers
<1>5. ASSUME NEW k \in Nat, k >= n + 1
      PROVE  InReach(rows, seed, k) = InReach(rows, seed, n + 1)
  <2>1. k - (n + 1) \in Nat /\ n + (k - (n + 1)) = k - 1 /\ k - 1 \in Nat /\ (k - 1) + 1 = k
    BY <1>5
  <2>2. B(n + (k - (n + 1))) = B(n)
    BY <1>4, <2>1
  <2>3. B(k - 1) = B(n)
    BY <2>1, <2>2
  <2> QED BY <1>2, <2>1, <2>3
<1> QED BY <1>5

\* A hop adds the rows it discovers, or the oldest that fit.
LEMMA ComesToHop ==
    ASSUME NEW rows \in Seq(Relationships), NEW seed \in Nodes, NEW max_edges \in Nat,
           NEW n \in Nat, NEW st, Come(rows, seed, max_edges, n, st), ~Stops(st, max_edges)
    PROVE  Come(rows, seed, max_edges, n + 1, Hop(rows, st, n + 1, max_edges))
<1> DEFINE R(k) == InReach(rows, seed, k)
           B(k) == Balls(rows, seed)[k]
           remaining == max_edges - Cardinality(st.edges)
           discovered == Touching(rows, st.frontier) \ st.edges
           taken == Oldest(discovered, remaining)
           frontier == NextFrontier(rows, taken, st.visited)
           new == Hop(rows, st, n + 1, max_edges)
<1>1. /\ st \in Traversals(rows) /\ st.reached = n /\ ~st.truncated /\ st.edges = R(n)
      /\ Cardinality(st.edges) <= max_edges /\ ~(Cardinality(st.edges) >= max_edges)
      /\ st.visited = B(n) /\ st.frontier \subseteq B(n)
      /\ Touching(rows, B(n) \ st.frontier) \subseteq R(n)
  BY DEF Come, Stops
<1>2. /\ new \in Traversals(rows)
      /\ new.edges = R(n) \cup taken /\ new.frontier = frontier
      /\ new.visited = B(n) \cup frontier
      /\ new.reached = (IF taken = {} THEN n ELSE n + 1)
      /\ new.truncated = (Cardinality(discovered) > remaining)
  <2>1. new \in Traversals(rows)
    BY <1>1, HopTyped
  <2> QED BY <1>1, <2>1 DEF Hop
<1>3. /\ R(n) \subseteq R(n + 1) /\ R(n + 1) \subseteq DOMAIN rows /\ n + 1 \in Nat
      /\ R(n - 1) \subseteq R(n) /\ (n + 1) - 1 = n
  BY ReachGrows
<1>4. R(n + 1) = Touching(rows, B(n))
  BY <1>3 DEF InReach
<1>5. discovered = R(n + 1) \ R(n)
  <2>1. Touching(rows, B(n)) =
        Touching(rows, st.frontier) \cup Touching(rows, B(n) \ st.frontier)
    BY <1>1 DEF Touching
  <2> QED BY <1>1, <1>4, <2>1
<1>6. B(n + 1) = B(n) \cup UNION {Ends(rows[i]) : i \in R(n + 1)}
  BY <1>4, BallsSteps
<1>7. UNION {Ends(rows[i]) : i \in R(n)} \subseteq B(n)
  <2>1. CASE n = 0
    BY <2>1 DEF InReach
  <2>2. CASE n # 0
    <3>1. n - 1 \in Nat /\ (n - 1) + 1 = n /\ ~(n <= 0)
      BY <2>2
    <3>2. B(n) = B(n - 1) \cup UNION {Ends(rows[i]) : i \in Touching(rows, B(n - 1))}
      BY <3>1, BallsSteps
    <3>3. R(n) = Touching(rows, B(n - 1))
      BY <3>1 DEF InReach
    <3> QED BY <3>2, <3>3
  <2> QED BY <2>1, <2>2
<1>8. /\ frontier = (UNION {Ends(rows[i]) : i \in taken}) \ B(n)
      /\ taken \subseteq discovered
  BY <1>1 DEF NextFrontier, Oldest
<1>9. /\ IsFiniteSet(R(n)) /\ IsFiniteSet(R(n + 1)) /\ IsFiniteSet(discovered)
      /\ IsFiniteSet(taken) /\ discovered \in SUBSET Nat
      /\ Cardinality(R(n)) \in Nat /\ Cardinality(discovered) \in Nat
      /\ Cardinality(taken) \in Nat
      /\ Cardinality(R(n + 1)) = Cardinality(R(n)) + Cardinality(discovered)
      /\ Cardinality(R(n) \cup taken) = Cardinality(R(n)) + Cardinality(taken)
  <2> HIDE DEF R, taken, discovered
  <2>1. IsFiniteSet(DOMAIN rows) /\ DOMAIN rows \subseteq Nat
    BY RowsFinite
  <2>2. IsFiniteSet(R(n)) /\ IsFiniteSet(R(n + 1)) /\ IsFiniteSet(discovered)
        /\ discovered \in SUBSET Nat
    BY <1>3, <1>5, <2>1, FS_Subset
  <2>3. IsFiniteSet(taken)
    BY <1>8, <2>2, FS_Subset
  <2>4. R(n + 1) = R(n) \cup discovered /\ R(n) \cap discovered = {} /\ R(n) \cap taken = {}
    BY <1>3, <1>5, <1>8
  <2>5. ASSUME NEW S, NEW U, IsFiniteSet(S), IsFiniteSet(U), S \cap U = {}
        PROVE  Cardinality(S \cup U) = Cardinality(S) + Cardinality(U)
    <3>1. Cardinality(S \cup U) =
          Cardinality(S) + Cardinality(U) - Cardinality(S \cap U)
      BY <2>5, FS_Union
    <3>2. Cardinality(S \cap U) = 0
      BY <2>5, FS_EmptySet
    <3>3. Cardinality(S) \in Nat /\ Cardinality(U) \in Nat
      BY <2>5, FS_CardinalityType
    <3> QED BY <3>1, <3>2, <3>3
  <2> QED BY <2>2, <2>3, <2>4, <2>5, FS_CardinalityType
<1>10. remaining \in Nat \ {0} /\ Cardinality(R(n)) + remaining = max_edges
  BY <1>1, <1>9
<1> HIDE DEF R, B, remaining, discovered, taken, frontier, new
<1>11. CASE Cardinality(discovered) > remaining
  <2>1. Cardinality(taken) = remaining
    BY <1>9, <1>10, <1>11, OldestFill DEF taken
  <2>2. taken # {}
    BY <1>10, <2>1, FS_EmptySet
  <2>3. new.reached = n + 1 /\ new.truncated
    BY <1>2, <1>11, <2>2
  <2>4. new.edges \subseteq R(n + 1) /\ R(n) \subseteq new.edges
    BY <1>2, <1>3, <1>5, <1>8
  <2>5. Cardinality(new.edges) = max_edges
    BY <1>2, <1>9, <1>10, <2>1
  <2>6. new.edges # R(n + 1)
    BY <1>9, <1>10, <1>11, <2>5
  <2>7. R((n + 1) - 1) \subseteq new.edges /\ Cardinality(new.edges) <= max_edges
        /\ n + 1 \in 0..(n + 1)
    BY <1>3, <2>4, <2>5
  <2>8. Stops(new, max_edges)
    BY <2>3 DEF Stops
  <2> QED BY <1>2, <2>3, <2>4, <2>5, <2>6, <2>7, <2>8 DEF Come, R, new
<1>12. CASE ~(Cardinality(discovered) > remaining)
  <2>1. taken = discovered
    BY <1>9, <1>10, <1>12, OldestAll DEF taken
  <2>2. new.edges = R(n + 1) /\ ~new.truncated
    BY <1>2, <1>3, <1>5, <1>12, <2>1
  <2>3. new.visited = B(n + 1)
    <3>1. R(n + 1) = R(n) \cup taken
      BY <1>3, <1>5, <2>1
    <3>2. UNION {Ends(rows[i]) : i \in R(n + 1)} =
          (UNION {Ends(rows[i]) : i \in R(n)}) \cup UNION {Ends(rows[i]) : i \in taken}
      BY <3>1
    <3> QED BY <1>2, <1>6, <1>7, <1>8, <3>2
  <2>4. Cardinality(new.edges) <= max_edges
    BY <1>9, <1>10, <1>12, <2>2
  <2>5. new.frontier = {} => B(n + 1) = B(n)
    BY <1>2, <2>3
  <2>6. new.frontier = {} => \A k \in Nat : k >= n + 1 => R(k) = R(n + 1)
    BY <2>5, NothingFurther DEF R, B
  <2>7. CASE taken = {}
    <3>1. new.reached = n /\ R(n + 1) = R(n) /\ new.frontier = {}
      <4>1. R(n + 1) = R(n)
        BY <1>3, <1>5, <2>1, <2>7
      <4>2. UNION {Ends(rows[i]) : i \in taken} = {}
        BY <2>7
      <4> QED BY <1>2, <1>8, <2>7, <4>1, <4>2
    <3>2. \A k \in Nat : k >= n => R(k) = R(n)
      <4>1. \A k \in Nat : k >= n => k = n \/ k >= n + 1
        OBVIOUS
      <4> QED BY <2>6, <3>1, <4>1
    <3>3. Stops(new, max_edges)
      BY <3>1 DEF Stops
    <3>4. R(n - 1) \subseteq new.edges /\ n \in 0..(n + 1)
      BY <1>3, <2>2, <3>1
    <3> QED BY <1>2, <2>2, <2>4, <3>1, <3>2, <3>3, <3>4 DEF Come, R, new
  <2>8. CASE taken # {}
    <3>1. new.reached = n + 1 /\ n + 1 \in 0..(n + 1)
      BY <1>2, <2>8
    <3>2. new.frontier \subseteq new.visited
      BY <1>2
    <3>3. Touching(rows, new.visited \ new.frontier) \subseteq new.edges
      <4>1. new.visited \ new.frontier \subseteq B(n)
        BY <1>2
      <4> QED BY <1>4, <2>2, <4>1 DEF Touching
    <3>4. R((n + 1) - 1) \subseteq new.edges
      BY <1>3, <2>2
    <3> QED BY <1>2, <2>2, <2>3, <2>4, <2>6, <3>1, <3>2, <3>3, <3>4 DEF Come, R, B, new
  <2> QED BY <2>7, <2>8
<1> QED BY <1>11, <1>12

\* Come holds after any number of hops.
LEMMA HopsCome ==
    ASSUME NEW rows \in Seq(Relationships), NEW seed \in Nodes, NEW max_edges \in Nat
    PROVE  \A n \in Nat : Come(rows, seed, max_edges, n, Hops(rows, seed, max_edges)[n])
<1> DEFINE H(n) == Hops(rows, seed, max_edges)[n]
           T == {n \in Nat : Come(rows, seed, max_edges, n, H(n))}
<1>1. H(0) = AtSeed(seed) /\ \A n \in Nat :
          H(n + 1) = IF Stops(H(n), max_edges) THEN H(n) ELSE Hop(rows, H(n), n + 1, max_edges)
  BY HopsSteps
<1> HIDE DEF H
<1>2. 0 \in T
  BY <1>1, ComesToStart
<1>3. ASSUME NEW n \in T PROVE n + 1 \in T
  <2>1. n \in Nat /\ n + 1 \in Nat /\ Come(rows, seed, max_edges, n, H(n))
    OBVIOUS
  <2>2. CASE Stops(H(n), max_edges)
    <3>1. H(n + 1) = H(n)
      BY <1>1, <2>1, <2>2
    <3>2. H(n).reached \in 0..(n + 1)
      BY <2>1 DEF Come
    <3>3. Come(rows, seed, max_edges, n + 1, H(n))
      BY <2>1, <2>2, <3>2 DEF Come
    <3> QED BY <2>1, <3>1, <3>3
  <2>3. CASE ~Stops(H(n), max_edges)
    <3>1. H(n + 1) = Hop(rows, H(n), n + 1, max_edges)
      BY <1>1, <2>1, <2>3
    <3> QED BY <2>1, <2>3, <3>1, ComesToHop
  <2> QED BY <2>2, <2>3
<1>4. T \in SUBSET Nat
  OBVIOUS
<1> HIDE DEF T
<1>5. T = Nat
  BY <1>2, <1>3, <1>4, AllNumbers
<1> QED BY <1>5 DEF T, H

\* A traversal is exact, of any rows, from any entity, to any depth and for any limit.
LEMMA TraversalsExact ==
    ASSUME NEW rows \in Seq(Relationships), NEW seed \in Nodes, NEW max_edges \in Nat,
           NEW depth \in Nat
    PROVE  Exact(rows, seed, depth, max_edges)
<1> DEFINE got == traverse_graph(rows, seed, depth, max_edges)
           all == InReach(rows, seed, depth)
<1>1. Come(rows, seed, max_edges, depth, got)
  BY HopsCome DEF traverse_graph
<1> HIDE DEF got
<1>2. /\ got.reached \in 0..depth /\ got.truncated \in BOOLEAN
      /\ Cardinality(got.edges) <= max_edges
      /\ InReach(rows, seed, got.reached - 1) \subseteq got.edges
      /\ got.edges \subseteq InReach(rows, seed, got.reached)
      /\ got.truncated => /\ got.edges # InReach(rows, seed, got.reached)
                          /\ Cardinality(got.edges) = max_edges
      /\ ~got.truncated => got.edges = InReach(rows, seed, got.reached)
  BY <1>1 DEF Come, Traversals
<1>3. InReach(rows, seed, got.reached) \subseteq all /\ all \subseteq DOMAIN rows
  BY <1>2, ReachGrows
<1>4. IsFiniteSet(all) /\ IsFiniteSet(got.edges)
  <2> HIDE DEF all
  <2>1. IsFiniteSet(all)
    BY <1>3, RowsFinite, FS_Subset
  <2> QED BY <1>2, <1>3, <2>1, FS_Subset
<1>5. got.edges \subseteq all
  BY <1>2, <1>3
<1>6. /\ Cardinality(got.edges) <= Cardinality(all)
      /\ Cardinality(got.edges) = Cardinality(all) => got.edges = all
  <2> HIDE DEF all
  <2> QED BY <1>4, <1>5, FS_Subset
<1>7. Cardinality(all) \in Nat /\ Cardinality(got.edges) \in Nat
  BY <1>4, FS_CardinalityType
<1>8. got.truncated => got.edges # all
  BY <1>2, <1>3
<1>9. got.edges = all \/ Cardinality(got.edges) = max_edges
  <2> SUFFICES ASSUME ~got.truncated, Cardinality(got.edges) # max_edges
               PROVE  got.edges = all
    BY <1>2
  <2>1. CASE got.frontier = {}
    <3>1. depth >= got.reached
      BY <1>2
    <3> QED BY <1>1, <1>2, <2>1, <3>1 DEF Come
  <2>2. CASE got.frontier # {}
    <3>1. ~Stops(got, max_edges)
      BY <1>2, <1>7, <2>2 DEF Stops
    <3>2. got.reached = depth
      BY <1>1, <3>1 DEF Come
    <3> QED BY <1>2, <3>2
  <2> QED BY <2>1, <2>2
<1>10. Cardinality(got.edges) =
           IF Cardinality(all) > max_edges THEN max_edges ELSE Cardinality(all)
  <2> HIDE DEF all
  <2> QED BY <1>2, <1>6, <1>7, <1>9
<1> QED BY <1>2, <1>5, <1>8, <1>10 DEF Exact, got

\* Relationships are of two entities, in the order they were created.
LEMMA GraphTyped == GraphSpec => []GraphTypeOK
<1>1. GraphInit => GraphTypeOK
  BY DEF GraphInit, GraphTypeOK
<1>2. ASSUME GraphTypeOK, [GraphNext]_relationships PROVE GraphTypeOK'
  <2>1. ASSUME NEW source \in Nodes, NEW target \in Nodes, create_relationship(source, target)
        PROVE  GraphTypeOK'
    <3>1. [source |-> source, target |-> target] \in Relationships
      BY DEF Relationships
    <3> QED BY <1>2, <2>1, <3>1 DEF create_relationship, GraphTypeOK
  <2>2. CASE UNCHANGED relationships
    BY <1>2, <2>2 DEF GraphTypeOK
  <2> QED BY <1>2, <2>1, <2>2 DEF GraphNext
<1> QED BY <1>1, <1>2, PTL DEF GraphSpec

\* Whatever was related, and whatever depth and limit are asked for, a traversal shows
\* exactly what it may (traverse_graph, whose query asks for one more row than fits).
THEOREM TraversalsAlwaysExact == GraphSpec => []TraversalExact
<1>1. GraphTypeOK => TraversalExact
  <2> SUFFICES ASSUME GraphTypeOK, NEW depth \in 1..MaxDepth,
                      NEW max_edges \in 1..MaxRelationships
               PROVE  Exact(relationships, Seed, depth, max_edges)
    BY DEF TraversalExact
  <2>1. depth \in Nat /\ max_edges \in Nat /\ Seed \in Nodes
    BY GraphAssumption
  <2> QED BY <2>1, TraversalsExact DEF GraphTypeOK
<1> QED BY <1>1, GraphTyped, PTL
=============================================================================
