------------------------------- MODULE Alerts -------------------------------
(***************************************************************************)
(* Alerts (app/workers/alert_evaluation.py, app/api/v1/alerting.py): an    *)
(* evaluation goes through the candidates of all rules in one transaction, *)
(* a client posts one alert in one, and both count a repeated trigger as   *)
(* an occurrence of an alert that is there.                                *)
(*                                                                         *)
(* A subject is a rule with an entity; which candidates an evaluation      *)
(* finds is left open.  The fingerprint of an alert is its subject, its    *)
(* severity and the hour, and is unique.  An evaluation first looks for an *)
(* alert of the subject, of whatever severity, that was triggered within   *)
(* the cooldown; the severity of what it raises is the rule's, that of a   *)
(* post the client's choice.  Rows that a transaction has written are seen *)
(* by others when it commits, and are locked until then.                   *)
(***************************************************************************)
EXTENDS Integers, FiniteSets, TLC

CONSTANTS
    Subjects,
    Severities,
    RuleSeverity, \* the severity of each subject's rule
    Evaluators,   \* evaluation workers
    Posters,      \* requests to POST /alerts
    Hour,         \* ticks of the clock in one bucket of the fingerprint
    Cooldown,     \* cooldown_minutes, in ticks
    MaxDelay,     \* ticks a transaction may last
    MaxMoment,    \* bound: the clock
    MaxBegun,     \* bound: transactions begun
    NoAlert       \* no such row

ASSUME AlertsAssumption ==
    /\ Hour \in Nat \ {0}
    /\ RuleSeverity \in [Subjects -> Severities]
    /\ {Cooldown, MaxDelay, MaxMoment, MaxBegun} \subseteq Nat
    /\ Evaluators \cap Posters = {}

VARIABLES
    time,
    alerts,       \* the committed rows, by fingerprint
    tx,           \* the transaction of each evaluation and post
    begun,        \* how many transactions have begun
    triggers,     \* history: committed triggers of each subject
    overlapped    \* history: two evaluations have been under way at once

alertVars == <<time, alerts, tx, begun, triggers, overlapped>>

Actors == Evaluators \cup Posters
Moments == 0..MaxMoment
Fingerprints == Subjects \X Severities \X (0..(MaxMoment \div Hour))
AlertRows ==
    [first : Moments, last : Moments, occurrences : Nat, acknowledged : BOOLEAN,
     by : {"evaluation", "post"}]
ASSUME AlertRowsAssumption == NoAlert \notin AlertRows

NoTransaction == [at |-> "idle"]
Transactions ==
    [at : {"next", "lock", "insert", "count"},
     now : Moments,
     todo : [Subjects -> Nat],                \* candidates left
     subject : Subjects,                      \* the one in hand
     severity : Severities,                   \* and how severe its trigger is
     seen : SUBSET Fingerprints,              \* its alerts within the cooldown
     written : [Fingerprints -> AlertRows \cup {NoAlert}],  \* rows it has written
     done : [Subjects -> Nat]]                \* triggers it has counted

AlertsTypeOK ==
    /\ time \in Moments
    /\ alerts \in [Fingerprints -> AlertRows \cup {NoAlert}]
    /\ tx \in [Actors -> Transactions \cup {NoTransaction}]
    /\ begun \in 0..MaxBegun
    /\ triggers \in [Subjects -> Nat]
    /\ overlapped \in BOOLEAN

AlertsInit ==
    /\ time = 0
    /\ alerts = [k \in Fingerprints |-> NoAlert]
    /\ tx = [a \in Actors |-> NoTransaction]
    /\ begun = 0
    /\ triggers = [s \in Subjects |-> 0]
    /\ overlapped = FALSE

-----------------------------------------------------------------------------
(* Rows and locks. *)

alert_fingerprint(s, severity, now) == <<s, severity, now \div Hour>>
FingerprintOf(a) == alert_fingerprint(tx[a].subject, tx[a].severity, tx[a].now)

Busy(a) == tx[a] # NoTransaction
Written(a, k) == Busy(a) /\ tx[a].written[k] # NoAlert
HeldByOther(a, k) == \E b \in Actors \ {a} : Written(b, k)

\* A row as the transaction of a sees it.
Row(a, k) == IF Written(a, k) THEN tx[a].written[k] ELSE alerts[k]
RowExists(a, k) == Row(a, k) # NoAlert

NewAlert(a) ==
    [first |-> tx[a].now, last |-> tx[a].now, occurrences |-> 1, acknowledged |-> FALSE,
     by |-> IF a \in Evaluators THEN "evaluation" ELSE "post"]
Triggered(row, now) == [row EXCEPT !.occurrences = @ + 1, !.last = now]

Recent(a, k) == RowExists(a, k) /\ Row(a, k).last >= tx[a].now - Cooldown

-----------------------------------------------------------------------------
(* Transactions. *)

Begin(a, todo, at, s, severity) ==
    /\ ~Busy(a) /\ begun < MaxBegun
    /\ begun' = begun + 1
    /\ tx' = [tx EXCEPT ![a] =
          [at |-> at, now |-> time, todo |-> todo, subject |-> s, severity |-> severity,
           seen |-> {}, written |-> [k \in Fingerprints |-> NoAlert],
           done |-> [t \in Subjects |-> 0]]]
    /\ UNCHANGED <<time, alerts, triggers>>

\* evaluate.  A subject may be found twice: kev_exposure has a candidate per exposure.
BeginEvaluation(e) ==
    /\ \E todo \in [Subjects -> 0..2], s \in Subjects : 
          Begin(e, todo, "next", s, RuleSeverity[s])
    /\ overlapped' = (overlapped \/ \E f \in Evaluators \ {e} : Busy(f))

\* create_alert.
BeginPost(p) ==
    /\ \E s \in Subjects, severity \in Severities :
          Begin(p, [t \in Subjects |-> 0], "insert", s, severity)
    /\ UNCHANGED overlapped

Moves(a, t) ==
    /\ tx' = [tx EXCEPT ![a] = t]
    /\ UNCHANGED <<time, alerts, begun, triggers, overlapped>>

\* Mutant: only the hour of the evaluation is looked at.
LookThisHour(e) ==
    /\ Busy(e) /\ tx[e].at = "next"
    /\ \E s \in Subjects :
          LET k == alert_fingerprint(s, RuleSeverity[s], tx[e].now)
              seen == IF Recent(e, k) THEN {k} ELSE {} IN
          /\ tx[e].todo[s] > 0
          /\ Moves(e, [tx[e] EXCEPT !.todo[s] = @ - 1, !.subject = s,
                                    !.severity = RuleSeverity[s], !.seen = seen,
                                    !.at = IF seen = {} THEN "insert" ELSE "lock"])

\* _aggregate up to the lock: the alerts of a candidate's subject within the cooldown,
\* also those of another severity than the candidate's.
Look(e) ==
    /\ Busy(e) /\ tx[e].at = "next"
    /\ \E s \in Subjects :
          LET seen == {k \in Fingerprints : k[1] = s /\ Recent(e, k)} IN
          /\ tx[e].todo[s] > 0
          /\ Moves(e, [tx[e] EXCEPT !.todo[s] = @ - 1, !.subject = s,
                                    !.severity = RuleSeverity[s], !.seen = seen,
                                    !.at = IF seen = {} THEN "insert" ELSE "lock"])

Counted(a, k, row) ==
    Moves(a, [tx[a] EXCEPT !.written[k] = row, !.done[tx[a].subject] = @ + 1,
                           !.at = "next", !.seen = {}])

\* All of them are locked, and the latest counts the trigger.  The condition is checked
\* again on a row that had to be waited for.
LockSeen(e) ==
    LET still == {k \in tx[e].seen : Recent(e, k)} IN
    /\ Busy(e) /\ tx[e].at = "lock"
    /\ \A k \in tx[e].seen : ~HeldByOther(e, k)
    /\ \/ /\ still = {}
          /\ Moves(e, [tx[e] EXCEPT !.at = "insert", !.seen = {}])
       \/ \E k \in still :
             /\ \A j \in still : Row(e, j).last <= Row(e, k).last
             /\ Counted(e, k, Triggered(Row(e, k), tx[e].now))

\* The insert waits for another's uncommitted row of the same fingerprint.
Insert(a) ==
    LET k == FingerprintOf(a) IN
    /\ Busy(a) /\ tx[a].at = "insert"
    /\ IF RowExists(a, k)
       THEN Moves(a, [tx[a] EXCEPT !.at = "count"])
       ELSE ~HeldByOther(a, k) /\ Counted(a, k, NewAlert(a))

\* Mutant: the row is read without a lock.
CountUnlocked(a) ==
    LET k == FingerprintOf(a) IN
    /\ Busy(a) /\ tx[a].at = "count"
    /\ Counted(a, k, Triggered(Row(a, k), tx[a].now))

\* The fingerprint is taken: its row is locked and counts the trigger.
Count(a) ==
    LET k == FingerprintOf(a) IN
    /\ Busy(a) /\ tx[a].at = "count"
    /\ ~HeldByOther(a, k)
    /\ Counted(a, k, Triggered(Row(a, k), tx[a].now))

CommitTransaction(a) ==
    /\ Busy(a) /\ tx[a].at = "next"
    /\ \A s \in Subjects : tx[a].todo[s] = 0
    /\ alerts' = [k \in Fingerprints |-> Row(a, k)]
    /\ triggers' = [s \in Subjects |-> triggers[s] + tx[a].done[s]]
    /\ tx' = [tx EXCEPT ![a] = NoTransaction]
    /\ UNCHANGED <<time, begun, overlapped>>

\* A lost connection, a condition that is no number, a deadlock of two evaluations: all
\* of it is rolled back.
AbortTransaction(a) == Busy(a) /\ Moves(a, NoTransaction)

-----------------------------------------------------------------------------

\* acknowledge_alert writes columns of its own.
Acknowledge(k) ==
    /\ alerts[k] # NoAlert /\ ~alerts[k].acknowledged
    /\ \A a \in Actors : ~Written(a, k)
    /\ alerts' = [alerts EXCEPT ![k].acknowledged = TRUE]
    /\ UNCHANGED <<time, tx, begun, triggers, overlapped>>

TimePasses ==
    /\ time < MaxMoment
    /\ \A a \in Actors : Busy(a) => time < tx[a].now + MaxDelay
    /\ time' = time + 1
    /\ UNCHANGED <<alerts, tx, begun, triggers, overlapped>>

AlertsNext ==
    \/ \E e \in Evaluators : BeginEvaluation(e) \/ Look(e) \/ LockSeen(e)
    \/ \E p \in Posters : BeginPost(p)
    \/ \E a \in Actors : Insert(a) \/ Count(a) \/ CommitTransaction(a) \/ AbortTransaction(a)
    \/ \E k \in Fingerprints : Acknowledge(k)
    \/ TimePasses

AlertsSpec == AlertsInit /\ [][AlertsNext]_alertVars

-----------------------------------------------------------------------------
(* Properties. *)

AlertsOf(s) == {k \in Fingerprints : k[1] = s /\ alerts[k] # NoAlert}
OccurrencesOf(s) == UNION {{k} \X (1..alerts[k].occurrences) : k \in AlertsOf(s)}

\* Every trigger that was committed is counted once, by one alert of its subject, whoever
\* raised it, with whatever severity, and whatever else was under way: none is lost to an
\* update that overtakes it, to the savepoint of a refused insert, or to an acknowledgement.
OccurrencesCounted ==
    \A s \in Subjects : triggers[s] = Cardinality(OccurrencesOf(s))

\* Evaluations that do not overlap raise a subject once per cooldown, across the hours of
\* the fingerprint (alerting.py:21-24, "callers must not use a changed fingerprint as a
\* reason to create a duplicate alert").  A post can put last_triggered_at back by the time
\* it takes, so a cooldown may be that much shorter.
CooldownHolds ==
    ~overlapped =>
        \A s \in Subjects : \A j, k \in AlertsOf(s) :
            (/\ alerts[j].by = "evaluation" /\ alerts[k].by = "evaluation"
             /\ alerts[j].first < alerts[k].first) =>
            alerts[k].first - alerts[j].first > Cooldown - MaxDelay
=============================================================================
