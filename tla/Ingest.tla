------------------------------- MODULE Ingest -------------------------------
(***************************************************************************)
(* The ingest pipeline (app/ingest/pipeline.py): a run fetches one feed    *)
(* and merges its records into the catalogue of vulnerabilities and the    *)
(* table of exploits, all in one transaction of the request that asked for *)
(* it (app/api/v1/admin.py).  Runs of different feeds may overlap.         *)
(*                                                                         *)
(* A record's row is read without a lock, merged in memory, and flushed by *)
(* the query for the next record; the flush writes the columns that differ *)
(* from what was read and keeps the row locked until the run commits.  Two *)
(* runs that have a row in hand at once therefore lose updates: raced says *)
(* of which vulnerabilities that can have happened.                        *)
(*                                                                         *)
(* Columns that are treated alike stand for each other: text for the title,*)
(* description, vendor and dates, sources also for the list of CPEs.  Of a *)
(* committed run only the fact is kept that it has a row in source_runs.   *)
(***************************************************************************)
EXTENDS Integers, Sequences, FiniteSets

CONSTANTS
    Slots,      \* runs under way at a time
    Feeds,      \* the feeds that are ingested, of nvd, cisa_kev, osv and exploitdb
    Vulns,      \* CVE ids
    Scores,     \* CVSS scores in tenths
    Exploits,   \* exploit records of the exploit feed
    cve_ids,    \* the CVEs each of them names, in order
    Unread,     \* a row a run has not loaded
    Absent,     \* a row that does not exist
    None,       \* a column without a value
    MaxRuns     \* bound: runs started

ASSUME IngestAssumption ==
    /\ Scores \subseteq 0..100
    /\ cve_ids \in [Exploits -> Seq(Vulns)]
    /\ Feeds \subseteq {"nvd", "cisa_kev", "osv", "exploitdb"}
    /\ MaxRuns \in Nat

VARIABLES
    catalogue,   \* the rows of vulnerabilities, and of exploits
    run,         \* the runs under way
    started,     \* how many have been started
    recorded,    \* how many have a row in source_runs
    delivered,   \* history: <<feed, vulnerability>> that a committed run has merged
    raced        \* history: vulnerabilities two runs had in hand at once

vars == <<catalogue, run, started, recorded, delivered, raced>>

VulnFeeds == Feeds \ {"exploitdb"}
Maturities == {"unknown", "poc", "weaponized"}
Severities == {"none", "low", "medium", "high", "critical"}
VulnRows ==
    [text : {"known", None}, score : Scores \cup {None}, severity : Severities \cup {None},
     kev : BOOLEAN, maturity : Maturities, sources : SUBSET Feeds]
ExploitRows == [vuln : Vulns \cup {None}]
Keys == Vulns \cup Exploits
Rows == VulnRows \cup ExploitRows
ASSUME RowsAssumption ==
    /\ Vulns \cap Exploits = {}
    /\ Absent # Unread /\ {Absent, Unread} \cap Rows = {}
    /\ None \notin Severities

Idle == [feed |-> "none"]
Runs ==
    [feed : Feeds,
     base : [Keys -> Rows \cup {Absent, Unread}],   \* rows as they were read
     rows : [Keys -> Rows \cup {Unread}],           \* rows as the session has them
     dirty : SUBSET Keys,
     held : SUBSET Keys]

TypeOK ==
    /\ catalogue \in [Keys -> Rows \cup {Absent}]
    /\ \A v \in Vulns : catalogue[v] \in VulnRows \cup {Absent}
    /\ \A e \in Exploits : catalogue[e] \in ExploitRows \cup {Absent}
    /\ run \in [Slots -> Runs \cup {Idle}]
    /\ started \in 0..MaxRuns
    /\ recorded \in 0..started
    /\ delivered \subseteq Feeds \X Vulns
    /\ raced \subseteq Vulns

Init ==
    /\ catalogue = [k \in Keys |-> Absent]
    /\ run = [s \in Slots |-> Idle]
    /\ started = 0
    /\ recorded = 0
    /\ delivered = {}
    /\ raced = {}

-----------------------------------------------------------------------------
(* Merging a record into a row. *)

\* Mutant: the upper bound of a band belongs to it.
severity_shifted(score) ==
    CASE score = None -> None
      [] score # None /\ score = 0 -> "none"
      [] score # None /\ score \in 1..40 -> "low"
      [] score # None /\ score \in 41..70 -> "medium"
      [] score # None /\ score \in 71..90 -> "high"
      [] score # None /\ score \in 91..100 -> "critical"

severity_from_cvss(score) ==
    CASE score = None -> None
      [] score # None /\ score = 0 -> "none"
      [] score # None /\ score \in 1..39 -> "low"
      [] score # None /\ score \in 40..69 -> "medium"
      [] score # None /\ score \in 70..89 -> "high"
      [] score # None /\ score \in 90..100 -> "critical"

NewVuln == [text |-> None, score |-> None, severity |-> None, kev |-> FALSE,
            maturity |-> "unknown", sources |-> {}]

\* What the feeds say of a CVE: NVD may know its score, KEV is the list of those
\* that are exploited, OSV knows neither.
RecordsOf(feed) ==
    [feed : {feed}, text : {"known", None}, kev : {feed = "cisa_kev"},
     score : IF feed = "nvd" THEN Scores \cup {None} ELSE {None}]

\* Mutant: a missing value replaces a known one.
MergedBlindly(row, r) ==
    [text |-> r.text,
     score |-> IF r.score = None THEN row.score ELSE r.score,
     severity |-> IF r.score = None THEN row.severity ELSE severity_from_cvss(r.score),
     kev |-> row.kev \/ r.kev,
     maturity |-> IF r.kev THEN "weaponized" ELSE row.maturity,
     sources |-> row.sources \cup {r.feed}]

\* _upsert_vulnerability.  A known value is never overwritten with a missing one.
Merged(row, r) ==
    [text |-> IF r.text = None THEN row.text ELSE r.text,
     score |-> IF r.score = None THEN row.score ELSE r.score,
     severity |-> IF r.score = None THEN row.severity ELSE severity_from_cvss(r.score),
     kev |-> row.kev \/ r.kev,
     maturity |-> IF r.kev THEN "weaponized" ELSE row.maturity,
     sources |-> row.sources \cup {r.feed}]

\* Mutant: a new row counts as one that has been looked at.
EscalatedFromPoc(row) == [row EXCEPT !.maturity = IF @ = "poc" THEN "weaponized" ELSE @]

\* _upsert_exploit, on the vulnerability it is linked to.
Escalated(row) == [row EXCEPT !.maturity = IF @ = "unknown" THEN "poc" ELSE @]

\* What a flush writes: the columns that differ from what was read.
Written(now, base, mine) ==
    IF base = Absent THEN mine
    ELSE [c \in DOMAIN mine |-> IF mine[c] = base[c] THEN now[c] ELSE mine[c]]

-----------------------------------------------------------------------------
(* A run. *)

\* The row as this run sees it: what it has loaded stays as it was loaded.
Loaded(s, k) == run[s].rows[k] # Unread
Seen(s, k) == IF Loaded(s, k) THEN run[s].rows[k] ELSE catalogue[k]
BaseOf(s, k) == IF Loaded(s, k) THEN run[s].base[k] ELSE catalogue[k]

\* Whether another run has the vulnerability in hand.
Racing(s, v) == \E t \in Slots \ {s} : run[t] # Idle /\ Loaded(t, v)

Start(s, feed) ==
    /\ run[s] = Idle
    /\ started < MaxRuns
    /\ started' = started + 1
    /\ run' = [run EXCEPT ![s] =
          [feed |-> feed,
           base |-> [k \in Keys |-> Unread],
           rows |-> [k \in Keys |-> Unread],
           dirty |-> {}, held |-> {}]]
    /\ UNCHANGED <<catalogue, recorded, delivered, raced>>

\* The run merges new rows for some keys; those that change are written by the next flush.
Merge(s, new, dirty) ==
    /\ run' = [run EXCEPT
          ![s].base = [k \in Keys |-> IF k \in DOMAIN new THEN BaseOf(s, k) ELSE @[k]],
          ![s].rows = [k \in Keys |-> IF k \in DOMAIN new THEN new[k] ELSE @[k]],
          ![s].dirty = dirty]
    /\ raced' = raced \cup {v \in Vulns \cap DOMAIN new : Racing(s, v)}
    /\ UNCHANGED <<catalogue, started, recorded, delivered>>

\* _persist of a vulnerability.  A new row has no maturity yet, and comparing it
\* with that of the record raises: only KEV's records carry one.
PersistVuln(s, v) ==
    /\ run[s].feed \in VulnFeeds /\ run[s].dirty = {} /\ ~Loaded(s, v)
    /\ \E r \in RecordsOf(run[s].feed) :
          /\ ~(r.kev /\ catalogue[v] = Absent)
          /\ Merge(s, [k \in {v} |->
                Merged(IF catalogue[v] = Absent THEN NewVuln ELSE catalogue[v], r)], {v})

\* The places in an exploit's list of CVEs that this run finds in the catalogue.
KnownCves(s, e) == {i \in DOMAIN cve_ids[e] : Seen(s, cve_ids[e][i]) # Absent}

\* _persist of an exploit: it is linked to the first CVE that is known, and stays as
\* it is if there is none.
PersistExploit(s, e) ==
    /\ run[s].feed = "exploitdb" /\ run[s].dirty = {} /\ ~Loaded(s, e)
    /\ \/ /\ KnownCves(s, e) = {}
          /\ Merge(s, [k \in {e} |->
                IF catalogue[e] = Absent THEN [vuln |-> None] ELSE catalogue[e]], {e})
       \/ \E i \in KnownCves(s, e) :
             LET v == cve_ids[e][i] IN
             /\ \A j \in KnownCves(s, e) : i <= j
             /\ Merge(s, [k \in {e, v} |-> IF k = e THEN [vuln |-> v] ELSE Escalated(Seen(s, v))],
                      IF Escalated(Seen(s, v)) = Seen(s, v) THEN {e} ELSE {e, v})

\* Another run's uncommitted rows have to be waited for.
Waits(s, t) == s # t /\ run[s] # Idle /\ run[t] # Idle /\ run[s].dirty \cap run[t].held # {}

\* A row that was absent when it was read has been inserted by another run.
Duplicate(s) == \E k \in run[s].dirty : run[s].base[k] = Absent /\ catalogue[k] # Absent

Flush(s) ==
    /\ run[s] # Idle /\ run[s].dirty # {}
    /\ \A t \in Slots : ~Waits(s, t)
    /\ ~Duplicate(s)
    /\ run' = [run EXCEPT ![s].held = @ \cup run[s].dirty, ![s].dirty = {}]
    /\ UNCHANGED <<catalogue, started, recorded, delivered, raced>>

\* The run's session is rolled back with all it has merged, and so is the row
\* that would have told of the run.
Lost(s) ==
    /\ run' = [run EXCEPT ![s] = Idle]
    /\ UNCHANGED <<catalogue, started, recorded, delivered, raced>>

\* Exceptions that nothing turns into a failed run: a refused insert, a deadlock, and a
\* new vulnerability that KEV lists.
Refused(s) ==
    /\ run[s] # Idle
    /\ \/ (\A t \in Slots : ~Waits(s, t)) /\ Duplicate(s)
       \/ \E t \in Slots : Waits(s, t) /\ Waits(t, s)
       \/ run[s].feed = "cisa_kev" /\ run[s].dirty = {}
          /\ \E v \in Vulns : catalogue[v] = Absent /\ ~Loaded(s, v)
    /\ Lost(s)

\* The process dies, or a connector raises something that is not a ConnectorError.
Die(s) ==
    /\ run[s] # Idle
    /\ Lost(s)

\* _finish and the commit of the request, whether the feed was read to its end, broke off
\* (what was merged before is kept) or is not configured (nothing was merged).
Finish(s) ==
    /\ run[s] # Idle /\ run[s].dirty = {}
    /\ catalogue' = [k \in Keys |->
          IF k \in run[s].held
          THEN Written(catalogue[k], run[s].base[k], run[s].rows[k]) ELSE catalogue[k]]
    /\ recorded' = recorded + 1
    /\ delivered' = delivered \cup {<<run[s].feed, v>> : v \in {w \in Vulns : Loaded(s, w)}}
    /\ run' = [run EXCEPT ![s] = Idle]
    /\ UNCHANGED <<started, raced>>

Next ==
    \E s \in Slots :
        \/ \E feed \in Feeds : Start(s, feed)
        \/ \E v \in Vulns : PersistVuln(s, v)
        \/ \E e \in Exploits : PersistExploit(s, e)
        \/ Flush(s)
        \/ Refused(s)
        \/ Die(s)
        \/ Finish(s)

Spec == Init /\ [][Next]_vars

-----------------------------------------------------------------------------
(* Properties. *)

Known(v) == catalogue[v] # Absent
By(v) == {f \in Feeds : <<f, v>> \in delivered}

\* What a row says of a vulnerability when the feeds in B have delivered it.
Agrees(row, B) ==
    /\ row.sources = B \cap VulnFeeds
    /\ row.kev = ("cisa_kev" \in B)
    /\ row.maturity = IF "cisa_kev" \in B THEN "weaponized"
                      ELSE IF "exploitdb" \in B THEN "poc" ELSE "unknown"
    /\ (row.severity = "critical") = (row.score # None /\ row.score >= 90)
    /\ (row.severity = None) = (row.score = None)

\* What the catalogue says of a vulnerability that no two runs had in hand at once depends
\* only on the feeds that delivered it, not on their order: every one of them is named as
\* a source, maturity has only risen, and the severity is that of the score
\* (pipeline.py:187-202, base.py:6-7 "merged data never loses where it came from").
MergedInAnyOrder ==
    \A v \in Vulns \ raced : Known(v) => Agrees(catalogue[v], By(v))

\* However runs overlap, what is known of a vulnerability does not become unknown again,
\* and one that is known to be exploited stays so (pipeline.py:179, "Never overwrite a
\* known value with a missing one").
KnownStaysKnown ==
    [][\A v \in Vulns : Known(v) =>
          /\ catalogue'[v] # Absent
          /\ catalogue[v].text # None => catalogue'[v].text # None
          /\ catalogue[v].score # None => catalogue'[v].score # None
          /\ catalogue[v].kev => catalogue'[v].kev]_vars

\* However runs overlap, an exploit is only linked to a vulnerability that is there and
\* that shows an exploit exists (pipeline.py:228-241).
LinkedMeansExploitable ==
    \A e \in Exploits : catalogue[e] # Absent /\ catalogue[e].vuln # None =>
        Known(catalogue[e].vuln) /\ catalogue[catalogue[e].vuln].maturity # "unknown"
=============================================================================
