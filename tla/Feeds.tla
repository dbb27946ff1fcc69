------------------------------- MODULE Feeds -------------------------------
(***************************************************************************)
(* Runs of the feed connectors (app/ingest/connectors.py) as the pipeline  *)
(* drives them (app/ingest/pipeline.py, run) and as the provenance of      *)
(* answers shows them (app/services/provenance.py).  What becomes of the   *)
(* records in the catalogue is in Ingest.                                  *)
(*                                                                         *)
(* An item of a feed is what its connector can tell apart: whether the     *)
(* identifying fields are there and which id they give, whether it is      *)
(* weak (a repository that scores below the floor, a placeholder wallet, a *)
(* victim without a group), and its time stamp: missing, unreadable, not a *)
(* string, or older or newer than the start of the run.  The three leak    *)
(* sites share one normalisation.                                          *)
(***************************************************************************)
EXTENDS Integers, Sequences, FiniteSets, FiniteSetsExt

CONSTANTS
    Connectors,  \* of AllConnectors
    Ids,         \* identifiers of items
    PageSize,    \* items NVD and GitHub serve at a time
    Watched,     \* packages OSV is asked for
    MaxItems,    \* bound: items of a feed
    MaxRuns,     \* bound: runs started
    None

AllConnectors ==
    {"nvd", "cisa_kev", "cxsecurity", "github_poc", "exploitdb", "osv", "ransomware_live",
     "ransomlook", "dls_monitor", "ransomwhere"}
LeakSites == {"ransomware_live", "ransomlook", "dls_monitor"}

ASSUME FeedsAssumption ==
    /\ Connectors \subseteq AllConnectors
    /\ None \notin Ids
    /\ {PageSize, Watched} \subseteq Nat \ {0}
    /\ {MaxItems, MaxRuns} \subseteq Nat

VARIABLES
    run,       \* the run under way
    latest,    \* each connector's latest row of source_runs
    started    \* how many runs have been started

vars == <<run, latest, started>>

Items == [id : Ids \cup {None}, weak : BOOLEAN,
          stamp : {"missing", "unreadable", "foreign", "old", "new"}]
WellFormed(item) == item.id # None /\ item.stamp \in {"missing", "old", "new"}

Idle == [at |-> "idle"]
Runs ==
    [at : {"requests", "items", "raised"},
     connector : Connectors,
     since : {"none", "aware", "naive"},   \* the start that was asked for
     total : 0..MaxItems,     \* items the feed has
     requests : Nat,          \* requests answered
     offset : 0..MaxItems,    \* NVD's startIndex
     empty : BOOLEAN,         \* whether the last answer had no items
     served : 0..MaxItems,    \* items the feed has served
     page : 0..MaxItems,      \* those of the page not yet looked at
     seen : SUBSET Ids,       \* OSV's seen
     ingested : 0..MaxItems,
     quarantined : 0..MaxItems,
     passed : 0..MaxItems,    \* history: how many items were passed over
     lost : BOOLEAN,          \* history: and whether there was a malformed one among them
     short : BOOLEAN]         \* history: whether an answer left out what is not asked for again
Rows ==
    [status : {"success", "partial", "failed"}, ingested : 0..MaxItems,
     quarantined : 0..MaxItems, total : 0..MaxItems, served : 0..MaxItems, broke : BOOLEAN,
     passed : 0..MaxItems, lost : BOOLEAN, short : BOOLEAN]

TypeOK ==
    /\ run \in Runs \cup {Idle}
    /\ latest \in [Connectors -> Rows \cup {None}]
    /\ started \in 0..MaxRuns

Init ==
    /\ run = Idle
    /\ latest = [c \in Connectors |-> None]
    /\ started = 0

-----------------------------------------------------------------------------
(* What a connector makes of an item: the first of its checks that is not   *)
(* passed.  "raise" is an exception of any kind but ConnectorError.         *)

\* Connectors that compare stamps with the start; of the others NVD and GitHub have it in
\* their query.
Comparing == {"cisa_kev", "cxsecurity", "exploitdb", "osv"}

Stamp(c, item, since) ==
    CASE item.stamp = "foreign" -> "raise"
      [] item.stamp = "unreadable" -> "quarantine"
      [] item.stamp \in {"old", "new"} /\ c \in Comparing /\ since = "naive" -> "raise"
      [] item.stamp = "old" /\ c \in Comparing /\ since = "aware" -> "ignore"
      [] OTHER -> "pass"

Nameless(item, verdict) == IF item.id = None THEN verdict ELSE "pass"
Weak(item, verdict) == IF item.weak THEN verdict ELSE "pass"
Undated(item) == IF item.stamp = "missing" THEN "quarantine" ELSE "pass"
Repeated(item, seen) == IF item.id \in seen THEN "ignore" ELSE "pass"

NvdChecks(item, since) ==
    <<Nameless(item, "quarantine"), Stamp("nvd", item, since)>>

CisaKevChecks(item, since) ==
    <<Nameless(item, "quarantine"), Stamp("cisa_kev", item, since)>>

CxSecurityChecks(item, since) ==
    <<Nameless(item, "quarantine"), Stamp("cxsecurity", item, since)>>

\* A weak repository scores too little to be taken for an exploit.
GithubPocChecks(item, since) ==
    <<Nameless(item, "quarantine"), Weak(item, "ignore"), Stamp("github_poc", item, since)>>

\* A row that is too old is passed over before its columns are looked at.
ExploitDbChecks(item, since) ==
    <<Stamp("exploitdb", item, since), Nameless(item, "quarantine")>>

OsvChecks(item, since, seen) ==
    <<Nameless(item, "ignore"), Repeated(item, seen), Stamp("osv", item, since)>>

\* Mutant: victims without a group are passed over.
LenientVictimChecks(c, item, since) ==
    <<Nameless(item, "quarantine"), Weak(item, "ignore"), Stamp(c, item, since), Undated(item)>>

\* _victim_record: a weak victim names no group.
VictimChecks(c, item, since) ==
    <<Nameless(item, "quarantine"), Weak(item, "quarantine"), Stamp(c, item, since),
      Undated(item)>>

\* A weak address looks like seed data.
RansomwhereChecks(item, since) ==
    <<Nameless(item, "quarantine"), Weak(item, "quarantine"), Stamp("ransomwhere", item, since)>>

Checks(c, item, since, seen) ==
    CASE c = "nvd" -> NvdChecks(item, since)
      [] c = "cisa_kev" -> CisaKevChecks(item, since)
      [] c = "cxsecurity" -> CxSecurityChecks(item, since)
      [] c = "github_poc" -> GithubPocChecks(item, since)
      [] c = "exploitdb" -> ExploitDbChecks(item, since)
      [] c = "osv" -> OsvChecks(item, since, seen)
      [] c \in LeakSites -> VictimChecks(c, item, since)
      [] c = "ransomwhere" -> RansomwhereChecks(item, since)

Verdict(checks) ==
    LET failed == {i \in DOMAIN checks : checks[i] # "pass"}
    IN  IF failed = {} THEN "record" ELSE checks[Min(failed)]

\* Text feeds have no stamps that are not strings; only some items can be weak.
ItemsOf(c) ==
    {item \in Items :
        /\ c \in {"cxsecurity", "exploitdb"} => item.stamp # "foreign"
        /\ c \notin LeakSites \cup {"github_poc", "ransomwhere"} => ~item.weak}

-----------------------------------------------------------------------------
(* A run. *)

\* Connectors whose credential may be missing.
Keyed == {"github_poc", "ransomware_live"}

\* _finish, and the commit of the request.
Record(r, status, broke) ==
    latest' = [latest EXCEPT ![r.connector] =
        [status |-> status, ingested |-> r.ingested, quarantined |-> r.quarantined,
         total |-> r.total, served |-> r.served, broke |-> broke, passed |-> r.passed,
         lost |-> r.lost, short |-> r.short]]

NewRun(c, since, total) ==
    [at |-> "requests", connector |-> c, since |-> since, total |-> total, requests |-> 0,
     offset |-> 0, empty |-> FALSE, served |-> 0, page |-> 0, seen |-> {}, ingested |-> 0,
     quarantined |-> 0, passed |-> 0, lost |-> FALSE, short |-> FALSE]

Start(c, since) ==
    /\ run = Idle /\ started < MaxRuns
    /\ started' = started + 1
    /\ \/ \E total \in 0..MaxItems : run' = NewRun(c, since, total) /\ latest' = latest
       \/ /\ c \in Keyed
          /\ run' = Idle
          /\ Record(NewRun(c, since, 0), "failed", TRUE)

\* Whether the connector asks its feed for more.
Asks ==
    CASE run.connector = "nvd" -> run.requests = 0 \/ (~run.empty /\ run.offset < run.total)
      [] run.connector = "osv" -> run.requests < Watched
      [] OTHER -> run.requests = 0

\* How many items the answer may have.  NVD serves a page at most, and what it announced
\* may not all come; of GitHub's search one page is read; an answer that lacks its list is
\* taken for an empty one whoever sends it (data.get("vulns", [])).
Answers ==
    CASE run.connector = "nvd" -> 0..Min({PageSize, run.total - run.offset})
      [] run.connector = "github_poc" -> {0, Min({PageSize, run.total})}
      [] run.connector = "osv" -> 0..(run.total - run.served)
      [] OTHER -> {0, run.total}

\* An answer of n items that leaves out some the connector will not ask for again.
Short(n) ==
    /\ run.served + n < run.total
    /\ run.connector = "nvd" => n = 0
    /\ run.connector = "osv" => run.requests = Watched - 1

\* Mutant: the offset goes on by whole pages.
AdvanceByPage(n) == Min({run.offset + PageSize, MaxItems})

Advance(n) == run.offset + n

Request ==
    /\ run # Idle /\ run.at = "requests" /\ Asks
    /\ \E n \in Answers :
          run' = [run EXCEPT !.at = "items", !.requests = @ + 1, !.page = n,
                             !.served = @ + n, !.offset = Advance(n),
                             !.empty = n = 0, !.short = @ \/ Short(n)]
    /\ UNCHANGED <<latest, started>>

\* Connectors that fail on JSON which is no object, or no object or list: the others read
\* text or look what they were sent.
Unguarded == {"nvd", "cisa_kev", "github_poc", "osv", "ransomware_live", "dls_monitor",
              "ransomwhere"}

\* The error this raises is no ConnectorError.
AnswerRaises ==
    /\ run # Idle /\ run.at = "requests" /\ Asks
    /\ run.connector \in Unguarded
    /\ run' = [run EXCEPT !.at = "raised"]
    /\ UNCHANGED <<latest, started>>

\* ConnectorError: what was merged before is kept.
RequestFails ==
    /\ run # Idle /\ run.at = "requests" /\ Asks
    /\ Record(run, "failed", TRUE)
    /\ run' = Idle
    /\ UNCHANGED started

Handle ==
    /\ run # Idle /\ run.at = "items" /\ run.page > 0
    /\ \E item \in ItemsOf(run.connector) :
          LET verdict == Verdict(Checks(run.connector, item, run.since, run.seen)) IN
          run' = IF verdict = "raise" THEN [run EXCEPT !.at = "raised"] ELSE
              [run EXCEPT
                  !.page = @ - 1,
                  !.seen = IF run.connector = "osv" THEN @ \cup ({item.id} \ {None}) ELSE @,
                  !.ingested = IF verdict = "record" THEN @ + 1 ELSE @,
                  !.quarantined = IF verdict = "quarantine" THEN @ + 1 ELSE @,
                  !.passed = IF verdict = "ignore" THEN @ + 1 ELSE @,
                  !.lost = @ \/ (verdict = "ignore" /\ ~WellFormed(item))]
    /\ UNCHANGED <<latest, started>>

\* An exception that is no ConnectorError leaves the pipeline; get_db rolls back the row of
\* the run and all it stored.
Unwind ==
    /\ run # Idle /\ run.at = "raised"
    /\ run' = Idle
    /\ UNCHANGED <<latest, started>>

PageDone ==
    /\ run # Idle /\ run.at = "items" /\ run.page = 0
    /\ run' = [run EXCEPT !.at = "requests"]
    /\ UNCHANGED <<latest, started>>

\* The end of the feed.
Finish ==
    /\ run # Idle /\ run.at = "requests" /\ ~Asks
    /\ Record(run, IF run.quarantined > 0 THEN "partial" ELSE "success", FALSE)
    /\ run' = Idle
    /\ UNCHANGED started

Next ==
    \/ \E c \in Connectors, since \in {"none", "aware", "naive"} : Start(c, since)
    \/ Request
    \/ RequestFails
    \/ AnswerRaises
    \/ Handle
    \/ Unwind
    \/ PageDone
    \/ Finish

Spec == Init /\ [][Next]_vars

-----------------------------------------------------------------------------
(* build_provenance. *)

sources_included == {c \in Connectors : latest[c] # None /\ latest[c].status = "success"}

-----------------------------------------------------------------------------
(* Properties. *)

\* OSV passes over items without an id, Exploit-DB old rows and GitHub weak repositories
\* before they have been checked, whatever base.py:8-10 promises of all connectors.
Careful == AllConnectors \ {"osv", "exploitdb", "github_poc"}

\* base.py:8-10: "Bad records are quarantined, not dropped".  No run of the connectors that
\* check an item before they pass it over has come past a malformed one without a trace,
\* also if it has yet to finish or will end with an exception.
MalformedIsParked ==
    /\ run # Idle /\ run.connector \in Careful => ~run.lost
    /\ \A c \in Connectors \cap Careful : latest[c] # None => ~latest[c].lost

\* A feed that answers are said to rest on broke nothing off in its latest run on record,
\* each item it served was ingested or passed over, and that is all it had, if only its
\* answers left out nothing that the connector will not ask for again.
IncludedUnlessShort ==
    \A c \in sources_included :
        /\ ~latest[c].broke
        /\ latest[c].ingested + latest[c].passed = latest[c].served
        /\ latest[c].short \/ latest[c].served = latest[c].total
=============================================================================
