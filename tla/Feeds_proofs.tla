---------------------------- MODULE Feeds_proofs ----------------------------
(***************************************************************************)
(* What holds of the runs of the feed connectors for feeds of any size,    *)
(* whatever their items look like and wherever a run breaks off; and of    *)
(* the correlations that are made of what is stored.                       *)
(***************************************************************************)
EXTENDS Feeds, Correlation, SequenceTheorems, TLAPS

\* All that there is has been served, but for what a short answer left out.
ServedAll(r) == r.short \/ r.served = r.total

\* A run has looked at what it was served: all of it once it asks for no more.
RunCounts(r) ==
    /\ r.offset = r.served /\ r.served <= r.total
    /\ r.ingested + r.quarantined + r.passed + r.page = r.served
    /\ r.at = "requests" => r.page = 0
    /\ r.requests = 0 => r.served = 0
    /\ r.connector = "nvd" /\ r.empty => ServedAll(r)
    /\ r.connector = "osv" =>
          r.requests <= Watched /\ (r.requests = Watched => ServedAll(r))
    /\ r.connector \notin {"nvd", "osv"} /\ r.requests # 0 => ServedAll(r)

RunParked(r) == r.connector \in Careful => ~r.lost

FeedsInv ==
    /\ TypeOK
    /\ run # Idle => RunCounts(run) /\ RunParked(run)
    /\ IncludedUnlessShort
    /\ MalformedIsParked

-----------------------------------------------------------------------------
(* Minima and verdicts. *)

\* The least of two places.
LEMMA MinOfTwo ==
    ASSUME NEW a \in Nat, NEW b \in Nat
    PROVE  Min({a, b}) = IF a <= b THEN a ELSE b
<1> DEFINE m == IF a <= b THEN a ELSE b
<1>1. m \in {a, b} /\ \A y \in {a, b} : m <= y
  OBVIOUS
<1>2. Min({a, b}) \in {a, b} /\ \A y \in {a, b} : Min({a, b}) <= y
  BY <1>1 DEF Min
<1> QED
  BY <1>2

\* Of some places there is a least.
LEMMA MinOfPlaces ==
    ASSUME NEW S \in SUBSET (1..4), S # {}
    PROVE  Min(S) \in S /\ \A y \in S : Min(S) <= y
<1>1. \E x \in S : \A y \in S : x <= y
  <2>1. CASE 1 \in S
    BY <2>1
  <2>2. CASE 1 \notin S /\ 2 \in S
    BY <2>2
  <2>3. CASE 1 \notin S /\ 2 \notin S /\ 3 \in S
    BY <2>3
  <2>4. CASE 1 \notin S /\ 2 \notin S /\ 3 \notin S
    <3>1. \A y \in S : y = 4
      <4>1. \A y \in 1..4 : y = 1 \/ y = 2 \/ y = 3 \/ y = 4
        OBVIOUS
      <4> QED
        BY <2>4, <4>1
    <3>2. PICK x \in S : TRUE
      OBVIOUS
    <3>3. x = 4 /\ \A y \in S : x <= y
      BY <3>1, <3>2
    <3> QED
      BY <3>2, <3>3
  <2> QED
    BY <2>1, <2>2, <2>3, <2>4
<1> QED
  BY <1>1 DEF Min

Outcomes == {"pass", "ignore", "quarantine", "raise"}

\* The verdict is that of the first check that is not passed.
LEMMA FirstFailure ==
    ASSUME NEW checks, DOMAIN checks \in SUBSET (1..4),
           \A i \in DOMAIN checks : checks[i] \in Outcomes
    PROVE  \/ Verdict(checks) = "record"
           \/ \E i \in DOMAIN checks :
                 /\ checks[i] = Verdict(checks) /\ checks[i] # "pass"
                 /\ \A j \in DOMAIN checks : j < i => checks[j] = "pass"
<1> DEFINE failed == {i \in DOMAIN checks : checks[i] # "pass"}
<1>1. CASE failed = {}
  BY <1>1 DEF Verdict
<1>2. CASE failed # {}
  <2>1. Min(failed) \in failed /\ \A y \in failed : Min(failed) <= y
    BY <1>2, MinOfPlaces
  <2>2. Verdict(checks) = checks[Min(failed)]
    BY <1>2 DEF Verdict
  <2>3. \A j \in DOMAIN checks : j < Min(failed) => checks[j] = "pass"
    BY <2>1
  <2> QED
    BY <2>1, <2>2, <2>3
<1> QED
  BY <1>1, <1>2

\* What the checks of an item can say.
LEMMA CheckOutcomes ==
    ASSUME NEW item \in Items, NEW c, NEW since, NEW verdict \in Outcomes, NEW seen
    PROVE  /\ Nameless(item, verdict) = IF item.id = None THEN verdict ELSE "pass"
           /\ Weak(item, verdict) = IF item.weak THEN verdict ELSE "pass"
           /\ Undated(item) \in {"pass", "quarantine"}
           /\ Repeated(item, seen) \in {"pass", "ignore"}
           /\ Stamp(c, item, since) \in Outcomes
           /\ Stamp(c, item, since) = "ignore" => item.stamp = "old" /\ c \in Comparing
<1>1. Stamp(c, item, since) \in Outcomes
  BY DEF Stamp, Outcomes
<1>2. Stamp(c, item, since) = "ignore" => item.stamp = "old" /\ c \in Comparing
  BY DEF Stamp
<1> QED
  BY <1>1, <1>2 DEF Nameless, Weak, Undated, Repeated, Outcomes

\* What becomes of an item that is checked twice.
LEMMA VerdictOfTwo ==
    ASSUME NEW a \in Outcomes, NEW b \in Outcomes
    PROVE  /\ Verdict(<<a, b>>) \in {"record", "ignore", "quarantine", "raise"}
           /\ Verdict(<<a, b>>) = "ignore" => "ignore" \in {a, b} /\ a \in {"ignore", "pass"}
<1>1. \A i \in DOMAIN <<a, b>> : <<a, b>>[i] \in Outcomes
  OBVIOUS
<1> QED
  BY <1>1, FirstFailure DEF Outcomes

\* Three times.
LEMMA VerdictOfThree ==
    ASSUME NEW a \in Outcomes, NEW b \in Outcomes, NEW d \in Outcomes
    PROVE  /\ Verdict(<<a, b, d>>) \in {"record", "ignore", "quarantine", "raise"}
           /\ Verdict(<<a, b, d>>) = "ignore" =>
                 \/ a = "ignore"
                 \/ a = "pass" /\ b = "ignore"
                 \/ a = "pass" /\ b = "pass" /\ d = "ignore"
<1>1. \A i \in DOMAIN <<a, b, d>> : <<a, b, d>>[i] \in Outcomes
  OBVIOUS
<1> QED
  BY <1>1, FirstFailure DEF Outcomes

\* Four times.
LEMMA VerdictOfFour ==
    ASSUME NEW a \in Outcomes, NEW b \in Outcomes, NEW d \in Outcomes, NEW e \in Outcomes
    PROVE  /\ Verdict(<<a, b, d, e>>) \in {"record", "ignore", "quarantine", "raise"}
           /\ Verdict(<<a, b, d, e>>) = "ignore" => "ignore" \in {a, b, d, e}
<1>1. \A i \in DOMAIN <<a, b, d, e>> : <<a, b, d, e>>[i] \in Outcomes
  OBVIOUS
<1> QED
  BY <1>1, FirstFailure DEF Outcomes

\* An item becomes a record, is quarantined, passed over or breaks the run off, and the
\* careful connectors pass over nothing malformed.
LEMMA VerdictParks ==
    ASSUME NEW c \in Connectors, NEW item \in Items, NEW since, NEW seen
    PROVE  LET verdict == Verdict(Checks(c, item, since, seen)) IN
           /\ verdict \in {"record", "ignore", "quarantine", "raise"}
           /\ verdict = "ignore" /\ c \in Careful => WellFormed(item)
<1> DEFINE verdict == Verdict(Checks(c, item, since, seen))
           nameless == Nameless(item, "quarantine")
           stamp == Stamp(c, item, since)
<1>1. /\ nameless \in {"pass", "quarantine"} /\ (nameless = "pass" => item.id # None)
      /\ stamp \in Outcomes /\ (stamp = "ignore" => item.stamp = "old" /\ c \in Comparing)
      /\ Nameless(item, "ignore") \in {"pass", "ignore"}
      /\ Repeated(item, seen) \in {"pass", "ignore"}
      /\ Undated(item) \in {"pass", "quarantine"}
      /\ Weak(item, "quarantine") \in {"pass", "quarantine"}
      /\ Weak(item, "ignore") = IF item.weak THEN "ignore" ELSE "pass"
      /\ \A o \in {"pass", "ignore", "quarantine"} : o \in Outcomes
  BY CheckOutcomes DEF Outcomes
<1> HIDE DEF nameless, stamp
<1>2. stamp = "ignore" /\ item.id # None => WellFormed(item)
  BY <1>1 DEF WellFormed
<1>3. CASE c \in {"nvd", "cisa_kev", "cxsecurity"}
  <2>1. Checks(c, item, since, seen) = <<nameless, stamp>>
    BY <1>3 DEF Checks, NvdChecks, CisaKevChecks, CxSecurityChecks, LeakSites, nameless,
                  stamp
  <2> QED
    BY <1>1, <1>2, <2>1, VerdictOfTwo
<1>4. CASE c = "github_poc"
  <2>1. Checks(c, item, since, seen) = <<nameless, Weak(item, "ignore"), stamp>>
    BY <1>4 DEF Checks, GithubPocChecks, LeakSites, nameless, stamp
  <2>2. Weak(item, "ignore") \in Outcomes
    BY <1>1
  <2> QED
    BY <1>1, <1>2, <1>4, <2>1, <2>2, VerdictOfThree DEF Careful
<1>5. CASE c = "exploitdb"
  <2>1. Checks(c, item, since, seen) = <<stamp, nameless>>
    BY <1>5 DEF Checks, ExploitDbChecks, LeakSites, nameless, stamp
  <2> QED
    BY <1>1, <1>5, <2>1, VerdictOfTwo DEF Careful
<1>6. CASE c = "osv"
  <2>1. Checks(c, item, since, seen) =
            <<Nameless(item, "ignore"), Repeated(item, seen), stamp>>
    BY <1>6 DEF Checks, OsvChecks, LeakSites, stamp
  <2> QED
    BY <1>1, <1>6, <2>1, VerdictOfThree DEF Careful
<1>7. CASE c \in LeakSites
  <2>1. Checks(c, item, since, seen) =
            <<nameless, Weak(item, "quarantine"), stamp, Undated(item)>>
    BY <1>7 DEF Checks, VictimChecks, LeakSites, nameless, stamp
  <2>2. stamp # "ignore"
    BY <1>1, <1>7 DEF LeakSites, Comparing
  <2> QED
    BY <1>1, <2>1, <2>2, VerdictOfFour
<1>8. CASE c = "ransomwhere"
  <2>1. Checks(c, item, since, seen) = <<nameless, Weak(item, "quarantine"), stamp>>
    BY <1>8 DEF Checks, RansomwhereChecks, LeakSites, nameless, stamp
  <2>2. stamp # "ignore"
    BY <1>1, <1>8 DEF Comparing
  <2> QED
    BY <1>1, <2>1, <2>2, VerdictOfThree
<1> QED
  BY <1>3, <1>4, <1>5, <1>6, <1>7, <1>8, FeedsAssumption DEF AllConnectors, LeakSites

-----------------------------------------------------------------------------
(* Steps of a run. *)

\* The run that is under way has its types.
LEMMA Running ==
    ASSUME TypeOK, run # Idle
    PROVE  /\ run \in Runs /\ run.connector \in Connectors
           /\ run.total \in 0..MaxItems /\ run.requests \in Nat /\ run.offset \in 0..MaxItems
           /\ run.served \in 0..MaxItems /\ run.page \in 0..MaxItems
           /\ run.ingested \in 0..MaxItems /\ run.quarantined \in 0..MaxItems
           /\ run.passed \in 0..MaxItems /\ run.lost \in BOOLEAN
           /\ run.short \in BOOLEAN /\ run.empty \in BOOLEAN
           /\ MaxItems \in Nat /\ PageSize \in Nat \ {0} /\ Watched \in Nat \ {0}
BY FeedsAssumption DEF TypeOK, Runs

\* A step that records nothing.
LEMMA Unrecorded ==
    ASSUME FeedsInv, latest' = latest, run' \in Runs \cup {Idle}, started' \in 0..MaxRuns,
           run' # Idle => RunCounts(run') /\ RunParked(run')
    PROVE  FeedsInv'
BY DEF FeedsInv, TypeOK, IncludedUnlessShort, sources_included, MalformedIsParked, RunCounts,
       RunParked

\* The record of a run is true of it.
LEMMA Recorded ==
    ASSUME FeedsInv, NEW r \in Runs, NEW status \in {"success", "partial", "failed"},
           NEW broke \in BOOLEAN, Record(r, status, broke), run' = Idle,
           started' \in 0..MaxRuns, RunParked(r),
           status = "success" =>
               ~broke /\ r.ingested + r.passed = r.served /\ ServedAll(r)
    PROVE  FeedsInv'
<1> DEFINE row == [status |-> status, ingested |-> r.ingested, quarantined |-> r.quarantined,
                   total |-> r.total, served |-> r.served, broke |-> broke,
                   passed |-> r.passed, lost |-> r.lost, short |-> r.short]
<1>1. latest' = [latest EXCEPT ![r.connector] = row]
  BY DEF Record
<1>2. row \in Rows /\ r.connector \in Connectors
  BY DEF Runs, Rows
<1>3. /\ row.status = status /\ row.broke = broke /\ row.ingested = r.ingested
      /\ row.passed = r.passed /\ row.total = r.total /\ row.lost = r.lost
      /\ row.served = r.served /\ row.short = r.short
  OBVIOUS
<1> HIDE DEF row
<1>4. latest'[r.connector] = row /\ \A c \in Connectors \ {r.connector} : latest'[c] = latest[c]
  BY <1>1, <1>2 DEF FeedsInv, TypeOK
<1>5. TypeOK'
  BY <1>1, <1>2 DEF FeedsInv, TypeOK
<1>6. IncludedUnlessShort'
  BY <1>2, <1>3, <1>4 DEF FeedsInv, IncludedUnlessShort, sources_included, ServedAll
<1>7. MalformedIsParked'
  BY <1>2, <1>3, <1>4 DEF FeedsInv, MalformedIsParked, RunParked
<1> QED
  BY <1>5, <1>6, <1>7 DEF FeedsInv

\* A run that starts has lost nothing.
LEMMA StartKept ==
    ASSUME FeedsInv, NEW c \in Connectors, NEW since \in {"none", "aware", "naive"},
           Start(c, since)
    PROVE  FeedsInv'
<1>1. started' \in 0..MaxRuns /\ MaxItems \in Nat /\ Watched \in Nat \ {0}
  BY FeedsAssumption DEF Start, FeedsInv, TypeOK
<1>2. ASSUME NEW total \in 0..MaxItems
      PROVE  /\ NewRun(c, since, total) \in Runs
             /\ RunCounts(NewRun(c, since, total)) /\ RunParked(NewRun(c, since, total))
  <2> DEFINE r == NewRun(c, since, total)
  <2>1. r \in Runs
    BY <1>1 DEF NewRun, Runs
  <2>2. /\ r.offset = 0 /\ r.served = 0 /\ r.page = 0 /\ r.requests = 0 /\ r.total = total
        /\ r.ingested = 0 /\ r.quarantined = 0 /\ r.passed = 0 /\ r.lost = FALSE
        /\ r.empty = FALSE
    BY DEF NewRun
  <2> HIDE DEF r
  <2>3. RunCounts(r) /\ RunParked(r)
    BY <1>1, <2>2 DEF RunCounts, RunParked
  <2> QED
    BY <2>1, <2>3 DEF r
<1>3. ASSUME NEW total \in 0..MaxItems, run' = NewRun(c, since, total), latest' = latest
      PROVE  FeedsInv'
  BY <1>1, <1>2, <1>3, Unrecorded
<1>4. CASE run' = Idle /\ Record(NewRun(c, since, 0), "failed", TRUE)
  <2> DEFINE r == NewRun(c, since, 0)
  <2>1. 0 \in 0..MaxItems
    BY <1>1
  <2>2. r \in Runs /\ RunParked(r)
    BY <1>2, <2>1
  <2> HIDE DEF r
  <2>3. run' = Idle /\ Record(r, "failed", TRUE)
    BY <1>4 DEF r
  <2> QED
    BY <1>1, <2>2, <2>3, Recorded
<1> QED
  BY <1>3, <1>4 DEF Start

\* An answer never has more than is left, and what the last one leaves out makes it short.
LEMMA AnswerFits ==
    ASSUME FeedsInv, run # Idle, Asks, NEW n \in Answers
    PROVE  /\ n \in Nat /\ run.served + n <= run.total
           /\ run.connector = "nvd" /\ n = 0 => Short(n) \/ run.served + n = run.total
           /\ run.connector = "osv" => run.requests + 1 <= Watched
           /\ run.connector = "osv" /\ run.requests + 1 = Watched =>
                 Short(n) \/ run.served + n = run.total
           /\ run.connector \notin {"nvd", "osv"} => Short(n) \/ run.served + n = run.total
<1>1. RunCounts(run)
  BY DEF FeedsInv
<1>2. /\ run.total \in 0..MaxItems /\ run.requests \in Nat /\ run.served \in 0..MaxItems
      /\ MaxItems \in Nat /\ PageSize \in Nat \ {0} /\ Watched \in Nat \ {0}
  BY Running DEF FeedsInv
<1>3. run.offset = run.served /\ run.served <= run.total
  BY <1>1 DEF RunCounts
<1>4. run.connector # "nvd" /\ run.connector # "osv" => run.requests = 0 /\ run.served = 0
  BY <1>1 DEF Asks, RunCounts
<1>5. n \in Nat /\ run.served + n <= run.total
  <2>1. CASE run.connector = "nvd"
    <3>1. run.total - run.offset \in Nat
      BY <1>2, <1>3
    <3>2. /\ Min({PageSize, run.total - run.offset}) <= run.total - run.offset
          /\ Min({PageSize, run.total - run.offset}) \in Nat
      BY <1>2, <3>1, MinOfTwo
    <3>3. n \in 0..Min({PageSize, run.total - run.offset})
      BY <2>1 DEF Answers
    <3> QED
      BY <1>2, <1>3, <3>1, <3>2, <3>3
  <2>2. CASE run.connector = "github_poc"
    <3>1. n \in {0, Min({PageSize, run.total})}
      BY <2>2 DEF Answers
    <3>2. Min({PageSize, run.total}) <= run.total /\ Min({PageSize, run.total}) \in Nat
      BY <1>2, MinOfTwo
    <3> QED
      BY <1>2, <1>4, <2>2, <3>1, <3>2
  <2>3. CASE run.connector = "osv"
    <3>1. n \in 0..(run.total - run.served)
      BY <2>3 DEF Answers
    <3> QED
      BY <1>2, <1>3, <3>1
  <2>4. CASE run.connector \notin {"nvd", "github_poc", "osv"}
    <3>1. n \in {0, run.total}
      BY <2>4 DEF Answers
    <3> QED
      BY <1>2, <1>4, <2>4, <3>1
  <2> QED
    BY <2>1, <2>2, <2>3, <2>4
<1>6. CASE run.connector = "nvd"
  BY <1>2, <1>5, <1>6 DEF Short
<1>7. CASE run.connector = "osv"
  <2>1. run.requests < Watched
    BY <1>7 DEF Asks
  <2> QED
    BY <1>2, <1>5, <1>7, <2>1 DEF Short
<1>8. CASE run.connector \notin {"nvd", "osv"}
  BY <1>2, <1>5, <1>8 DEF Short
<1> QED
  BY <1>5, <1>6, <1>7, <1>8

\* A request leaves what has been handled as it is.
LEMMA RequestKept ==
    ASSUME FeedsInv, Request
    PROVE  FeedsInv'
<1>1. PICK n \in Answers :
          run' = [run EXCEPT !.at = "items", !.requests = @ + 1, !.page = n,
                             !.served = @ + n, !.offset = Advance(n),
                             !.empty = n = 0, !.short = @ \/ Short(n)]
  BY DEF Request
<1>2. /\ run # Idle /\ run.at = "requests" /\ Asks /\ RunCounts(run) /\ RunParked(run)
      /\ UNCHANGED <<latest, started>> /\ started \in 0..MaxRuns
  BY DEF Request, FeedsInv, TypeOK
<1>3. /\ run \in Runs
      /\ run.total \in 0..MaxItems /\ run.requests \in Nat /\ run.offset \in 0..MaxItems
      /\ run.served \in 0..MaxItems /\ run.page \in 0..MaxItems
      /\ run.ingested \in 0..MaxItems /\ run.quarantined \in 0..MaxItems
      /\ run.passed \in 0..MaxItems /\ MaxItems \in Nat /\ run.short \in BOOLEAN
  BY <1>2, Running DEF FeedsInv
<1>4. /\ n \in Nat /\ run.served + n <= run.total
      /\ run.connector = "nvd" /\ n = 0 => Short(n) \/ run.served + n = run.total
      /\ run.connector = "osv" => run.requests + 1 <= Watched
      /\ run.connector = "osv" /\ run.requests + 1 = Watched =>
            Short(n) \/ run.served + n = run.total
      /\ run.connector \notin {"nvd", "osv"} => Short(n) \/ run.served + n = run.total
  BY <1>2, AnswerFits
<1>5. /\ run.offset = run.served /\ run.page = 0
      /\ run.ingested + run.quarantined + run.passed + run.page = run.served
  BY <1>2 DEF RunCounts
<1>6. n \in 0..MaxItems /\ run.served + n \in 0..MaxItems /\ Advance(n) = run.served + n
  BY <1>3, <1>4, <1>5 DEF Advance
<1>7. run' \in Runs
  <2>1. run' = [run EXCEPT !.at = "items", !.requests = run.requests + 1, !.page = n,
                           !.served = run.served + n, !.offset = run.served + n,
                           !.empty = n = 0, !.short = run.short \/ Short(n)]
    BY <1>1, <1>6
  <2>2. run.requests + 1 \in Nat /\ (n = 0) \in BOOLEAN /\ (run.short \/ Short(n)) \in BOOLEAN
    BY <1>3
  <2> QED
    BY <1>3, <1>6, <2>1, <2>2 DEF Runs
<1>8. /\ run'.at = "items" /\ run'.requests = run.requests + 1 /\ run'.page = n
      /\ run'.served = run.served + n /\ run'.offset = run.served + n
      /\ run'.connector = run.connector /\ run'.total = run.total
      /\ run'.ingested = run.ingested /\ run'.quarantined = run.quarantined
      /\ run'.passed = run.passed /\ run'.lost = run.lost
      /\ run'.empty = (n = 0) /\ run'.short = (run.short \/ Short(n))
  BY <1>1, <1>3, <1>6 DEF Runs
<1>9. RunCounts(run')
  <2>1. /\ run'.offset = run'.served /\ run'.served <= run'.total /\ run'.requests # 0
        /\ run'.ingested + run'.quarantined + run'.passed + run'.page = run'.served
        /\ run'.at # "requests"
    BY <1>3, <1>4, <1>5, <1>8
  <2>2. Short(n) \/ run.served + n = run.total => ServedAll(run')
    BY <1>8 DEF ServedAll
  <2>3. run'.connector = "nvd" /\ run'.empty => ServedAll(run')
    BY <1>4, <1>8, <2>2
  <2>4. run'.connector = "osv" =>
            run'.requests <= Watched /\ (run'.requests = Watched => ServedAll(run'))
    BY <1>4, <1>8, <2>2
  <2>5. run'.connector \notin {"nvd", "osv"} => ServedAll(run')
    BY <1>4, <1>8, <2>2
  <2> QED
    BY <2>1, <2>3, <2>4, <2>5 DEF RunCounts
<1>10. RunParked(run')
  BY <1>2, <1>8 DEF RunParked
<1> QED
  BY <1>2, <1>7, <1>9, <1>10, Unrecorded

\* An exception changes nothing of what a run has counted.
LEMMA ExceptionKept ==
    ASSUME FeedsInv, run # Idle, run' = [run EXCEPT !.at = "raised"],
           latest' = latest, started' = started
    PROVE  FeedsInv'
<1>0. run \in Runs
  BY Running DEF FeedsInv
<1>1. run \in Runs /\ RunCounts(run) /\ RunParked(run) /\ started' \in 0..MaxRuns
  BY <1>0 DEF FeedsInv, TypeOK
<1>2. /\ run' \in Runs /\ run'.at = "raised" /\ run'.requests = run.requests
      /\ run'.page = run.page /\ run'.served = run.served /\ run'.offset = run.offset
      /\ run'.connector = run.connector /\ run'.total = run.total
      /\ run'.ingested = run.ingested /\ run'.quarantined = run.quarantined
      /\ run'.passed = run.passed /\ run'.lost = run.lost
      /\ run'.empty = run.empty /\ run'.short = run.short
  BY <1>1 DEF Runs
<1>3. RunCounts(run') /\ RunParked(run')
  BY <1>1, <1>2 DEF RunCounts, ServedAll, RunParked
<1> QED
  BY <1>1, <1>2, <1>3, Unrecorded

\* Handling an item keeps the invariant.
LEMMA HandleKept ==
    ASSUME FeedsInv, Handle
    PROVE  FeedsInv'
<1>1. /\ run # Idle /\ run.at = "items" /\ run.page > 0 /\ RunCounts(run) /\ RunParked(run)
      /\ UNCHANGED <<latest, started>> /\ started \in 0..MaxRuns
  BY DEF Handle, FeedsInv, TypeOK
<1>2. /\ run \in Runs /\ run.connector \in Connectors
      /\ run.total \in 0..MaxItems /\ run.requests \in Nat /\ run.offset \in 0..MaxItems
      /\ run.served \in 0..MaxItems /\ run.page \in 0..MaxItems
      /\ run.ingested \in 0..MaxItems /\ run.quarantined \in 0..MaxItems
      /\ run.passed \in 0..MaxItems /\ MaxItems \in Nat /\ run.lost \in BOOLEAN
  BY <1>1, Running DEF FeedsInv
<1> DEFINE Said(item) == Verdict(Checks(run.connector, item, run.since, run.seen))
           After(item) == [run EXCEPT
               !.page = @ - 1,
               !.seen = IF run.connector = "osv" THEN @ \cup ({item.id} \ {None}) ELSE @,
               !.ingested = IF Said(item) = "record" THEN @ + 1 ELSE @,
               !.quarantined = IF Said(item) = "quarantine" THEN @ + 1 ELSE @,
               !.passed = IF Said(item) = "ignore" THEN @ + 1 ELSE @,
               !.lost = @ \/ (Said(item) = "ignore" /\ ~WellFormed(item))]
<1>3. PICK item \in Items :
          run' = IF Said(item) = "raise" THEN [run EXCEPT !.at = "raised"] ELSE After(item)
  BY DEF Handle, ItemsOf
<1> DEFINE verdict == Said(item)
<1>4. /\ verdict \in {"record", "ignore", "quarantine", "raise"}
      /\ verdict = "ignore" /\ run.connector \in Careful => WellFormed(item)
  BY <1>2, VerdictParks
<1>5. CASE verdict = "raise"
  BY <1>1, <1>3, <1>5, ExceptionKept
<1>6. CASE verdict # "raise"
  <2> DEFINE seen == IF run.connector = "osv" THEN run.seen \cup ({item.id} \ {None})
                     ELSE run.seen
             ingested == IF verdict = "record" THEN run.ingested + 1 ELSE run.ingested
             quarantined == IF verdict = "quarantine" THEN run.quarantined + 1
                            ELSE run.quarantined
             passed == IF verdict = "ignore" THEN run.passed + 1 ELSE run.passed
             lost == run.lost \/ (verdict = "ignore" /\ ~WellFormed(item))
  <2>1. run' = [run EXCEPT !.page = run.page - 1, !.seen = seen, !.ingested = ingested,
                           !.quarantined = quarantined, !.passed = passed, !.lost = lost]
    BY <1>3, <1>6
  <2>2. run.ingested + run.quarantined + run.passed + run.page = run.served
    BY <1>1 DEF RunCounts
  <2> HIDE DEF Said, After
  <2>3. /\ ingested \in 0..MaxItems /\ quarantined \in 0..MaxItems /\ passed \in 0..MaxItems
        /\ ingested + quarantined + passed + (run.page - 1) = run.served
        /\ run.page - 1 \in 0..MaxItems
    BY <1>1, <1>2, <1>4, <1>6, <2>2
  <2>4. seen \in SUBSET Ids /\ lost \in BOOLEAN
    BY <1>2 DEF Items, Runs
  <2>5. run.connector \in Careful => ~lost
    BY <1>1, <1>4 DEF RunParked
  <2> HIDE DEF seen, ingested, quarantined, passed, lost
  <2>6. run' \in Runs
    BY <1>2, <2>1, <2>3, <2>4 DEF Runs
  <2>7. /\ run'.at = "items" /\ run'.requests = run.requests /\ run'.page = run.page - 1
        /\ run'.served = run.served /\ run'.offset = run.offset
        /\ run'.connector = run.connector /\ run'.total = run.total
        /\ run'.ingested = ingested /\ run'.quarantined = quarantined
        /\ run'.passed = passed /\ run'.lost = lost
        /\ run'.empty = run.empty /\ run'.short = run.short
    BY <1>1, <1>2, <2>1 DEF Runs
  <2>8. RunCounts(run')
    BY <1>1, <2>3, <2>7 DEF RunCounts, ServedAll
  <2>9. RunParked(run')
    BY <2>5, <2>7 DEF RunParked
  <2> QED
    BY <1>1, <2>6, <2>8, <2>9, Unrecorded
<1> QED
  BY <1>5, <1>6

\* So does the end of a page.
LEMMA PageDoneKept ==
    ASSUME FeedsInv, PageDone
    PROVE  FeedsInv'
<1>1. /\ run # Idle /\ run.page = 0 /\ run' = [run EXCEPT !.at = "requests"]
      /\ RunCounts(run) /\ RunParked(run)
      /\ UNCHANGED <<latest, started>> /\ started \in 0..MaxRuns
  BY DEF PageDone, FeedsInv, TypeOK
<1>2. run \in Runs
  BY <1>1, Running DEF FeedsInv
<1>3. /\ run' \in Runs /\ run'.at = "requests" /\ run'.requests = run.requests
      /\ run'.page = run.page /\ run'.served = run.served /\ run'.offset = run.offset
      /\ run'.connector = run.connector /\ run'.total = run.total
      /\ run'.ingested = run.ingested /\ run'.quarantined = run.quarantined
      /\ run'.passed = run.passed /\ run'.lost = run.lost
      /\ run'.empty = run.empty /\ run'.short = run.short
  BY <1>1, <1>2 DEF Runs
<1>4. RunCounts(run') /\ RunParked(run')
  BY <1>1, <1>3 DEF RunCounts, ServedAll, RunParked
<1> QED
  BY <1>1, <1>3, <1>4, Unrecorded

\* So does a page that fails.
LEMMA RequestFailsKept ==
    ASSUME FeedsInv, RequestFails
    PROVE  FeedsInv'
<1>1. /\ run # Idle /\ RunParked(run) /\ Record(run, "failed", TRUE) /\ run' = Idle
      /\ started' \in 0..MaxRuns
  BY DEF RequestFails, FeedsInv, TypeOK
<1>2. run \in Runs
  BY <1>1, Running DEF FeedsInv
<1> QED
  BY <1>1, <1>2, Recorded

\* A run that asks for no more has read its feed to the end.
LEMMA FinishKept ==
    ASSUME FeedsInv, Finish
    PROVE  FeedsInv'
<1> DEFINE status == IF run.quarantined > 0 THEN "partial" ELSE "success"
<1>1. /\ run # Idle /\ run.at = "requests" /\ ~Asks /\ RunCounts(run) /\ RunParked(run)
      /\ Record(run, status, FALSE) /\ run' = Idle /\ started' \in 0..MaxRuns
  BY DEF Finish, FeedsInv, TypeOK
<1>2. /\ run \in Runs
      /\ run.total \in 0..MaxItems /\ run.requests \in Nat /\ run.served \in 0..MaxItems
      /\ run.ingested \in 0..MaxItems /\ run.quarantined \in 0..MaxItems
      /\ run.passed \in 0..MaxItems /\ Watched \in Nat
  BY <1>1, Running DEF FeedsInv
<1>3. ServedAll(run)
  <2>1. CASE run.connector = "nvd"
    BY <1>1, <1>2, <2>1 DEF Asks, RunCounts, ServedAll
  <2>2. CASE run.connector = "osv"
    <3>1. ~(run.requests < Watched)
      BY <1>1, <2>2 DEF Asks
    <3>2. run.requests <= Watched /\ (run.requests = Watched => ServedAll(run))
      BY <1>1, <2>2 DEF RunCounts
    <3> QED
      BY <1>2, <3>1, <3>2
  <2>3. CASE run.connector \notin {"nvd", "osv"}
    BY <1>1, <1>2, <2>3 DEF Asks, RunCounts
  <2> QED
    BY <2>1, <2>2, <2>3
<1>4. status = "success" => run.ingested + run.passed = run.served
  BY <1>1, <1>2 DEF RunCounts
<1>5. status \in {"success", "partial", "failed"}
  OBVIOUS
<1> HIDE DEF status
<1> QED
  BY <1>1, <1>2, <1>3, <1>4, <1>5, Recorded

\* Each step keeps the invariant of feeds.
LEMMA FeedsKept == FeedsInv /\ [Next]_vars => FeedsInv'
<1> SUFFICES ASSUME FeedsInv, [Next]_vars
             PROVE  FeedsInv'
  OBVIOUS
<1>1. CASE UNCHANGED vars
  BY <1>1, Unrecorded DEF vars, FeedsInv, TypeOK
<1>2. CASE AnswerRaises
  BY <1>2, ExceptionKept DEF AnswerRaises
<1>3. CASE Unwind
  BY <1>3, Unrecorded DEF Unwind, FeedsInv, TypeOK
<1> QED
  BY <1>1, <1>2, <1>3, StartKept, RequestKept, RequestFailsKept, HandleKept, PageDoneKept,
     FinishKept
  DEF Next

\* It holds before the first run.
LEMMA FeedsStart == Init => FeedsInv
BY FeedsAssumption DEF Init, FeedsInv, TypeOK, IncludedUnlessShort, sources_included,
                       MalformedIsParked

\* Runs have their types, and count what they have looked at.
THEOREM FeedsInvariant == Spec => []FeedsInv
BY FeedsStart, FeedsKept, PTL DEF Spec

\* The connectors that check items before they pass them over drop no malformed one
\* (base.py:8-10).
THEOREM MalformedParked == Spec => []MalformedIsParked
<1>1. FeedsInv => MalformedIsParked
  BY DEF FeedsInv
<1> QED
  BY <1>1, FeedsInvariant, PTL

\* A feed that an answer is said to rest on was taken in but for what short answers left
\* out (provenance.py:4-6).
THEOREM IncludedServed == Spec => []IncludedUnlessShort
<1>1. FeedsInv => IncludedUnlessShort
  BY DEF FeedsInv
<1> QED
  BY <1>1, FeedsInvariant, PTL

-----------------------------------------------------------------------------
(* Correlations. *)

\* One assessment scores no less than another, and knows what it knew.
Below(a, b) ==
    /\ a.score <= b.score
    /\ a.present \subseteq b.present
    /\ a.absent \subseteq b.present \cup b.absent

\* The rows of an entity, and what evidence is made of rows.
RowsOf(e) == IF e \in entities /\ e \in Sighted THEN sightings[e] ELSE <<>>
IsAsset(e) == e = "asset" /\ e \in entities
EvidenceFrom(all, asset) ==
    LET rows == SubSeq(all, 1, Min({Len(all), MaxEvidenceRows}))
    IN  [criticality |-> IF asset THEN "medium" ELSE Unknown,
         count |-> IF rows = <<>> THEN Unknown ELSE Len(rows),
         relevant |-> Relevant(rows),
         truncated |-> Len(all) > MaxEvidenceRows,
         status |-> IF ~asset /\ rows = <<>> THEN "unavailable"
                    ELSE IF asset \/ Relevant(rows) = Unknown THEN "partial" ELSE "resolved"]

\* What a record says of its entity is no more than what could be said of it now, from all
\* of its rows.
StillKnown(item) ==
    ~resolve_evidence(item.entity).truncated =>
        Below(item, assess(resolve_evidence(item.entity)))

CorrelationInv ==
    /\ CorrelationTypeOK
    /\ Len(records) <= MaxRecords
    /\ BriefHasEvidence
    /\ \A b \in briefs : b.of \in DOMAIN records
    /\ \A i \in DOMAIN records : Unavailable(records[i]) \/ records[i].stored
    /\ KnowledgeRaises
    /\ \A i \in DOMAIN records : StillKnown(records[i])

\* What is read of an entity is made of its rows.
LEMMA ResolvedFromRows ==
    ASSUME NEW e
    PROVE  /\ resolve_evidence(e) = EvidenceFrom(RowsOf(e), IsAsset(e))
           /\ resolve_evidence(e)' = EvidenceFrom(RowsOf(e)', IsAsset(e)')
BY DEF resolve_evidence, EvidenceFrom, RowsOf, IsAsset

\* Evidence has its types, and all rows unless it says that it has not.
LEMMA EvidenceTyped ==
    ASSUME NEW all \in Seq(Flags), NEW asset \in BOOLEAN
    PROVE  LET evidence == EvidenceFrom(all, asset) IN
           /\ evidence.criticality = IF asset THEN "medium" ELSE Unknown
           /\ evidence.count \in Nat \cup {Unknown}
           /\ evidence.truncated = (Len(all) > MaxEvidenceRows)
           /\ evidence.status \in {"unavailable", "partial", "resolved"}
           /\ evidence.status # "unavailable" => asset \/ all # <<>>
           /\ ~evidence.truncated =>
                 /\ evidence.count = IF all = <<>> THEN Unknown ELSE Len(all)
                 /\ evidence.relevant = Relevant(all)
<1> DEFINE n == Min({Len(all), MaxEvidenceRows})
           rows == SubSeq(all, 1, n)
<1>1. Len(all) \in Nat /\ MaxEvidenceRows \in Nat
  BY CorrelationAssumption
<1>2. n = IF Len(all) <= MaxEvidenceRows THEN Len(all) ELSE MaxEvidenceRows
  BY <1>1, MinOfTwo
<1> HIDE DEF n
<1>3. rows \in Seq(Flags)
  <2>1. \A i \in 1..n : all[i] \in Flags
    BY <1>1, <1>2
  <2> QED
    BY <1>1, <1>2, <2>1, SubSeqProperties
<1>4. Len(all) <= MaxEvidenceRows => rows = all
  BY <1>2, SubSeqFull
<1>5. all = <<>> => rows = <<>>
  BY <1>1, <1>2, <1>4
<1>6. Len(rows) \in Nat
  BY <1>3
<1> DEFINE evidence == EvidenceFrom(all, asset)
<1>7. /\ evidence.criticality = IF asset THEN "medium" ELSE Unknown
      /\ evidence.count = IF rows = <<>> THEN Unknown ELSE Len(rows)
      /\ evidence.relevant = Relevant(rows)
      /\ evidence.truncated = (Len(all) > MaxEvidenceRows)
      /\ evidence.status = IF ~asset /\ rows = <<>> THEN "unavailable"
                    ELSE IF asset \/ Relevant(rows) = Unknown THEN "partial" ELSE "resolved"
  BY DEF EvidenceFrom, n
<1> HIDE DEF evidence, rows
<1>8. evidence.status # "unavailable" => asset \/ all # <<>>
  BY <1>5, <1>7
<1>9. ~evidence.truncated =>
          /\ evidence.count = IF all = <<>> THEN Unknown ELSE Len(all)
          /\ evidence.relevant = Relevant(all)
  <2> SUFFICES ASSUME ~evidence.truncated
               PROVE  rows = all
    BY <1>7
  <2>1. ~(Len(all) > MaxEvidenceRows)
    BY <1>7
  <2> QED
    BY <1>1, <1>4, <2>1
<1> QED
  BY <1>6, <1>7, <1>8, <1>9 DEF evidence

\* The points of evidence.
LEMMA Assessed ==
    ASSUME NEW evidence, evidence.count \in Nat \cup {Unknown}
    PROVE  /\ assess(evidence).score =
                 (IF evidence.criticality = "medium" THEN 8 ELSE 0)
                 + (IF evidence.count = Unknown THEN 0
                    ELSE IF evidence.count <= 3 THEN 5 * evidence.count ELSE 15)
                 + (IF evidence.relevant = TRUE THEN 10 ELSE 0)
           /\ assess(evidence).score \in 0..100
           /\ assess(evidence).tier \in {"low", "medium", "high", "critical"}
           /\ assess(evidence).present =
                 {f \in {"criticality"} : evidence.criticality # Unknown}
                 \cup {f \in {"sightings"} : evidence.count # Unknown}
                 \cup {f \in {"ransomware"} : evidence.relevant = TRUE}
           /\ assess(evidence).absent = {f \in {"ransomware"} : evidence.relevant = FALSE}
<1> DEFINE counted == IF evidence.count = Unknown THEN 0 ELSE 5 * Min({evidence.count, 3})
           crit == IF evidence.criticality = "medium" THEN 8 ELSE 0
           rel == IF evidence.relevant = TRUE THEN 10 ELSE 0
           score == Min({100, crit + counted + rel})
<1>1. counted = (IF evidence.count = Unknown THEN 0
                 ELSE IF evidence.count <= 3 THEN 5 * evidence.count ELSE 15)
      /\ counted \in 0..15
  <2>1. CASE evidence.count = Unknown
    BY <2>1
  <2>2. CASE evidence.count # Unknown
    <3>1. Min({evidence.count, 3}) = IF evidence.count <= 3 THEN evidence.count ELSE 3
      BY <2>2, MinOfTwo
    <3> QED
      BY <2>2, <3>1
  <2> QED
    BY <2>1, <2>2
<1> HIDE DEF counted
<1>2. crit \in 0..8 /\ rel \in 0..10
  OBVIOUS
<1> HIDE DEF crit, rel
<1>3. crit + counted + rel \in 0..33
  <2>1. crit \in 0..8 /\ counted \in 0..15 /\ rel \in 0..10
    BY <1>1, <1>2
  <2> QED
    BY <2>1
<1>4. score = crit + counted + rel
  BY <1>3, MinOfTwo
<1>5. /\ assess(evidence).score = score /\ assess(evidence).tier = Tier(score)
      /\ assess(evidence).present =
            {f \in {"criticality"} : evidence.criticality # Unknown}
            \cup {f \in {"sightings"} : evidence.count # Unknown}
            \cup {f \in {"ransomware"} : evidence.relevant = TRUE}
      /\ assess(evidence).absent = {f \in {"ransomware"} : evidence.relevant = FALSE}
  BY DEF assess, crit, counted, rel
<1>6. Tier(score) \in {"low", "medium", "high", "critical"}
  BY DEF Tier
<1> HIDE DEF score
<1> QED
  BY <1>1, <1>3, <1>4, <1>5, <1>6 DEF crit, rel

\* More evidence is assessed no lower (assess, app/services/correlation.py).
LEMMA AssessedHigher ==
    ASSUME NEW a, NEW b, a.count \in Nat \cup {Unknown}, b.count \in Nat \cup {Unknown},
           a.criticality \in {"medium", Unknown}, b.criticality \in {"medium", Unknown},
           a.criticality = "medium" => b.criticality = "medium",
           a.count # Unknown => b.count # Unknown /\ a.count <= b.count,
           a.relevant = TRUE => b.relevant = TRUE,
           a.relevant = FALSE => b.relevant \in BOOLEAN
    PROVE  Below(assess(a), assess(b))
<1>1. "medium" # Unknown
  BY CorrelationAssumption
<1> DEFINE A == assess(a)
           B == assess(b)
<1>2. A.score <= B.score
  <2> DEFINE ca == IF a.criticality = "medium" THEN 8 ELSE 0
             cb == IF b.criticality = "medium" THEN 8 ELSE 0
             na == IF a.count = Unknown THEN 0 ELSE IF a.count <= 3 THEN 5 * a.count ELSE 15
             nb == IF b.count = Unknown THEN 0 ELSE IF b.count <= 3 THEN 5 * b.count ELSE 15
             ra == IF a.relevant = TRUE THEN 10 ELSE 0
             rb == IF b.relevant = TRUE THEN 10 ELSE 0
  <2>1. ca \in Nat /\ cb \in Nat /\ ca <= cb
    OBVIOUS
  <2>2. na \in Nat /\ nb \in Nat /\ na <= nb
    OBVIOUS
  <2>3. ra \in Nat /\ rb \in Nat /\ ra <= rb
    OBVIOUS
  <2>4. A.score = ca + na + ra /\ B.score = cb + nb + rb
    BY Assessed
  <2> HIDE DEF ca, cb, na, nb, ra, rb, A, B
  <2> QED
    BY <2>1, <2>2, <2>3, <2>4
<1>3. A.present \subseteq B.present
  <2>1. /\ A.present = {f \in {"criticality"} : a.criticality # Unknown}
                       \cup {f \in {"sightings"} : a.count # Unknown}
                       \cup {f \in {"ransomware"} : a.relevant = TRUE}
        /\ B.present = {f \in {"criticality"} : b.criticality # Unknown}
                       \cup {f \in {"sightings"} : b.count # Unknown}
                       \cup {f \in {"ransomware"} : b.relevant = TRUE}
    BY Assessed
  <2>2. a.criticality # Unknown => b.criticality # Unknown
    BY <1>1
  <2> HIDE DEF A, B
  <2> QED
    BY <2>1, <2>2
<1>4. A.absent \subseteq B.present \cup B.absent
  BY Assessed
<1> QED
  BY <1>2, <1>3, <1>4 DEF Below

\* A record that is still known stays so when rows are added to its entity.
LEMMA StillKnownLater ==
    ASSUME CorrelationTypeOK, CorrelationTypeOK', NEW item \in Records, StillKnown(item),
           IsAsset(item.entity) => IsAsset(item.entity)',
           Len(RowsOf(item.entity)) <= Len(RowsOf(item.entity)'),
           Range(RowsOf(item.entity)) \subseteq Range(RowsOf(item.entity)')
    PROVE  StillKnown(item)'
<1> DEFINE e == item.entity
           a == EvidenceFrom(RowsOf(e), IsAsset(e))
           b == EvidenceFrom(RowsOf(e)', IsAsset(e)')
<1>1. RowsOf(e) \in Seq(Flags) /\ RowsOf(e)' \in Seq(Flags)
  BY DEF RowsOf, CorrelationTypeOK, Sighted
<1>2. IsAsset(e) \in BOOLEAN /\ IsAsset(e)' \in BOOLEAN
  BY DEF IsAsset
<1>3. /\ a.criticality = (IF IsAsset(e) THEN "medium" ELSE Unknown)
      /\ a.count \in Nat \cup {Unknown}
      /\ a.truncated = (Len(RowsOf(e)) > MaxEvidenceRows)
      /\ ~a.truncated =>
            /\ a.count = IF RowsOf(e) = <<>> THEN Unknown ELSE Len(RowsOf(e))
            /\ a.relevant = Relevant(RowsOf(e))
  BY <1>1, <1>2, EvidenceTyped
<1>4. /\ b.criticality = (IF IsAsset(e)' THEN "medium" ELSE Unknown)
      /\ b.count \in Nat \cup {Unknown}
      /\ b.truncated = (Len(RowsOf(e)') > MaxEvidenceRows)
      /\ ~b.truncated =>
            /\ b.count = IF RowsOf(e)' = <<>> THEN Unknown ELSE Len(RowsOf(e)')
            /\ b.relevant = Relevant(RowsOf(e)')
  BY <1>1, <1>2, EvidenceTyped
<1>5. resolve_evidence(e) = a /\ resolve_evidence(e)' = b
  BY ResolvedFromRows
<1> HIDE DEF a, b
<1>6. SUFFICES ASSUME ~b.truncated
               PROVE  Below(item, assess(b))
  BY <1>5 DEF StillKnown
<1>7. ~a.truncated /\ Len(RowsOf(e)) \in Nat /\ Len(RowsOf(e)') \in Nat
  <2>1. Len(RowsOf(e)) \in Nat /\ Len(RowsOf(e)') \in Nat /\ MaxEvidenceRows \in Nat
    BY <1>1, CorrelationAssumption
  <2>2. ~(Len(RowsOf(e)') > MaxEvidenceRows)
    BY <1>4, <1>6
  <2>3. ~(Len(RowsOf(e)) > MaxEvidenceRows)
    BY <2>1, <2>2
  <2> QED
    BY <1>3, <2>1, <2>3
<1>8. Below(item, assess(a))
  BY <1>5, <1>7 DEF StillKnown
<1>9. Below(assess(a), assess(b))
  <2>1. a.criticality = "medium" => b.criticality = "medium"
    BY <1>3, <1>4, CorrelationAssumption
  <2>2. a.count # Unknown => b.count # Unknown /\ a.count <= b.count
    <3>1. RowsOf(e) # <<>> => Len(RowsOf(e)) > 0 /\ RowsOf(e)' # <<>>
      BY <1>1, <1>7
    <3>2. \A n \in Nat : n # Unknown
      BY CorrelationAssumption
    <3> QED
      BY <1>3, <1>4, <1>6, <1>7, <3>1, <3>2
  <2>3. /\ Relevant(RowsOf(e)) = TRUE => Relevant(RowsOf(e)') = TRUE
        /\ Relevant(RowsOf(e)) = FALSE => Relevant(RowsOf(e)') \in BOOLEAN
    <3>1. Unknown \notin BOOLEAN
      BY CorrelationAssumption
    <3> QED
      BY <3>1 DEF Relevant
  <2> QED
    BY <1>3, <1>4, <1>6, <1>7, <2>1, <2>2, <2>3, AssessedHigher
<1>10. item.score \in Int /\ assess(a).score \in Int /\ assess(b).score \in Int
  <2>1. assess(a).score \in 0..100
    BY <1>3, Assessed
  <2>2. assess(b).score \in 0..100
    BY <1>4, Assessed
  <2>3. item.score \in 0..100
    BY DEF Records
  <2>4. \A n \in 0..100 : n \in Int
    OBVIOUS
  <2> QED
    BY <2>1, <2>2, <2>3, <2>4
<1> QED
  BY <1>8, <1>9, <1>10 DEF Below

-----------------------------------------------------------------------------
(* Steps of the correlation. *)

\* A step that adds what is stored, and neither evaluates nor writes a brief.
LEMMA MoreStored ==
    ASSUME CorrelationInv, CorrelationTypeOK', UNCHANGED <<records, briefs>>,
           \A e \in Types :
               /\ IsAsset(e) => IsAsset(e)'
               /\ Len(RowsOf(e)) <= Len(RowsOf(e)')
               /\ Range(RowsOf(e)) \subseteq Range(RowsOf(e)')
    PROVE  CorrelationInv'
<1>1. ASSUME NEW i \in DOMAIN records
      PROVE  StillKnown(records[i])'
  <2>1. PICK item \in Records : item = records[i]
    BY DEF CorrelationInv, CorrelationTypeOK
  <2>2. item.entity \in Types
    BY DEF Records
  <2>3. StillKnown(item)
    BY <2>1 DEF CorrelationInv
  <2>4. StillKnown(item)'
    BY <2>2, <2>3, StillKnownLater DEF CorrelationInv
  <2> QED
    BY <2>1, <2>4 DEF StillKnown
<1>2. KnowledgeRaises' /\ BriefHasEvidence'
  BY DEF CorrelationInv, KnowledgeRaises, BriefHasEvidence
<1> QED
  BY <1>1, <1>2 DEF CorrelationInv, Unavailable

\* Evidence is only added.
LEMMA EnterKept ==
    ASSUME CorrelationInv, NEW e \in Types, Enter(e)
    PROVE  CorrelationInv'
<1>1. CorrelationTypeOK'
  BY DEF Enter, CorrelationInv, CorrelationTypeOK
<1>2. ASSUME NEW f \in Types
      PROVE  /\ IsAsset(f) => IsAsset(f)'
             /\ Len(RowsOf(f)) <= Len(RowsOf(f)')
             /\ Range(RowsOf(f)) \subseteq Range(RowsOf(f)')
  <2>1. IsAsset(f) => IsAsset(f)'
    BY DEF Enter, IsAsset
  <2>2. RowsOf(f) = RowsOf(f)' \/ RowsOf(f) = <<>>
    BY DEF Enter, RowsOf
  <2>3. RowsOf(f)' \in Seq(Flags)
    BY <1>1 DEF RowsOf, CorrelationTypeOK
  <2>4. Range(<<>>) = {} /\ Len(<<>>) = 0
    BY DEF Range
  <2> QED
    BY <2>1, <2>2, <2>3, <2>4
<1> QED
  BY <1>1, <1>2, MoreStored DEF Enter

\* A new row leaves the others where they are.
LEMMA InsertedRow ==
    ASSUME NEW rows \in Seq(Flags), NEW i \in 1..(Len(rows) + 1), NEW flag \in Flags
    PROVE  /\ InsertAt(rows, i, flag) \in Seq(Flags)
           /\ Len(InsertAt(rows, i, flag)) = Len(rows) + 1
           /\ Range(rows) \subseteq Range(InsertAt(rows, i, flag))
<1> DEFINE front == SubSeq(rows, 1, i - 1)
           back == SubSeq(rows, i, Len(rows))
           all == InsertAt(rows, i, flag)
<1>1. Len(rows) \in Nat /\ i \in Nat /\ 1 <= i /\ i <= Len(rows) + 1
  OBVIOUS
<1>2. /\ front \in Seq(Flags) /\ Len(front) = i - 1
      /\ \A j \in 1..(i - 1) : front[j] = rows[j]
  <2>1. \A j \in 1..(i - 1) : rows[j] \in Flags
    BY <1>1
  <2> QED
    BY <1>1, <2>1, SubSeqProperties
<1>3. /\ back \in Seq(Flags) /\ Len(back) = Len(rows) - i + 1
      /\ \A j \in 1..(Len(rows) - i + 1) : back[j] = rows[i + j - 1]
  <2>1. \A j \in i..Len(rows) : rows[j] \in Flags
    BY <1>1
  <2> QED
    BY <1>1, <2>1, SubSeqProperties
<1>4. all = front \o <<flag>> \o back
  BY DEF InsertAt
<1> HIDE DEF front, back, all
<1>5. /\ front \o <<flag>> \in Seq(Flags) /\ Len(front \o <<flag>>) = i
      /\ \A j \in 1..(i - 1) : (front \o <<flag>>)[j] = front[j]
  BY <1>1, <1>2
<1>6. all \in Seq(Flags) /\ Len(all) = Len(rows) + 1
  <2>1. all \in Seq(Flags) /\ Len(all) = Len(front \o <<flag>>) + Len(back)
    BY <1>3, <1>4, <1>5, ConcatProperties
  <2>2. Len(all) = i + (Len(rows) - i + 1)
    BY <1>3, <1>5, <2>1
  <2>3. i + (Len(rows) - i + 1) = Len(rows) + 1
    BY <1>1
  <2> QED
    BY <2>1, <2>2, <2>3
<1>7. /\ \A j \in 1..(i - 1) : all[j] = rows[j]
      /\ \A j \in i..Len(rows) : all[j + 1] = rows[j]
  <2>1. \A j \in 1..(i - 1) : all[j] = rows[j]
    BY <1>1, <1>2, <1>3, <1>4, <1>5
  <2>2. ASSUME NEW j \in i..Len(rows)
        PROVE  all[j + 1] = rows[j]
    <3>1. j + 1 - i \in 1..Len(back) /\ j + 1 = i + (j + 1 - i)
      BY <1>1, <1>3
    <3>2. all[j + 1] = back[j + 1 - i]
      BY <1>1, <1>3, <1>4, <1>5, <3>1
    <3> QED
      BY <1>1, <1>3, <3>1, <3>2
  <2> QED
    BY <2>1, <2>2
<1>8. Range(rows) \subseteq Range(all)
  <2> SUFFICES ASSUME NEW j \in 1..Len(rows)
               PROVE  \E k \in 1..Len(all) : all[k] = rows[j]
    BY <1>6 DEF Range
  <2>1. CASE j < i
    BY <1>1, <1>6, <1>7, <2>1
  <2>2. CASE i <= j
    <3>1. j + 1 \in 1..Len(all) /\ all[j + 1] = rows[j]
      BY <1>1, <1>6, <1>7, <2>2
    <3> QED
      BY <3>1
  <2> QED
    BY <1>1, <2>1, <2>2
<1> QED
  BY <1>6, <1>8 DEF all

\* So are sightings, in any order.
LEMMA SightingKept ==
    ASSUME CorrelationInv, NEW e \in Sighted, NEW flag \in Flags, create_sighting(e, flag)
    PROVE  CorrelationInv'
<1>1. sightings[e] \in Seq(Flags) /\ e \in Types
  BY DEF CorrelationInv, CorrelationTypeOK, Sighted, Types
<1>2. PICK i \in 1..(Len(sightings[e]) + 1) :
          sightings' = [sightings EXCEPT ![e] = InsertAt(sightings[e], i, flag)]
  BY DEF create_sighting
<1> DEFINE new == InsertAt(sightings[e], i, flag)
<1>3. /\ new \in Seq(Flags) /\ Len(new) = Len(sightings[e]) + 1
      /\ Range(sightings[e]) \subseteq Range(new)
  BY <1>1, InsertedRow
<1>4. sightings' = [sightings EXCEPT ![e] = new]
  BY <1>2
<1> HIDE DEF new
<1>5. CorrelationTypeOK' /\ UNCHANGED <<entities, records, briefs>>
  BY <1>3, <1>4 DEF create_sighting, CorrelationInv, CorrelationTypeOK
<1>6. ASSUME NEW f \in Types
      PROVE  /\ IsAsset(f) => IsAsset(f)'
             /\ Len(RowsOf(f)) <= Len(RowsOf(f)')
             /\ Range(RowsOf(f)) \subseteq Range(RowsOf(f)')
  <2>1. IsAsset(f) => IsAsset(f)'
    BY <1>5 DEF IsAsset
  <2>2. CASE f = e /\ e \in entities
    <3>1. RowsOf(f) = sightings[e] /\ RowsOf(f)' = new
      BY <1>4, <1>5, <2>2 DEF RowsOf, CorrelationInv, CorrelationTypeOK
    <3>2. Len(sightings[e]) \in Nat
      BY <1>1
    <3> QED
      BY <1>3, <2>1, <3>1, <3>2
  <2>3. CASE f # e \/ e \notin entities
    <3>1. RowsOf(f)' = RowsOf(f)
      BY <1>4, <1>5, <2>3 DEF RowsOf, CorrelationInv, CorrelationTypeOK
    <3>2. RowsOf(f) \in Seq(Flags)
      BY DEF RowsOf, CorrelationInv, CorrelationTypeOK
    <3> QED
      BY <2>1, <3>1, <3>2
  <2> QED
    BY <2>2, <2>3
<1> QED
  BY <1>5, <1>6, MoreStored

\* A record says what is known of the entity now.
LEMMA EvaluateKept ==
    ASSUME CorrelationInv, NEW e \in Types, NEW annotated \in BOOLEAN, evaluate(e, annotated)
    PROVE  CorrelationInv'
<1> DEFINE evidence == resolve_evidence(e)
           outcome == assess(evidence)
           item ==
               [entity |-> e,
                resolution_status |-> IF annotated THEN "manual_input" ELSE evidence.status,
                server_resolution_status |-> IF annotated THEN evidence.status ELSE Unknown,
                score |-> outcome.score, tier |-> outcome.tier, present |-> outcome.present,
                absent |-> outcome.absent,
                truncated |-> evidence.truncated,
                stored |-> e \in entities /\ (e = "asset" \/ sightings["indicator"] # <<>>)]
<1>1. /\ Len(records) < MaxRecords /\ ~Raises(e) /\ records' = Append(records, item)
      /\ UNCHANGED <<entities, open, sightings, briefs>>
  BY DEF evaluate
<1>2. evidence = EvidenceFrom(RowsOf(e), IsAsset(e))
  BY ResolvedFromRows
<1>3. /\ evidence.criticality \in {"medium", Unknown}
      /\ evidence.count \in Nat \cup {Unknown}
      /\ evidence.truncated \in BOOLEAN
      /\ evidence.status \in {"unavailable", "partial", "resolved"}
      /\ evidence.status # "unavailable" => IsAsset(e) \/ RowsOf(e) # <<>>
  <2>1. RowsOf(e) \in Seq(Flags) /\ IsAsset(e) \in BOOLEAN
    BY DEF RowsOf, IsAsset, CorrelationInv, CorrelationTypeOK
  <2> HIDE DEF evidence
  <2>2. /\ evidence.criticality = (IF IsAsset(e) THEN "medium" ELSE Unknown)
        /\ evidence.count \in Nat \cup {Unknown}
        /\ evidence.truncated = (Len(RowsOf(e)) > MaxEvidenceRows)
        /\ evidence.status \in {"unavailable", "partial", "resolved"}
        /\ evidence.status # "unavailable" => IsAsset(e) \/ RowsOf(e) # <<>>
    BY <1>2, <2>1, EvidenceTyped
  <2>3. evidence.truncated \in BOOLEAN
    BY <2>2
  <2> QED
    BY <2>2, <2>3
<1>4. /\ outcome.score \in 0..100 /\ outcome.tier \in {"low", "medium", "high", "critical"}
      /\ outcome.present \subseteq Factors /\ outcome.absent \subseteq Factors
  BY <1>3, Assessed DEF Factors
<1> HIDE DEF evidence, outcome
<1>5. /\ item \in Records /\ item.entity = e /\ item.truncated = evidence.truncated
      /\ item.score = outcome.score /\ item.present = outcome.present
      /\ item.absent = outcome.absent
  BY <1>3, <1>4 DEF Records, Statuses
<1>6. Unavailable(item) \/ item.stored
  <2>1. evidence.status = "unavailable" =>  Unavailable(item)
    BY CorrelationAssumption DEF Unavailable
  <2>2. evidence.status # "unavailable" => item.stored
    BY <1>1, <1>3 DEF IsAsset, RowsOf, Sighted
  <2> QED
    BY <2>1, <2>2
<1> HIDE DEF item
<1>7. /\ records \in Seq(Records) /\ records' \in Seq(Records)
      /\ Len(records') = Len(records) + 1 /\ records'[Len(records) + 1] = item
      /\ \A i \in DOMAIN records : i \in DOMAIN records' /\ records'[i] = records[i]
      /\ DOMAIN records' = DOMAIN records \cup {Len(records) + 1}
      /\ \A i \in DOMAIN records : i < Len(records) + 1
      /\ Len(records) \in Nat
  BY <1>1, <1>5 DEF CorrelationInv, CorrelationTypeOK
<1>8. CorrelationTypeOK'
  BY <1>1, <1>7 DEF CorrelationInv, CorrelationTypeOK
<1>9. Len(records') <= MaxRecords
  BY <1>1, <1>7, CorrelationAssumption
<1>10. BriefHasEvidence' /\ \A b \in briefs' : b.of \in DOMAIN records'
  BY <1>1, <1>7 DEF CorrelationInv, BriefHasEvidence
<1>11. \A i \in DOMAIN records' : Unavailable(records'[i]) \/ records'[i].stored
  BY <1>6, <1>7 DEF CorrelationInv
<1>12. /\ Below(item, outcome)
       /\ \A i \in DOMAIN records : records[i].entity = e /\ ~evidence.truncated =>
             Below(records[i], outcome)
  <2>1. outcome.score <= outcome.score
    BY <1>4
  <2>2. Below(item, outcome)
    BY <1>5, <2>1 DEF Below
  <2> QED
    BY <2>2 DEF CorrelationInv, StillKnown, evidence, outcome
<1>13. KnowledgeRaises'
  <2> SUFFICES ASSUME NEW i \in DOMAIN records', NEW j \in DOMAIN records',
                      i < j, records'[i].entity = records'[j].entity, ~records'[j].truncated
               PROVE  /\ records'[i].score <= records'[j].score
                      /\ records'[i].present \subseteq records'[j].present
                      /\ records'[i].absent \subseteq records'[j].present \cup records'[j].absent
    BY DEF KnowledgeRaises
  <2>1. CASE j \in DOMAIN records
    <3>1. i \in DOMAIN records
      BY <1>7, <2>1
    <3> QED
      BY <1>7, <2>1, <3>1 DEF CorrelationInv, KnowledgeRaises
  <2>2. CASE j = Len(records) + 1
    <3>1. i \in DOMAIN records
      BY <1>7, <2>2
    <3>2. Below(records[i], outcome)
      BY <1>5, <1>7, <1>12, <2>2, <3>1
    <3> QED
      BY <1>5, <1>7, <2>2, <3>1, <3>2 DEF Below
  <2> QED
    BY <1>7, <2>1, <2>2
<1>14. ASSUME NEW i \in DOMAIN records'
       PROVE  StillKnown(records[i])'
  <2>1. \A x : resolve_evidence(x)' = resolve_evidence(x)
    BY <1>1 DEF resolve_evidence
  <2>2. StillKnown(records'[i])
    BY <1>5, <1>7, <1>12 DEF CorrelationInv, StillKnown, evidence, outcome
  <2> QED
    BY <2>1, <2>2 DEF StillKnown
<1> QED
  BY <1>8, <1>9, <1>10, <1>11, <1>13, <1>14 DEF CorrelationInv, Unavailable

\* A brief is written for a record.
LEMMA BriefKept ==
    ASSUME CorrelationInv, NEW i \in DOMAIN records, generate_ai_brief(i)
    PROVE  CorrelationInv'
<1>1. PICK cited \in BOOLEAN :
          /\ Unavailable(records[i]) => ~cited
          /\ briefs' = briefs \cup
                {[of |-> i, status |-> IF cited THEN "grounded" ELSE "unverified",
                  cited |-> cited, asked |-> ~Unavailable(records[i])]}
  BY DEF generate_ai_brief
<1>2. UNCHANGED <<entities, open, sightings, records>>
  BY DEF generate_ai_brief
<1> DEFINE brief == [of |-> i, status |-> IF cited THEN "grounded" ELSE "unverified",
                     cited |-> cited, asked |-> ~Unavailable(records[i])]
<1>3. brief \in Briefs
  <2>1. i \in 1..MaxRecords
    BY CorrelationAssumption DEF CorrelationInv, CorrelationTypeOK
  <2>2. Unavailable(records[i]) \in BOOLEAN
    BY DEF Unavailable
  <2> QED
    BY <2>1, <2>2 DEF Briefs
<1>4. /\ brief.of = i /\ (brief.status = "grounded" => brief.cited)
      /\ brief.asked \/ brief.cited => ~Unavailable(records[i])
  BY <1>1
<1> HIDE DEF brief
<1>5. briefs' = briefs \cup {brief}
  BY <1>1 DEF brief
<1>6. CorrelationTypeOK'
  BY <1>2, <1>3, <1>5 DEF CorrelationInv, CorrelationTypeOK
<1>7. BriefHasEvidence' /\ \A b \in briefs' : b.of \in DOMAIN records'
  BY <1>2, <1>4, <1>5 DEF CorrelationInv, BriefHasEvidence
<1>8. KnowledgeRaises'
  BY <1>2 DEF CorrelationInv, KnowledgeRaises
<1>9. \A j \in DOMAIN records' : StillKnown(records[j])'
  <2>1. \A x : resolve_evidence(x)' = resolve_evidence(x)
    BY <1>2 DEF resolve_evidence
  <2> QED
    BY <1>2, <2>1 DEF CorrelationInv, StillKnown
<1> QED
  BY <1>2, <1>6, <1>7, <1>8, <1>9 DEF CorrelationInv, Unavailable

\* Each step keeps the invariant of correlation.
LEMMA CorrelationKept == CorrelationInv /\ [CorrelationNext]_correlationVars => CorrelationInv'
<1> SUFFICES ASSUME CorrelationInv, [CorrelationNext]_correlationVars
             PROVE  CorrelationInv'
  OBVIOUS
<1>1. ASSUME UNCHANGED <<entities, sightings, records, briefs>>, open' \in BOOLEAN
      PROVE  CorrelationInv'
  <2>1. CorrelationTypeOK'
    BY <1>1 DEF CorrelationInv, CorrelationTypeOK
  <2>2. ASSUME NEW e \in Types
        PROVE  /\ IsAsset(e)' = IsAsset(e) /\ RowsOf(e)' = RowsOf(e)
               /\ RowsOf(e) \in Seq(Flags)
    BY <1>1 DEF IsAsset, RowsOf, CorrelationInv, CorrelationTypeOK
  <2>3. \A e \in Types : Len(RowsOf(e)) <= Len(RowsOf(e)')
    BY <2>2
  <2> QED
    BY <1>1, <2>1, <2>2, <2>3, MoreStored
<1>2. CASE Match \/ UNCHANGED correlationVars
  BY <1>1, <1>2 DEF Match, correlationVars, CorrelationInv, CorrelationTypeOK
<1> QED
  BY <1>2, EnterKept, SightingKept, EvaluateKept, BriefKept DEF CorrelationNext

\* It holds before there is evidence.
LEMMA CorrelationStarts == CorrelationInit => CorrelationInv
<1> SUFFICES ASSUME CorrelationInit
             PROVE  CorrelationInv
  OBVIOUS
<1>1. /\ records = <<>> /\ DOMAIN records = {} /\ Len(records) = 0 /\ briefs = {}
      /\ records \in Seq(Records)
  BY DEF CorrelationInit
<1>2. CorrelationTypeOK
  <2>1. <<>> \in Seq(Flags)
    OBVIOUS
  <2>2. sightings \in [Sighted -> Seq(Flags)]
    BY <2>1 DEF CorrelationInit
  <2> QED
    BY <1>1, <2>2 DEF CorrelationInit, CorrelationTypeOK
<1>3. Len(records) <= MaxRecords
  BY <1>1, CorrelationAssumption
<1> QED
  BY <1>1, <1>2, <1>3 DEF CorrelationInv, BriefHasEvidence, KnowledgeRaises

\* Records have their types, and what they say can still be said.
THEOREM CorrelationInvariant == CorrelationSpec => []CorrelationInv
BY CorrelationStarts, CorrelationKept, PTL DEF CorrelationSpec

\* A brief rests on something the server had stored, whatever was annotated
\* (correlations.py:50-57).
THEOREM BriefsHaveEvidence == CorrelationSpec => []BriefHasEvidence
<1>1. CorrelationInv => BriefHasEvidence
  BY DEF CorrelationInv
<1> QED
  BY <1>1, CorrelationInvariant, PTL

\* A later evaluation of an entity forgets nothing of an earlier one, however sightings come
\* in between and in whatever order (evidence_resolver.py:68-69).
THEOREM KnowledgeNeverFalls == CorrelationSpec => []KnowledgeRaises
<1>1. CorrelationInv => KnowledgeRaises
  BY DEF CorrelationInv
<1> QED
  BY <1>1, CorrelationInvariant, PTL
=============================================================================
