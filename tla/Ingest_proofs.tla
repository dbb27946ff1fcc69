--------------------------- MODULE Ingest_proofs ---------------------------
(***************************************************************************)
(* What holds of the catalogue for any feeds, CVEs and exploits, however   *)
(* many runs overlap, are lost or break off.                               *)
(***************************************************************************)
EXTENDS Ingest, TLAPS

Typed ==
    /\ catalogue \in [Keys -> Rows \cup {Absent}]
    /\ \A v \in Vulns : catalogue[v] \in VulnRows \cup {Absent}
    /\ \A e \in Exploits : catalogue[e] \in ExploitRows \cup {Absent}
    /\ run \in [Slots -> Runs \cup {Idle}]

\* A column of b is that of a, or known.
Rises(a, b) ==
    /\ b.text = a.text \/ b.text # None
    /\ b.score = a.score \/ b.score # None
    /\ b.kev = a.kev \/ b.kev
    /\ b.maturity = a.maturity \/ b.maturity # "unknown"

\* What is known in a is known in b.
Keeps(a, b) ==
    /\ a.text # None => b.text # None
    /\ a.score # None => b.score # None
    /\ a.kev => b.kev
    /\ a.maturity # "unknown" => b.maturity # "unknown"

\* A row that a run has loaded: it was there if the run read it, and nobody else inserts
\* it while the run holds it; it differs from what was read only if it will be written.
RowInv(r, k) ==
    /\ k \in r.held \cup r.dirty => r.rows[k] # Unread
    /\ r.rows[k] # Unread /\ r.base[k] # Absent => catalogue[k] # Absent
    /\ k \in r.held /\ r.base[k] = Absent => catalogue[k] = Absent
    /\ r.rows[k] # Unread /\ k \notin r.held \cup r.dirty =>
          r.base[k] # Absent /\ r.rows[k] = r.base[k]

\* A vulnerability is only ever merged upwards.
VulnInv(r, v) == r.rows[v] # Unread =>
    /\ r.rows[v] \in VulnRows
    /\ r.base[v] \in VulnRows \cup {Absent}
    /\ r.base[v] # Absent =>
          /\ Rises(r.base[v], r.rows[v])
          /\ r.base[v].maturity # "unknown" => catalogue[v].maturity # "unknown"

\* An exploit that a run has linked anew has its vulnerability in hand, escalated.
ExploitInv(r, e) == r.rows[e] # Unread =>
    /\ r.rows[e] \in ExploitRows
    /\ r.base[e] \in ExploitRows \cup {Absent}
    /\ r.rows[e].vuln # None /\ (r.base[e] = Absent \/ r.rows[e].vuln # r.base[e].vuln) =>
          /\ r.rows[e].vuln \in Vulns /\ r.rows[r.rows[e].vuln] # Unread
          /\ r.rows[r.rows[e].vuln].maturity # "unknown"

RunInv(r) == r # Idle =>
    /\ \A k \in Keys : RowInv(r, k)
    /\ \A v \in Vulns : VulnInv(r, v)
    /\ \A e \in Exploits : ExploitInv(r, e)

\* Flushed rows are locked.
HeldApart ==
    \A s, t \in Slots :
        s # t /\ run[s] # Idle /\ run[t] # Idle => run[s].held \cap run[t].held = {}

IngestInv ==
    /\ Typed
    /\ LinkedMeansExploitable
    /\ \A s \in Slots : RunInv(run[s])
    /\ HeldApart

-----------------------------------------------------------------------------
(* Merging and writing rows. *)

\* A vulnerability is not an exploit.
LEMMA KeysApart ==
    /\ Vulns \subseteq Keys /\ Exploits \subseteq Keys
    /\ \A v \in Vulns, e \in Exploits : v # e
    /\ Absent # Unread /\ Absent \notin Rows /\ Unread \notin Rows
    /\ VulnRows \subseteq Rows /\ ExploitRows \subseteq Rows
BY RowsAssumption DEF Keys, Rows

\* A score has a severity.
LEMMA SeverityTyped ==
    ASSUME NEW score \in Scores \cup {None}
    PROVE  severity_from_cvss(score) \in Severities \cup {None}
<1>1. score # None => score \in 0..100
  BY IngestAssumption
<1>2. CASE score = None
  BY <1>2 DEF severity_from_cvss
<1>3. CASE score # None /\ score = 0
  BY <1>3 DEF severity_from_cvss, Severities
<1>4. CASE score # None /\ score \in 1..39
  BY <1>4 DEF severity_from_cvss, Severities
<1>5. CASE score # None /\ score \in 40..69
  BY <1>5 DEF severity_from_cvss, Severities
<1>6. CASE score # None /\ score \in 70..89
  BY <1>6 DEF severity_from_cvss, Severities
<1>7. CASE score # None /\ score \in 90..100
  BY <1>7 DEF severity_from_cvss, Severities
<1> QED
  BY <1>1, <1>2, <1>3, <1>4, <1>5, <1>6, <1>7

\* A merged record never takes knowledge away (_upsert_vulnerability).
LEMMA MergedRises ==
    ASSUME NEW feed \in Feeds, NEW r \in RecordsOf(feed), NEW row \in VulnRows
    PROVE  Merged(row, r) \in VulnRows /\ Rises(row, Merged(row, r))
<1>1. /\ r.feed = feed /\ r.text \in {"known", None} /\ r.kev \in BOOLEAN
      /\ r.score \in Scores \cup {None}
  BY DEF RecordsOf
<1>2. severity_from_cvss(r.score) \in Severities \cup {None}
  BY <1>1, SeverityTyped
<1>3. /\ row.text \in {"known", None} /\ row.score \in Scores \cup {None}
      /\ row.severity \in Severities \cup {None} /\ row.kev \in BOOLEAN
      /\ row.maturity \in Maturities /\ row.sources \subseteq Feeds
  BY DEF VulnRows
<1>4. Merged(row, r) \in VulnRows
  BY <1>1, <1>2, <1>3 DEF Merged, VulnRows, Maturities
<1>5. Rises(row, Merged(row, r))
  BY <1>1, <1>3 DEF Rises, Merged
<1> QED
  BY <1>4, <1>5

\* _upsert_exploit shows that an exploit exists.
LEMMA EscalatedRises ==
    ASSUME NEW row \in VulnRows
    PROVE  /\ Escalated(row) \in VulnRows
           /\ Escalated(row).maturity # "unknown"
           /\ \A base : Rises(base, row) => Rises(base, Escalated(row))
BY DEF Escalated, VulnRows, Maturities, Rises

\* What is written over a vulnerability keeps what others have learnt of it meanwhile.
LEMMA WrittenKeeps ==
    ASSUME NEW now \in VulnRows, NEW base \in VulnRows, NEW mine \in VulnRows,
           Rises(base, mine)
    PROVE  /\ Written(now, base, mine) \in VulnRows
           /\ Keeps(now, Written(now, base, mine))
           /\ /\ mine.maturity # "unknown"
              /\ base.maturity # "unknown" => now.maturity # "unknown"
              => Written(now, base, mine).maturity # "unknown"
<1>1. DOMAIN mine = {"text", "score", "severity", "kev", "maturity", "sources"}
  BY DEF VulnRows
<1>2. base # Absent
  BY KeysApart
<1> DEFINE w == Written(now, base, mine)
<1>3. w = [c \in {"text", "score", "severity", "kev", "maturity", "sources"} |->
              IF mine[c] = base[c] THEN now[c] ELSE mine[c]]
  BY <1>1, <1>2 DEF Written
<1> HIDE DEF w
<1>4. /\ w.text = (IF mine.text = base.text THEN now.text ELSE mine.text)
      /\ w.score = (IF mine.score = base.score THEN now.score ELSE mine.score)
      /\ w.kev = (IF mine.kev = base.kev THEN now.kev ELSE mine.kev)
      /\ w.maturity = (IF mine.maturity = base.maturity THEN now.maturity ELSE mine.maturity)
      /\ w.severity = (IF mine.severity = base.severity THEN now.severity ELSE mine.severity)
      /\ w.sources = (IF mine.sources = base.sources THEN now.sources ELSE mine.sources)
  BY <1>3
<1>5. w \in VulnRows
  BY <1>3, <1>4 DEF VulnRows
<1>6. Keeps(now, w)
  BY <1>4 DEF Keeps, Rises, VulnRows
<1>7. mine.maturity # "unknown" /\ (base.maturity # "unknown" => now.maturity # "unknown")
          => w.maturity # "unknown"
  BY <1>4
<1> QED
  BY <1>5, <1>6, <1>7 DEF w

\* An exploit's link is the one that was there or this run's.
LEMMA WrittenLink ==
    ASSUME NEW now \in ExploitRows, NEW base \in ExploitRows, NEW mine \in ExploitRows
    PROVE  /\ Written(now, base, mine) \in ExploitRows
           /\ Written(now, base, mine).vuln =
                 IF mine.vuln = base.vuln THEN now.vuln ELSE mine.vuln
<1>1. DOMAIN mine = {"vuln"} /\ base # Absent
  BY KeysApart DEF ExploitRows
<1>2. Written(now, base, mine) =
          [c \in {"vuln"} |-> IF mine[c] = base[c] THEN now[c] ELSE mine[c]]
  BY <1>1 DEF Written
<1> QED
  BY <1>2 DEF ExploitRows

-----------------------------------------------------------------------------
(* Steps of one run that commit nothing. *)

\* A step of one run keeps the invariant, if it leaves the catalogue alone and what it holds
\* then is sound and held by no other.
LEMMA OneRun ==
    ASSUME IngestInv, UNCHANGED catalogue, NEW s \in Slots, NEW x \in Runs \cup {Idle},
           run' = [run EXCEPT ![s] = x], RunInv(x),
           \A t \in Slots \ {s} :
               x # Idle /\ run[t] # Idle => x.held \cap run[t].held = {}
    PROVE  IngestInv'
<1>1. /\ run'[s] = x
      /\ \A t \in Slots \ {s} : run'[t] = run[t]
  BY DEF IngestInv, Typed
<1>2. Typed' /\ LinkedMeansExploitable'
  BY DEF IngestInv, Typed, LinkedMeansExploitable, Known
<1>3. ASSUME NEW t \in Slots
      PROVE  RunInv(run[t])'
  <2>1. RunInv(run'[t])
    BY <1>1 DEF IngestInv
  <2> QED
    BY <2>1 DEF RunInv, RowInv, VulnInv, ExploitInv
<1>4. HeldApart'
  BY <1>1 DEF IngestInv, HeldApart
<1> QED
  BY <1>2, <1>3, <1>4 DEF IngestInv

\* A run is one of Runs, with rows and keys of their types.
LEMMA Running ==
    ASSUME IngestInv, NEW s \in Slots, run[s] # Idle
    PROVE  /\ run[s] \in Runs /\ RunInv(run[s])
           /\ run[s].feed \in Feeds /\ run[s].held \subseteq Keys /\ run[s].dirty \subseteq Keys
           /\ \A k \in Keys : /\ run[s].base[k] \in Rows \cup {Absent, Unread}
                              /\ run[s].rows[k] \in Rows \cup {Unread}
BY DEF IngestInv, Typed, Runs

\* A run starts with nothing in hand.
LEMMA StartKept ==
    ASSUME IngestInv, NEW s \in Slots, NEW feed \in Feeds, Start(s, feed)
    PROVE  IngestInv'
<1> DEFINE x == [feed |-> feed, base |-> [k \in Keys |-> Unread],
                 rows |-> [k \in Keys |-> Unread], dirty |-> {}, held |-> {}]
<1>1. run' = [run EXCEPT ![s] = x] /\ UNCHANGED catalogue
  BY DEF Start
<1>2. x \in Runs
  BY DEF Runs
<1>3. RunInv(x)
  BY KeysApart DEF RunInv, RowInv, VulnInv, ExploitInv
<1>4. x.held = {}
  OBVIOUS
<1> HIDE DEF x
<1> QED
  BY <1>1, <1>2, <1>3, <1>4, OneRun

\* A run that ends without a commit leaves nothing in hand.
LEMMA LostKept ==
    ASSUME IngestInv, NEW s \in Slots, Lost(s)
    PROVE  IngestInv'
BY OneRun DEF Lost, RunInv

\* A flush takes rows that nobody holds, and inserts only what is not there.
LEMMA FlushKept ==
    ASSUME IngestInv, NEW s \in Slots, Flush(s)
    PROVE  IngestInv'
<1> DEFINE r == run[s]
           x == [r EXCEPT !.held = r.held \cup r.dirty, !.dirty = {}]
<1>1. /\ r # Idle /\ ~Duplicate(s) /\ (\A t \in Slots : ~Waits(s, t))
      /\ UNCHANGED catalogue
      /\ run' = [run EXCEPT ![s].held = r.held \cup r.dirty, ![s].dirty = {}]
  BY DEF Flush
<1>2. r \in Runs /\ RunInv(r) /\ r.held \subseteq Keys /\ r.dirty \subseteq Keys
  BY <1>1, Running
<1>3. run' = [run EXCEPT ![s] = x]
  BY <1>1, <1>2 DEF IngestInv, Typed, Runs
<1>4. /\ x \in Runs /\ x.held = r.held \cup r.dirty /\ x.dirty = {}
      /\ x.base = r.base /\ x.rows = r.rows
  BY <1>2 DEF Runs
<1>5. \A k \in r.dirty : r.base[k] = Absent => catalogue[k] = Absent
  BY <1>1 DEF Duplicate
<1>6. \A t \in Slots \ {s} : run[t] # Idle => r.dirty \cap run[t].held = {}
  BY <1>1 DEF Waits
<1>7. \A t \in Slots \ {s} : run[t] # Idle => x.held \cap run[t].held = {}
  BY <1>1, <1>4, <1>6 DEF IngestInv, HeldApart
<1> HIDE DEF x
<1>8. RunInv(x)
  <2>1. \A k \in Keys : RowInv(x, k)
    BY <1>1, <1>2, <1>4, <1>5 DEF RunInv, RowInv
  <2>2. (\A v \in Vulns : VulnInv(x, v)) /\ (\A e \in Exploits : ExploitInv(x, e))
    BY <1>1, <1>2, <1>4 DEF RunInv, VulnInv, ExploitInv
  <2> QED
    BY <2>1, <2>2 DEF RunInv
<1> QED
  BY <1>1, <1>3, <1>4, <1>7, <1>8, OneRun

-----------------------------------------------------------------------------
(* Merging. *)

\* What merging new rows does to a run.
LEMMA MergeEffect ==
    ASSUME IngestInv, NEW s \in Slots, run[s] # Idle, NEW new, NEW dirty \in SUBSET Keys,
           \A k \in DOMAIN new : new[k] \in Rows, Merge(s, new, dirty)
    PROVE  /\ UNCHANGED catalogue
           /\ run'[s] \in Runs /\ run' = [run EXCEPT ![s] = run'[s]]
           /\ run'[s].held = run[s].held /\ run'[s].dirty = dirty
           /\ \A k \in Keys : k \in DOMAIN new =>
                 run'[s].base[k] = BaseOf(s, k) /\ run'[s].rows[k] = new[k]
           /\ \A k \in Keys : k \notin DOMAIN new =>
                 run'[s].base[k] = run[s].base[k] /\ run'[s].rows[k] = run[s].rows[k]
<1> DEFINE base == [k \in Keys |-> IF k \in DOMAIN new THEN BaseOf(s, k) ELSE run[s].base[k]]
           rows == [k \in Keys |-> IF k \in DOMAIN new THEN new[k] ELSE run[s].rows[k]]
           x == [run[s] EXCEPT !.base = base, !.rows = rows, !.dirty = dirty]
<1>1. run[s] \in Runs
  BY Running
<1>2. run' = [run EXCEPT ![s].base = base, ![s].rows = rows, ![s].dirty = dirty]
  BY DEF Merge
<1>3. \A k \in Keys : BaseOf(s, k) \in Rows \cup {Absent, Unread}
  BY Running DEF BaseOf, IngestInv, Typed
<1>4. base \in [Keys -> Rows \cup {Absent, Unread}]
  BY <1>3, Running
<1>5. rows \in [Keys -> Rows \cup {Unread}]
  BY Running
<1> HIDE DEF base, rows
<1>6. x \in Runs /\ x.held = run[s].held /\ x.dirty = dirty /\ x.base = base /\ x.rows = rows
  BY <1>1, <1>4, <1>5 DEF Runs
<1>7. run' = [run EXCEPT ![s] = x]
  BY <1>1, <1>2 DEF Runs, IngestInv, Typed
<1>8. run'[s] = x
  BY <1>7 DEF IngestInv, Typed
<1> HIDE DEF x
<1>9. UNCHANGED catalogue
  BY DEF Merge
<1> QED
  BY <1>6, <1>7, <1>8, <1>9 DEF base, rows

\* A run that merges holds nothing it did not hold.
LEMMA MergedRun ==
    ASSUME IngestInv, NEW s \in Slots, run[s] # Idle, NEW new, NEW dirty \in SUBSET Keys,
           \A k \in DOMAIN new : new[k] \in Rows, Merge(s, new, dirty), RunInv(run'[s])
    PROVE  IngestInv'
<1>1. /\ UNCHANGED catalogue
      /\ run'[s] \in Runs /\ run' = [run EXCEPT ![s] = run'[s]]
      /\ run'[s].held = run[s].held
  BY MergeEffect
<1> DEFINE x == run'[s]
<1> HIDE DEF x
<1>2. run' = [run EXCEPT ![s] = x] /\ x \in Runs /\ RunInv(x) /\ x.held = run[s].held
  BY <1>1 DEF x
<1>3. \A t \in Slots \ {s} : run[t] # Idle => x.held \cap run[t].held = {}
  BY <1>2 DEF IngestInv, HeldApart
<1> QED
  BY <1>1, <1>2, <1>3, OneRun

\* A vulnerability that is merged only rises.
LEMMA PersistVulnKept ==
    ASSUME IngestInv, NEW s \in Slots, NEW v \in Vulns, PersistVuln(s, v)
    PROVE  IngestInv'
<1> DEFINE r == run[s]
           old == IF catalogue[v] = Absent THEN NewVuln ELSE catalogue[v]
<1>1. r # Idle /\ r.feed \in Feeds /\ r.dirty = {} /\ r.rows[v] = Unread
  <2>1. Idle.feed \notin VulnFeeds /\ VulnFeeds \subseteq Feeds
    BY IngestAssumption DEF Idle, VulnFeeds
  <2> QED
    BY <2>1, Running DEF PersistVuln, Loaded
<1>2. PICK rec \in RecordsOf(r.feed) : Merge(s, [k \in {v} |-> Merged(old, rec)], {v})
  BY DEF PersistVuln
<1> DEFINE m == Merged(old, rec)
           new == [k \in {v} |-> m]
<1>3. old \in VulnRows
  BY DEF NewVuln, VulnRows, Maturities, IngestInv, Typed
<1>4. m \in VulnRows /\ Rises(old, m)
  BY <1>1, <1>3, MergedRises
<1> HIDE DEF m
<1>5. DOMAIN new = {v} /\ new[v] = m
  OBVIOUS
<1>6. v \in Keys /\ {v} \in SUBSET Keys /\ \A k \in DOMAIN new : new[k] \in Rows
  BY <1>4, <1>5, KeysApart
<1> HIDE DEF new
<1>7. /\ run'[s].held = r.held /\ run'[s].dirty = {v}
      /\ run'[s].base[v] = catalogue[v] /\ run'[s].rows[v] = m
      /\ \A k \in Keys \ {v} :
            run'[s].base[k] = r.base[k] /\ run'[s].rows[k] = r.rows[k]
  BY <1>1, <1>2, <1>5, <1>6, MergeEffect DEF BaseOf, Loaded, new, m
<1>8. RunInv(r)
  BY DEF IngestInv
<1>9. RunInv(run'[s])
  <2> DEFINE x == run'[s]
  <2> HIDE DEF x
  <2>1. /\ x.held = r.held /\ x.dirty = {v} /\ x.base[v] = catalogue[v] /\ x.rows[v] = m
        /\ \A k \in Keys \ {v} : x.base[k] = r.base[k] /\ x.rows[k] = r.rows[k]
    BY <1>7 DEF x
  <2>2. m # Unread /\ v \notin r.held
    BY <1>1, <1>4, <1>6, <1>8, KeysApart DEF RunInv, RowInv
  <2>3. \A k \in Keys : RowInv(x, k)
    BY <1>1, <1>8, <2>1, <2>2 DEF RunInv, RowInv
  <2>4. VulnInv(x, v)
    BY <1>3, <1>4, <2>1 DEF VulnInv, IngestInv, Typed
  <2>5. \A w \in Vulns : VulnInv(x, w)
    BY <1>1, <1>8, <2>1, <2>4, KeysApart DEF RunInv, VulnInv
  <2>6. \A e \in Exploits : ExploitInv(x, e)
    BY <1>1, <1>8, <2>1, KeysApart DEF RunInv, ExploitInv
  <2> QED
    BY <2>3, <2>5, <2>6 DEF RunInv, x
<1> QED
  BY <1>1, <1>2, <1>6, <1>9, MergedRun DEF new, m

\* An exploit none of whose CVEs is known stays as it is, and is not linked anew.
LEMMA PersistUnlinkedKept ==
    ASSUME IngestInv, NEW s \in Slots, NEW e \in Exploits, run[s] # Idle,
           run[s].dirty = {}, run[s].rows[e] = Unread,
           Merge(s, [k \in {e} |->
               IF catalogue[e] = Absent THEN [vuln |-> None] ELSE catalogue[e]], {e})
    PROVE  IngestInv'
<1> DEFINE r == run[s]
           m == IF catalogue[e] = Absent THEN [vuln |-> None] ELSE catalogue[e]
           new == [k \in {e} |-> m]
           x == run'[s]
<1>1. m \in ExploitRows /\ (catalogue[e] # Absent => m = catalogue[e])
      /\ (catalogue[e] = Absent => m.vuln = None)
  BY DEF ExploitRows, IngestInv, Typed
<1> HIDE DEF m
<1>2. DOMAIN new = {e} /\ new[e] = m
  OBVIOUS
<1>3. e \in Keys /\ {e} \in SUBSET Keys /\ \A k \in DOMAIN new : new[k] \in Rows
  BY <1>1, <1>2, KeysApart
<1>4. Merge(s, new, {e})
  BY DEF m
<1> HIDE DEF new
<1>5. /\ x.held = r.held /\ x.dirty = {e} /\ x.base[e] = catalogue[e] /\ x.rows[e] = m
      /\ \A k \in Keys \ {e} : x.base[k] = r.base[k] /\ x.rows[k] = r.rows[k]
  BY <1>2, <1>3, <1>4, MergeEffect DEF BaseOf, Loaded
<1>6. RunInv(r)
  BY DEF IngestInv
<1>7. RunInv(x)
  <2> HIDE DEF x
  <2>1. m # Unread /\ e \notin r.held
    BY <1>1, <1>3, <1>6, KeysApart DEF RunInv, RowInv
  <2>2. \A k \in Keys : RowInv(x, k)
    BY <1>5, <1>6, <2>1 DEF RunInv, RowInv
  <2>3. \A v \in Vulns : VulnInv(x, v)
    BY <1>5, <1>6, KeysApart DEF RunInv, VulnInv
  <2>4. ExploitInv(x, e)
    BY <1>1, <1>5 DEF ExploitInv, IngestInv, Typed
  <2>5. \A f \in Exploits : ExploitInv(x, f)
    BY <1>5, <1>6, <2>4, KeysApart DEF RunInv, ExploitInv
  <2> QED
    BY <2>2, <2>3, <2>5 DEF RunInv
<1> QED
  BY <1>3, <1>4, <1>7, MergedRun

\* Linking an exploit in a run leaves its other rows as they were.
LEMMA MergedLink ==
    ASSUME NEW r, NEW x, RunInv(r), r # Idle, r.dirty = {},
           NEW e \in Exploits, NEW v \in Vulns, e # v, e \notin r.held, r.rows[e] = Unread,
           x.held = r.held, e \in x.dirty, x.dirty \subseteq {e, v},
           x.base[e] = catalogue[e], x.rows[e] = [vuln |-> v],
           x.rows[v] # Unread, x.rows[v].maturity # "unknown",
           \A k \in Keys \ {e, v} : x.base[k] = r.base[k] /\ x.rows[k] = r.rows[k],
           catalogue[e] \in ExploitRows \cup {Absent}, RowInv(x, v), VulnInv(x, v)
    PROVE  RunInv(x)
<1>1. x.rows[e] \in ExploitRows /\ x.rows[e] # Unread /\ x.rows[e].vuln = v
  BY KeysApart DEF ExploitRows
<1>2. \A k \in Keys : RowInv(x, k)
  BY <1>1 DEF RunInv, RowInv
<1>3. \A w \in Vulns : VulnInv(x, w)
  BY KeysApart DEF RunInv, VulnInv
<1>4. ExploitInv(x, e)
  BY <1>1 DEF ExploitInv
<1>5. ASSUME NEW f \in Exploits, f # e
      PROVE  ExploitInv(x, f)
  <2>1. x.base[f] = r.base[f] /\ x.rows[f] = r.rows[f] /\ ExploitInv(r, f)
    BY <1>5, KeysApart DEF RunInv
  <2> QED
    BY <2>1, KeysApart DEF ExploitInv
<1> QED
  BY <1>2, <1>3, <1>4, <1>5 DEF RunInv

\* An exploit is linked to a vulnerability that is known and escalated with it.
LEMMA PersistLinkedKept ==
    ASSUME IngestInv, NEW s \in Slots, NEW e \in Exploits, NEW v \in Vulns, run[s] # Idle,
           run[s].dirty = {}, run[s].rows[e] = Unread, Seen(s, v) # Absent,
           Merge(s, [k \in {e, v} |-> IF k = e THEN [vuln |-> v] ELSE Escalated(Seen(s, v))],
                 IF Escalated(Seen(s, v)) = Seen(s, v) THEN {e} ELSE {e, v})
    PROVE  IngestInv'
<1> DEFINE r == run[s]
           seen == Seen(s, v)
           m == Escalated(seen)
           l == [vuln |-> v]
           new == [k \in {e, v} |-> IF k = e THEN l ELSE m]
           dirty == IF m = seen THEN {e} ELSE {e, v}
           x == run'[s]
<1>1. RunInv(r)
  BY DEF IngestInv
<1>2. seen \in VulnRows
  BY <1>1, KeysApart DEF Seen, Loaded, RunInv, VulnInv, IngestInv, Typed
<1>3. m \in VulnRows /\ m.maturity # "unknown" /\ \A base : Rises(base, seen) => Rises(base, m)
  BY <1>2, EscalatedRises
<1>4. l \in ExploitRows /\ l.vuln = v
  BY DEF ExploitRows
<1>5. e # v /\ e \in Keys /\ v \in Keys /\ l # Unread /\ m # Unread
  BY <1>3, <1>4, KeysApart
<1> HIDE DEF l
<1>6. Merge(s, new, dirty)
  BY DEF l
<1> HIDE DEF m
<1>7. DOMAIN new = {e, v} /\ new[e] = l /\ new[v] = m
  BY <1>5
<1>8. (\A k \in DOMAIN new : new[k] \in Rows) /\ dirty \in SUBSET Keys
  BY <1>3, <1>4, <1>5, <1>7, KeysApart
<1>9. e \in dirty /\ dirty \subseteq {e, v} /\ (m # seen => v \in dirty)
  OBVIOUS
<1> HIDE DEF new, dirty
<1>10. /\ x.held = r.held /\ x.dirty = dirty /\ x.base[e] = catalogue[e] /\ x.rows[e] = l
       /\ x.base[v] = BaseOf(s, v) /\ x.rows[v] = m
       /\ \A k \in Keys \ {e, v} : x.base[k] = r.base[k] /\ x.rows[k] = r.rows[k]
  BY <1>5, <1>6, <1>7, <1>8, MergeEffect DEF BaseOf, Loaded
<1>11. catalogue[e] \in ExploitRows \cup {Absent}
  BY DEF IngestInv, Typed
<1>12. RunInv(x)
  <2> HIDE DEF x, seen
  <2>1. e \notin r.held
    BY <1>1, <1>5 DEF RunInv, RowInv
  <2>2. CASE r.rows[v] = Unread
    <3>1. x.base[v] = catalogue[v] /\ seen = catalogue[v] /\ catalogue[v] # Absent
      BY <1>10, <2>2 DEF BaseOf, Loaded, Seen, seen
    <3>2. v \notin r.held
      BY <1>1, <1>5, <2>2 DEF RunInv, RowInv
    <3>3. RowInv(x, v)
      BY <1>5, <1>9, <1>10, <3>1, <3>2 DEF RowInv
    <3>4. VulnInv(x, v)
      <4>1. Rises(seen, seen)
        BY DEF Rises
      <4> QED
        BY <1>2, <1>3, <1>10, <3>1, <4>1 DEF VulnInv
    <3> QED
      BY <1>1, <1>3, <1>5, <1>9, <1>10, <1>11, <2>1, <3>3, <3>4, MergedLink DEF l
  <2>3. CASE r.rows[v] # Unread
    <3>1. x.base[v] = r.base[v] /\ seen = r.rows[v]
      BY <1>10, <2>3 DEF BaseOf, Loaded, Seen, seen
    <3>2. RowInv(r, v) /\ VulnInv(r, v)
      BY <1>1, <1>5 DEF RunInv
    <3>3. RowInv(x, v)
      BY <1>5, <1>9, <1>10, <2>3, <3>1, <3>2 DEF RowInv
    <3>4. VulnInv(x, v)
      BY <1>3, <1>10, <2>3, <3>1, <3>2 DEF VulnInv
    <3> QED
      BY <1>1, <1>3, <1>5, <1>9, <1>10, <1>11, <2>1, <3>3, <3>4, MergedLink DEF l
  <2> QED
    BY <2>2, <2>3
<1> QED
  BY <1>6, <1>8, <1>12, MergedRun

-----------------------------------------------------------------------------
(* Committing. *)

\* A commit adds rows and raises those that are there.
LEMMA FinishEffect ==
    ASSUME IngestInv, NEW s \in Slots, Finish(s)
    PROVE  /\ \A k \in Keys : catalogue'[k] = IF k \in run[s].held
                  THEN Written(catalogue[k], run[s].base[k], run[s].rows[k]) ELSE catalogue[k]
           /\ \A v \in Vulns :
                 /\ catalogue'[v] \in VulnRows \cup {Absent}
                 /\ catalogue[v] # Absent =>
                       catalogue'[v] # Absent /\ Keeps(catalogue[v], catalogue'[v])
                 /\ run[s].rows[v] # Unread /\ run[s].rows[v].maturity # "unknown" =>
                       catalogue'[v] # Absent /\ catalogue'[v].maturity # "unknown"
           /\ \A e \in Exploits :
                 /\ catalogue'[e] \in ExploitRows \cup {Absent}
                 /\ catalogue[e] # Absent => catalogue'[e] # Absent
                 /\ catalogue'[e] # Absent /\ catalogue'[e].vuln # None =>
                       \/ catalogue[e] # Absent /\ catalogue[e].vuln = catalogue'[e].vuln
                       \/ LET v == catalogue'[e].vuln IN
                          /\ v \in Vulns /\ run[s].rows[v] # Unread
                          /\ run[s].rows[v].maturity # "unknown"
<1> DEFINE r == run[s]
<1>1. r # Idle /\ RunInv(r) /\ r.dirty = {}
  BY DEF Finish, IngestInv
<1>2. \A k \in Keys : catalogue'[k] = IF k \in r.held
          THEN Written(catalogue[k], r.base[k], r.rows[k]) ELSE catalogue[k]
  BY DEF Finish
<1> HIDE DEF r
<1>3. ASSUME NEW v \in Vulns
      PROVE  /\ catalogue'[v] \in VulnRows \cup {Absent}
             /\ catalogue[v] # Absent =>
                   catalogue'[v] # Absent /\ Keeps(catalogue[v], catalogue'[v])
             /\ r.rows[v] # Unread /\ r.rows[v].maturity # "unknown" =>
                   catalogue'[v] # Absent /\ catalogue'[v].maturity # "unknown"
  <2>1. v \in Keys /\ RowInv(r, v) /\ VulnInv(r, v) /\ catalogue[v] \in VulnRows \cup {Absent}
    BY <1>1, KeysApart DEF RunInv, IngestInv, Typed
  <2>2. CASE v \notin r.held
    <3>1. catalogue'[v] = catalogue[v] /\ Keeps(catalogue[v], catalogue[v])
      BY <1>2, <2>1, <2>2 DEF Keeps
    <3>2. r.rows[v] # Unread => catalogue[v] # Absent /\ r.base[v] # Absent /\ r.rows[v] = r.base[v]
      BY <1>1, <2>1, <2>2 DEF RowInv
    <3> QED
      BY <2>1, <3>1, <3>2 DEF VulnInv
  <2>3. CASE v \in r.held /\ r.base[v] = Absent
    <3>1. catalogue[v] = Absent /\ catalogue'[v] = r.rows[v] /\ r.rows[v] # Unread
      BY <1>2, <2>1, <2>3 DEF RowInv, Written
    <3> QED
      BY <2>1, <3>1, KeysApart DEF VulnInv
  <2>4. CASE v \in r.held /\ r.base[v] # Absent
    <3>1. /\ r.rows[v] \in VulnRows /\ r.base[v] \in VulnRows /\ Rises(r.base[v], r.rows[v])
          /\ r.base[v].maturity # "unknown" => catalogue[v].maturity # "unknown"
          /\ catalogue[v] \in VulnRows
      BY <2>1, <2>4 DEF RowInv, VulnInv
    <3>2. catalogue'[v] = Written(catalogue[v], r.base[v], r.rows[v])
      BY <1>2, <2>1, <2>4
    <3> QED
      BY <3>1, <3>2, WrittenKeeps, KeysApart
  <2> QED
    BY <2>2, <2>3, <2>4
<1>4. ASSUME NEW e \in Exploits
      PROVE  /\ catalogue'[e] \in ExploitRows \cup {Absent}
             /\ catalogue[e] # Absent => catalogue'[e] # Absent
             /\ catalogue'[e] # Absent /\ catalogue'[e].vuln # None =>
                   \/ catalogue[e] # Absent /\ catalogue[e].vuln = catalogue'[e].vuln
                   \/ LET v == catalogue'[e].vuln IN
                      v \in Vulns /\ r.rows[v] # Unread /\ r.rows[v].maturity # "unknown"
  <2>1. e \in Keys /\ RowInv(r, e) /\ ExploitInv(r, e)
        /\ catalogue[e] \in ExploitRows \cup {Absent}
    BY <1>1, KeysApart DEF RunInv, IngestInv, Typed
  <2>2. CASE e \notin r.held
    BY <1>2, <2>1, <2>2
  <2>3. CASE e \in r.held /\ r.base[e] = Absent
    <3>1. catalogue[e] = Absent /\ catalogue'[e] = r.rows[e] /\ r.rows[e] # Unread
      BY <1>2, <2>1, <2>3 DEF RowInv, Written
    <3> QED
      BY <2>1, <2>3, <3>1 DEF ExploitInv
  <2>4. CASE e \in r.held /\ r.base[e] # Absent
    <3>1. r.rows[e] \in ExploitRows /\ r.base[e] \in ExploitRows /\ catalogue[e] \in ExploitRows
          /\ r.rows[e] # Unread /\ catalogue[e] # Absent
      BY <2>1, <2>4 DEF RowInv, ExploitInv
    <3>2. catalogue'[e] = Written(catalogue[e], r.base[e], r.rows[e])
      BY <1>2, <2>1, <2>4
    <3>3. /\ catalogue'[e] \in ExploitRows
          /\ catalogue'[e].vuln = IF r.rows[e].vuln = r.base[e].vuln THEN catalogue[e].vuln
                                  ELSE r.rows[e].vuln
      BY <3>1, <3>2, WrittenLink
    <3> QED
      BY <2>1, <3>1, <3>3, KeysApart DEF ExploitInv
  <2> QED
    BY <2>2, <2>3, <2>4
<1> QED
  BY <1>2, <1>3, <1>4 DEF r

\* A commit keeps the rows.
LEMMA FinishKept ==
    ASSUME IngestInv, NEW s \in Slots, Finish(s)
    PROVE  IngestInv'
<1>1. /\ run'[s] = Idle /\ run[s] # Idle
      /\ \A t \in Slots \ {s} : run'[t] = run[t]
      /\ run' = [run EXCEPT ![s] = Idle]
  BY DEF Finish, IngestInv, Typed
<1>2. Typed'
  <2>1. \A v \in Vulns : catalogue'[v] \in VulnRows \cup {Absent}
    BY FinishEffect
  <2>2. \A e \in Exploits : catalogue'[e] \in ExploitRows \cup {Absent}
    BY FinishEffect
  <2>3. catalogue' \in [Keys -> Rows \cup {Absent}]
    BY <2>1, <2>2, KeysApart DEF Finish, Keys
  <2> QED
    BY <1>1, <2>1, <2>2, <2>3 DEF IngestInv, Typed
<1>3. \A v \in Vulns : catalogue[v] # Absent =>
          catalogue'[v] # Absent /\ Keeps(catalogue[v], catalogue'[v])
  BY FinishEffect
<1>4. LinkedMeansExploitable'
  <2> SUFFICES ASSUME NEW e \in Exploits, catalogue'[e] # Absent, catalogue'[e].vuln # None
               PROVE  /\ catalogue'[catalogue'[e].vuln] # Absent
                      /\ catalogue'[catalogue'[e].vuln].maturity # "unknown"
    BY DEF LinkedMeansExploitable, Known
  <2> DEFINE v == catalogue'[e].vuln
  <2>1. v \in Vulns
    BY <1>2 DEF Typed, ExploitRows
  <2>2. CASE catalogue[e] # Absent /\ catalogue[e].vuln = v
    <3>1. catalogue[v] # Absent /\ catalogue[v].maturity # "unknown"
      BY <2>2 DEF IngestInv, LinkedMeansExploitable, Known
    <3> QED
      BY <1>3, <2>1, <3>1 DEF Keeps
  <2>3. CASE run[s].rows[v] # Unread /\ run[s].rows[v].maturity # "unknown"
    BY <2>1, <2>3, FinishEffect
  <2> QED
    BY <2>2, <2>3, FinishEffect
<1>5. ASSUME NEW t \in Slots
      PROVE  RunInv(run[t])'
  <2>1. CASE t = s
    BY <1>1, <2>1 DEF RunInv
  <2>2. CASE t # s
    <3>1. SUFFICES ASSUME run[t] # Idle
                   PROVE  /\ \A k \in Keys : RowInv(run[t], k)'
                          /\ \A v \in Vulns : VulnInv(run[t], v)'
                          /\ \A e \in Exploits : ExploitInv(run[t], e)'
      BY <1>1, <2>2 DEF RunInv
    <3>2. run'[t] = run[t] /\ RunInv(run[t]) /\ run[s].held \cap run[t].held = {}
      BY <1>1, <2>2, <3>1 DEF IngestInv, HeldApart
    <3>3. ASSUME NEW k \in Keys
          PROVE  RowInv(run[t], k)'
      <4>1. catalogue[k] # Absent => catalogue'[k] # Absent
        BY FinishEffect DEF Keys
      <4>2. k \in run[t].held => catalogue'[k] = catalogue[k]
        BY <3>2, FinishEffect
      <4> QED
        BY <3>1, <3>2, <4>1, <4>2 DEF RunInv, RowInv
    <3>4. ASSUME NEW v \in Vulns
          PROVE  VulnInv(run[t], v)'
      <4>1. VulnInv(run[t], v) /\ RowInv(run[t], v)
        BY <3>1, <3>2, KeysApart DEF RunInv
      <4> QED
        BY <1>3, <3>2, <4>1 DEF VulnInv, RowInv, Keeps
    <3>5. ASSUME NEW e \in Exploits
          PROVE  ExploitInv(run[t], e)'
      BY <3>1, <3>2 DEF RunInv, ExploitInv
    <3> QED
      BY <3>3, <3>4, <3>5
  <2> QED
    BY <2>1, <2>2
<1>6. HeldApart'
  BY <1>1 DEF IngestInv, HeldApart
<1> QED
  BY <1>2, <1>4, <1>5, <1>6 DEF IngestInv

-----------------------------------------------------------------------------

\* Each step keeps the invariant of ingest.
LEMMA IngestKept == IngestInv /\ [Next]_vars => IngestInv'
<1> SUFFICES ASSUME IngestInv, [Next]_vars
             PROVE  IngestInv'
  OBVIOUS
<1>1. ASSUME NEW s \in Slots, NEW e \in Exploits, PersistExploit(s, e)
      PROVE  IngestInv'
  <2>1. run[s] # Idle /\ run[s].dirty = {} /\ run[s].rows[e] = Unread
    BY <1>1 DEF PersistExploit, Idle, Loaded
  <2>2. CASE Merge(s, [k \in {e} |->
                IF catalogue[e] = Absent THEN [vuln |-> None] ELSE catalogue[e]], {e})
    BY <2>1, <2>2, PersistUnlinkedKept
  <2>3. ASSUME NEW i \in KnownCves(s, e), NEW v, v = cve_ids[e][i],
               Merge(s, [k \in {e, v} |-> IF k = e THEN [vuln |-> v] ELSE Escalated(Seen(s, v))],
                     IF Escalated(Seen(s, v)) = Seen(s, v) THEN {e} ELSE {e, v})
        PROVE  IngestInv'
    <3>1. v \in Vulns /\ Seen(s, v) # Absent
      BY <2>3, IngestAssumption DEF KnownCves
    <3> QED
      BY <2>1, <2>3, <3>1, PersistLinkedKept
  <2> QED
    BY <1>1, <2>2, <2>3 DEF PersistExploit
<1>2. ASSUME NEW s \in Slots, Refused(s) \/ Die(s)
      PROVE  IngestInv'
  BY <1>2, LostKept DEF Refused, Die
<1>3. CASE UNCHANGED vars
  BY <1>3 DEF vars, IngestInv, Typed, LinkedMeansExploitable, Known, RunInv, RowInv, VulnInv,
              ExploitInv, HeldApart
<1> QED
  BY <1>1, <1>2, <1>3, StartKept, PersistVulnKept, FlushKept, FinishKept DEF Next

\* It holds of an empty catalogue.
LEMMA IngestStarts == Init => IngestInv
<1> SUFFICES ASSUME Init
             PROVE  IngestInv
  OBVIOUS
<1>1. Typed
  BY DEF Init, Typed, Keys
<1>2. LinkedMeansExploitable
  BY KeysApart DEF Init, LinkedMeansExploitable
<1>3. HeldApart /\ \A s \in Slots : RunInv(run[s])
  BY DEF Init, HeldApart, RunInv
<1> QED
  BY <1>1, <1>2, <1>3 DEF IngestInv

\* Rows have their types, and what runs have in hand fits what is committed.
THEOREM IngestInvariant == Spec => []IngestInv
BY IngestStarts, IngestKept, PTL DEF Spec

\* Every exploit's vulnerability is there and known to be exploitable, though the run that
\* found it so may have had a stale row in hand (pipeline.py:228-241).
THEOREM LinksMeanExploitable == Spec => []LinkedMeansExploitable
<1>1. IngestInv => LinkedMeansExploitable
  BY DEF IngestInv
<1> QED
  BY <1>1, IngestInvariant, PTL

\* Nothing that is known of a vulnerability is lost to a run that read it before
\* (pipeline.py:179).
THEOREM KnowledgeStays == Spec => KnownStaysKnown
<1>1. IngestInv /\ [Next]_vars =>
          [\A v \in Vulns : Known(v) =>
              /\ catalogue'[v] # Absent
              /\ catalogue[v].text # None => catalogue'[v].text # None
              /\ catalogue[v].score # None => catalogue'[v].score # None
              /\ catalogue[v].kev => catalogue'[v].kev]_vars
  <2> SUFFICES ASSUME IngestInv, Next, NEW v \in Vulns, Known(v)
               PROVE  catalogue'[v] # Absent /\ Keeps(catalogue[v], catalogue'[v])
    BY DEF Keeps
  <2>1. CASE UNCHANGED catalogue
    BY <2>1 DEF Known, Keeps
  <2>2. ASSUME NEW s \in Slots, Finish(s)
        PROVE  catalogue'[v] # Absent /\ Keeps(catalogue[v], catalogue'[v])
    BY <2>2, FinishEffect DEF Known
  <2>3. ASSUME NEW s \in Slots, NEW w \in Vulns, PersistVuln(s, w)
        PROVE  UNCHANGED catalogue
    BY <2>3 DEF PersistVuln, Merge
  <2>4. ASSUME NEW s \in Slots, NEW e \in Exploits, PersistExploit(s, e)
        PROVE  UNCHANGED catalogue
    BY <2>4 DEF PersistExploit, Merge
  <2>5. ASSUME NEW s \in Slots, NEW feed, Start(s, feed) \/ Flush(s) \/ Refused(s) \/ Die(s)
        PROVE  UNCHANGED catalogue
    BY <2>5 DEF Start, Flush, Refused, Die, Lost
  <2> QED
    BY <2>1, <2>2, <2>3, <2>4, <2>5 DEF Next
<1> QED
  BY <1>1, IngestInvariant, PTL DEF Spec, KnownStaysKnown
-----------------------------------------------------------------------------
(* The order of deliveries. *)

Committed(v) == IF catalogue[v] = Absent THEN By(v) = {} ELSE Agrees(catalogue[v], By(v))

\* A run that has a vulnerability in hand read what is committed, and has merged its feed.
InHand(r, v) == r # Idle /\ r.rows[v] # Unread =>
    /\ r.base[v] = catalogue[v]
    /\ Agrees(r.rows[v], By(v) \cup {r.feed})

Alone(v) ==
    \A s, t \in Slots : s # t /\ run[s] # Idle /\ run[t] # Idle =>
        run[s].rows[v] = Unread \/ run[t].rows[v] = Unread

MergeInv ==
    \A v \in Vulns \ raced : Committed(v) /\ Alone(v) /\ \A s \in Slots : InHand(run[s], v)

\* The severity is that of the score.
LEMMA SeverityOf ==
    ASSUME NEW score \in Scores \cup {None}
    PROVE  /\ (severity_from_cvss(score) = "critical") = (score # None /\ score >= 90)
           /\ (severity_from_cvss(score) = None) = (score = None)
<1>1. score # None => score \in 0..100
  BY IngestAssumption
<1>2. \A x \in Severities : x # None
  BY RowsAssumption
<1> USE DEF Severities
<1>3. CASE score = None
  BY <1>2, <1>3 DEF severity_from_cvss
<1>4. CASE score # None /\ score = 0
  BY <1>2, <1>4 DEF severity_from_cvss
<1>5. CASE score # None /\ score \in 1..39
  BY <1>2, <1>5 DEF severity_from_cvss
<1>6. CASE score # None /\ score \in 40..69
  BY <1>2, <1>6 DEF severity_from_cvss
<1>7. CASE score # None /\ score \in 70..89
  BY <1>2, <1>7 DEF severity_from_cvss
<1>8. CASE score # None /\ score \in 90..100
  BY <1>2, <1>8 DEF severity_from_cvss
<1> QED
  BY <1>1, <1>3, <1>4, <1>5, <1>6, <1>7, <1>8

\* A record makes a row say what its feed delivers (_upsert_vulnerability).
LEMMA MergedAgrees ==
    ASSUME NEW feed \in VulnFeeds, NEW r \in RecordsOf(feed), NEW row \in VulnRows,
           NEW B \in SUBSET Feeds, Agrees(row, B)
    PROVE  Agrees(Merged(row, r), B \cup {feed})
<1>1. /\ r.feed = feed /\ r.kev = (feed = "cisa_kev") /\ feed # "exploitdb"
      /\ r.score \in Scores \cup {None}
  BY DEF RecordsOf, VulnFeeds
<1>2. /\ (severity_from_cvss(r.score) = "critical") = (r.score # None /\ r.score >= 90)
      /\ (severity_from_cvss(r.score) = None) = (r.score = None)
  BY <1>1, SeverityOf
<1> DEFINE m == Merged(row, r)
<1>3. /\ m.score = IF r.score = None THEN row.score ELSE r.score
      /\ m.severity = IF r.score = None THEN row.severity ELSE severity_from_cvss(r.score)
      /\ m.kev = (row.kev \/ r.kev)
      /\ m.maturity = IF r.kev THEN "weaponized" ELSE row.maturity
      /\ m.sources = row.sources \cup {feed}
  BY <1>1 DEF Merged
<1> HIDE DEF m
<1>4. /\ (m.severity = "critical") = (m.score # None /\ m.score >= 90)
      /\ (m.severity = None) = (m.score = None)
  BY <1>2, <1>3 DEF Agrees
<1>5. m.sources = (B \cup {feed}) \cap VulnFeeds
  BY <1>3 DEF Agrees
<1>6. row.kev = ("cisa_kev" \in B)
  BY DEF Agrees
<1>7. m.kev = ("cisa_kev" \in B \cup {feed})
  <2>1. m.kev = (("cisa_kev" \in B) \/ (feed = "cisa_kev"))
    BY <1>1, <1>3, <1>6, Zenon
  <2> QED
    BY <2>1
<1>8. m.maturity = IF "cisa_kev" \in B \cup {feed} THEN "weaponized"
                   ELSE IF "exploitdb" \in B \cup {feed} THEN "poc" ELSE "unknown"
  BY <1>1, <1>3 DEF Agrees
<1> QED
  BY <1>4, <1>5, <1>7, <1>8 DEF Agrees, m

\* An exploit makes a row say that there is one (_upsert_exploit), if nothing has before.
LEMMA EscalatedAgrees ==
    ASSUME NEW row \in VulnRows, NEW B \in SUBSET Feeds, Agrees(row, B)
    PROVE  Agrees(Escalated(row), B \cup {"exploitdb"})
<1>1. /\ Escalated(row).sources = row.sources /\ Escalated(row).kev = row.kev
      /\ Escalated(row).severity = row.severity /\ Escalated(row).score = row.score
      /\ Escalated(row).maturity = IF row.maturity = "unknown" THEN "poc" ELSE row.maturity
  BY DEF Escalated, VulnRows
<1> QED
  BY <1>1 DEF Agrees, VulnFeeds

\* A row of which nobody knows says what no feed has delivered.
LEMMA NewAgrees == NewVuln \in VulnRows /\ Agrees(NewVuln, {})
<1>1. None # "critical"
  BY RowsAssumption DEF Severities
<1>2. NewVuln \in VulnRows
  BY DEF NewVuln, VulnRows, Maturities
<1>3. /\ NewVuln.sources = {} /\ NewVuln.kev = FALSE /\ NewVuln.maturity = "unknown"
      /\ NewVuln.severity = None /\ NewVuln.score = None
  BY DEF NewVuln
<1>4. NewVuln.kev = ("cisa_kev" \in {})
  <2>1. ("cisa_kev" \in {}) = FALSE
    OBVIOUS
  <2> QED
    BY <1>3, <2>1
<1>5. (NewVuln.severity = "critical") = (NewVuln.score # None /\ NewVuln.score >= 90)
  BY <1>1, <1>3
<1>6. Agrees(NewVuln, {})
  BY <1>3, <1>4, <1>5 DEF Agrees
<1> QED
  BY <1>2, <1>6

\* A step of one run that commits nothing.
LEMMA OneMerge ==
    ASSUME IngestInv, MergeInv, UNCHANGED <<catalogue, delivered>>, raced \subseteq raced',
           NEW s \in Slots, NEW x \in Runs \cup {Idle}, run' = [run EXCEPT ![s] = x],
           \A v \in Vulns \ raced' : x # Idle /\ x.rows[v] # Unread =>
               /\ InHand(x, v)
               /\ \A t \in Slots \ {s} : run[t] # Idle => run[t].rows[v] = Unread
    PROVE  MergeInv'
<1>1. /\ run'[s] = x
      /\ \A t \in Slots \ {s} : run'[t] = run[t]
  BY DEF IngestInv, Typed
<1>2. SUFFICES ASSUME NEW v \in Vulns \ raced'
               PROVE  (Committed(v) /\ Alone(v) /\ \A t \in Slots : InHand(run[t], v))'
  BY DEF MergeInv
<1>3. Committed(v) /\ Alone(v) /\ \A t \in Slots : InHand(run[t], v)
  BY DEF MergeInv
<1>4. By(v)' = By(v)
  BY DEF By
<1>5. Committed(v)'
  BY <1>3, <1>4 DEF Committed
<1>6. Alone(v)'
  BY <1>1, <1>3 DEF Alone
<1>7. ASSUME NEW t \in Slots
      PROVE  InHand(run[t], v)'
  <2>1. InHand(run'[t], v)
    BY <1>1, <1>3 DEF InHand
  <2> QED
    BY <1>4, <2>1 DEF InHand
<1> QED
  BY <1>5, <1>6, <1>7

\* A run has merged nothing when it starts.
LEMMA MergeInvStart ==
    ASSUME IngestInv, MergeInv, NEW s \in Slots, NEW feed \in Feeds, Start(s, feed)
    PROVE  MergeInv'
<1> DEFINE x == [feed |-> feed, base |-> [k \in Keys |-> Unread],
                 rows |-> [k \in Keys |-> Unread], dirty |-> {}, held |-> {}]
<1>1. run' = [run EXCEPT ![s] = x] /\ UNCHANGED <<catalogue, delivered, raced>>
  BY DEF Start
<1>2. x \in Runs
  BY DEF Runs
<1>3. \A v \in Vulns : x.rows[v] = Unread
  BY KeysApart
<1> HIDE DEF x
<1> QED
  BY <1>1, <1>2, <1>3, OneMerge

\* A run that ends without a commit has delivered nothing.
LEMMA MergeInvLost ==
    ASSUME IngestInv, MergeInv, NEW s \in Slots, Lost(s)
    PROVE  MergeInv'
BY OneMerge DEF Lost

\* What a flush writes loses nothing that others have delivered.
LEMMA MergeInvFlush ==
    ASSUME IngestInv, MergeInv, NEW s \in Slots, Flush(s)
    PROVE  MergeInv'
<1> DEFINE r == run[s]
           x == [r EXCEPT !.held = r.held \cup r.dirty, !.dirty = {}]
<1>1. /\ r # Idle /\ UNCHANGED <<catalogue, delivered, raced>>
      /\ run' = [run EXCEPT ![s].held = r.held \cup r.dirty, ![s].dirty = {}]
  BY DEF Flush
<1>2. r \in Runs /\ r.held \subseteq Keys /\ r.dirty \subseteq Keys
  BY <1>1, Running
<1>3. run' = [run EXCEPT ![s] = x]
  BY <1>1, <1>2 DEF IngestInv, Typed, Runs
<1>4. x \in Runs /\ x.feed = r.feed /\ x.base = r.base /\ x.rows = r.rows
  BY <1>2 DEF Runs
<1> HIDE DEF x
<1>5. ASSUME NEW v \in Vulns \ raced, x.rows[v] # Unread
      PROVE  InHand(x, v) /\ \A t \in Slots \ {s} : run[t] # Idle => run[t].rows[v] = Unread
  <2>1. InHand(r, v) /\ Alone(v)
    BY DEF MergeInv
  <2> QED
    BY <1>1, <1>4, <1>5, <2>1 DEF InHand, Alone
<1>6. UNCHANGED <<catalogue, delivered>> /\ raced' = raced
  BY <1>1
<1> HIDE DEF r
<1> QED
  BY <1>3, <1>4, <1>5, <1>6, OneMerge

\* A run that merges has alone in hand what no two have had.
LEMMA MergedInHand ==
    ASSUME IngestInv, MergeInv, NEW s \in Slots, run[s] # Idle, NEW new,
           NEW dirty \in SUBSET Keys, \A k \in DOMAIN new : new[k] \in Rows,
           Merge(s, new, dirty),
           \A v \in Vulns \ raced : v \in DOMAIN new =>
               /\ BaseOf(s, v) = catalogue[v]
               /\ Agrees(new[v], By(v) \cup {run[s].feed})
    PROVE  MergeInv'
<1> DEFINE r == run[s]
           x == run'[s]
<1>1. /\ UNCHANGED catalogue /\ x \in Runs /\ run' = [run EXCEPT ![s] = x]
      /\ \A k \in Keys : k \in DOMAIN new => x.base[k] = BaseOf(s, k) /\ x.rows[k] = new[k]
      /\ \A k \in Keys : k \notin DOMAIN new => x.base[k] = r.base[k] /\ x.rows[k] = r.rows[k]
  BY MergeEffect
<1>2. /\ UNCHANGED delivered
      /\ raced' = raced \cup {v \in Vulns \cap DOMAIN new : Racing(s, v)}
  BY DEF Merge
<1>3. x.feed = r.feed
  BY DEF Merge, IngestInv, Typed, Runs
<1> HIDE DEF x
<1>4. ASSUME NEW v \in Vulns \ raced', x.rows[v] # Unread
      PROVE  InHand(x, v) /\ \A t \in Slots \ {s} : run[t] # Idle => run[t].rows[v] = Unread
  <2>1. v \in Keys /\ v \in Vulns \ raced
    BY <1>2, KeysApart
  <2>2. CASE v \in DOMAIN new
    BY <1>1, <1>2, <1>3, <2>1, <2>2 DEF InHand, Racing, Loaded
  <2>3. CASE v \notin DOMAIN new
    <3>1. InHand(r, v) /\ Alone(v)
      BY <2>1 DEF MergeInv
    <3> QED
      BY <1>1, <1>3, <1>4, <2>1, <2>3, <3>1 DEF InHand, Alone
  <2> QED
    BY <2>2, <2>3
<1> QED
  BY <1>1, <1>2, <1>4, OneMerge DEF x

\* A vulnerability is merged with what the run sees of it.
LEMMA MergeInvVuln ==
    ASSUME IngestInv, MergeInv, NEW s \in Slots, NEW v \in Vulns, PersistVuln(s, v)
    PROVE  MergeInv'
<1> DEFINE r == run[s]
           old == IF catalogue[v] = Absent THEN NewVuln ELSE catalogue[v]
<1>1. r # Idle /\ r.feed \in VulnFeeds /\ r.feed \in Feeds /\ r.rows[v] = Unread
  <2>1. Idle.feed \notin VulnFeeds /\ VulnFeeds \subseteq Feeds
    BY IngestAssumption DEF Idle, VulnFeeds
  <2> QED
    BY <2>1, Running DEF PersistVuln, Loaded
<1>2. PICK rec \in RecordsOf(r.feed) : Merge(s, [k \in {v} |-> Merged(old, rec)], {v})
  BY DEF PersistVuln
<1> DEFINE m == Merged(old, rec)
           new == [k \in {v} |-> m]
<1>3. old \in VulnRows
  BY NewAgrees DEF IngestInv, Typed
<1>4. m \in Rows
  BY <1>1, <1>3, MergedRises, KeysApart
<1>5. v \notin raced => Agrees(m, By(v) \cup {r.feed})
  <2>1. By(v) \in SUBSET Feeds
    BY DEF By
  <2>2. v \notin raced => Agrees(old, By(v))
    BY NewAgrees DEF MergeInv, Committed
  <2> QED
    BY <1>1, <1>3, <2>1, <2>2, MergedAgrees
<1>6. BaseOf(s, v) = catalogue[v]
  BY <1>1 DEF BaseOf, Loaded
<1> HIDE DEF m
<1>7. DOMAIN new = {v} /\ new[v] = m /\ Merge(s, new, {v})
  BY <1>2 DEF m
<1> HIDE DEF new
<1>8. {v} \in SUBSET Keys
  BY KeysApart
<1> QED
  BY <1>1, <1>4, <1>5, <1>6, <1>7, <1>8, MergedInHand

\* An exploit of no vulnerability changes none.
LEMMA MergeInvUnlinked ==
    ASSUME IngestInv, MergeInv, NEW s \in Slots, NEW e \in Exploits, run[s] # Idle,
           Merge(s, [k \in {e} |->
               IF catalogue[e] = Absent THEN [vuln |-> None] ELSE catalogue[e]], {e})
    PROVE  MergeInv'
<1> DEFINE m == IF catalogue[e] = Absent THEN [vuln |-> None] ELSE catalogue[e]
           new == [k \in {e} |-> m]
<1>1. m \in Rows
  BY KeysApart DEF ExploitRows, IngestInv, Typed
<1>2. Merge(s, new, {e})
  OBVIOUS
<1> HIDE DEF m
<1>3. DOMAIN new = {e} /\ new[e] = m
  OBVIOUS
<1> HIDE DEF new
<1>4. {e} \in SUBSET Keys /\ e \notin Vulns
  BY KeysApart
<1> QED
  BY <1>1, <1>2, <1>3, <1>4, MergedInHand

\* One that is linked escalates its vulnerability.
LEMMA MergeInvLinked ==
    ASSUME IngestInv, MergeInv, NEW s \in Slots, NEW e \in Exploits, NEW v \in Vulns,
           run[s] # Idle, run[s].feed = "exploitdb", Seen(s, v) # Absent,
           Merge(s, [k \in {e, v} |-> IF k = e THEN [vuln |-> v] ELSE Escalated(Seen(s, v))],
                 IF Escalated(Seen(s, v)) = Seen(s, v) THEN {e} ELSE {e, v})
    PROVE  MergeInv'
<1> DEFINE r == run[s]
           seen == Seen(s, v)
           m == Escalated(seen)
           l == [vuln |-> v]
           new == [k \in {e, v} |-> IF k = e THEN l ELSE m]
           dirty == IF m = seen THEN {e} ELSE {e, v}
<1>1. RunInv(r)
  BY DEF IngestInv
<1>2. seen \in VulnRows
  BY <1>1, KeysApart DEF Seen, Loaded, RunInv, VulnInv, IngestInv, Typed
<1>3. m \in Rows /\ l \in Rows
  BY <1>2, EscalatedRises, KeysApart DEF ExploitRows
<1>4. v \notin raced => BaseOf(s, v) = catalogue[v] /\ Agrees(m, By(v) \cup {r.feed})
  <2>1. SUFFICES ASSUME v \notin raced
                 PROVE  BaseOf(s, v) = catalogue[v] /\ Agrees(m, By(v) \cup {r.feed})
    OBVIOUS
  <2>2. By(v) \in SUBSET Feeds /\ By(v) \cup {"exploitdb"} \in SUBSET Feeds
    BY Running DEF By
  <2>3. InHand(r, v) /\ Committed(v)
    BY <2>1 DEF MergeInv
  <2>4. CASE Loaded(s, v)
    <3>1. Agrees(seen, By(v) \cup {"exploitdb"}) /\ BaseOf(s, v) = catalogue[v]
      BY <2>3, <2>4 DEF InHand, Loaded, Seen, BaseOf
    <3>2. Agrees(m, (By(v) \cup {"exploitdb"}) \cup {"exploitdb"})
      BY <1>2, <2>2, <3>1, EscalatedAgrees
    <3>3. (By(v) \cup {"exploitdb"}) \cup {"exploitdb"} = By(v) \cup {r.feed}
      OBVIOUS
    <3> HIDE DEF m
    <3> QED
      BY <3>1, <3>2, <3>3
  <2>5. CASE ~Loaded(s, v)
    <3>1. Agrees(seen, By(v)) /\ BaseOf(s, v) = catalogue[v]
      BY <2>3, <2>5 DEF Committed, Seen, BaseOf
    <3> QED
      BY <1>2, <2>2, <3>1, EscalatedAgrees
  <2> QED
    BY <2>4, <2>5
<1>5. Merge(s, new, dirty)
  OBVIOUS
<1> HIDE DEF m, l
<1>6. DOMAIN new = {e, v} /\ new[e] = l /\ new[v] = m
  BY KeysApart
<1>7. dirty \in SUBSET Keys /\ e \notin Vulns
  BY KeysApart
<1> HIDE DEF new, dirty
<1>8. \A w \in Vulns \ raced : w \in DOMAIN new => w = v
  BY <1>6, <1>7
<1> QED
  BY <1>3, <1>4, <1>5, <1>6, <1>7, <1>8, MergedInHand

\* A commit writes what the run has in hand, if nobody else had it.
LEMMA MergeInvFinish ==
    ASSUME IngestInv, MergeInv, NEW s \in Slots, Finish(s)
    PROVE  MergeInv'
<1> DEFINE r == run[s]
<1>1. /\ r # Idle /\ r \in Runs /\ RunInv(r) /\ r.dirty = {}
      /\ run'[s] = Idle /\ UNCHANGED raced
      /\ \A t \in Slots \ {s} : run'[t] = run[t]
  BY Running DEF Finish, IngestInv, Typed
<1>2. \A k \in Keys : catalogue'[k] = IF k \in r.held
          THEN Written(catalogue[k], r.base[k], r.rows[k]) ELSE catalogue[k]
  BY DEF Finish
<1>3. SUFFICES ASSUME NEW v \in Vulns \ raced
               PROVE  (Committed(v) /\ Alone(v) /\ \A t \in Slots : InHand(run[t], v))'
  BY <1>1 DEF MergeInv
<1>4. /\ Committed(v) /\ Alone(v) /\ (\A t \in Slots : InHand(run[t], v))
      /\ v \in Keys /\ RowInv(r, v) /\ VulnInv(r, v)
  BY <1>1, KeysApart DEF MergeInv, RunInv
<1>5. Alone(v)'
  BY <1>1, <1>4 DEF Alone
<1>6. CASE r.rows[v] = Unread
  <2>1. catalogue'[v] = catalogue[v]
    BY <1>2, <1>4, <1>6 DEF RowInv
  <2>2. By(v)' = By(v)
    BY <1>6 DEF By, Finish, Loaded
  <2>3. Committed(v)'
    BY <1>4, <2>1, <2>2 DEF Committed
  <2>4. \A t \in Slots : InHand(run[t], v)'
    BY <1>1, <1>4, <2>1, <2>2 DEF InHand
  <2> QED
    BY <1>5, <2>3, <2>4
<1>7. CASE r.rows[v] # Unread
  <2>1. /\ r.base[v] = catalogue[v] /\ Agrees(r.rows[v], By(v) \cup {r.feed})
        /\ r.rows[v] \in VulnRows
    BY <1>1, <1>4, <1>7 DEF InHand, VulnInv
  <2>2. catalogue'[v] = r.rows[v]
    <3>1. CASE v \notin r.held
      BY <1>1, <1>2, <1>4, <1>7, <2>1, <3>1 DEF RowInv
    <3>2. CASE v \in r.held /\ r.base[v] = Absent
      BY <1>2, <1>4, <3>2 DEF Written
    <3>3. CASE v \in r.held /\ r.base[v] # Absent
      <4>1. catalogue'[v] = [c \in DOMAIN r.rows[v] |-> r.rows[v][c]]
        BY <1>2, <1>4, <2>1, <3>3 DEF Written
      <4> QED
        BY <2>1, <4>1 DEF VulnRows
    <3> QED
      BY <3>1, <3>2, <3>3
  <2>3. By(v)' = By(v) \cup {r.feed}
    <3>1. r.feed \in Feeds
      BY <1>1 DEF Runs
    <3>2. delivered' = delivered \cup {<<r.feed, w>> : w \in {u \in Vulns : Loaded(s, u)}}
      BY DEF Finish
    <3>3. \A f \in Feeds : <<f, v>> \in delivered' <=> <<f, v>> \in delivered \/ f = r.feed
      BY <1>7, <3>2 DEF Loaded
    <3> QED
      BY <3>1, <3>3 DEF By
  <2>4. Committed(v)'
    BY <2>1, <2>2, <2>3, KeysApart DEF Committed
  <2>5. \A t \in Slots \ {s} : run[t] # Idle => run[t].rows[v] = Unread
    BY <1>1, <1>4, <1>7 DEF Alone
  <2>6. \A t \in Slots : InHand(run[t], v)'
    BY <1>1, <2>5 DEF InHand
  <2> QED
    BY <1>5, <2>4, <2>6
<1> QED
  BY <1>6, <1>7

\* Each step keeps the account of what was merged.
LEMMA MergeKept == IngestInv /\ MergeInv /\ [Next]_vars => MergeInv'
<1> SUFFICES ASSUME IngestInv, MergeInv, [Next]_vars
             PROVE  MergeInv'
  OBVIOUS
<1>1. ASSUME NEW s \in Slots, NEW e \in Exploits, PersistExploit(s, e)
      PROVE  MergeInv'
  <2>1. run[s] # Idle /\ run[s].feed = "exploitdb"
    BY <1>1 DEF PersistExploit, Idle
  <2>2. CASE Merge(s, [k \in {e} |->
                IF catalogue[e] = Absent THEN [vuln |-> None] ELSE catalogue[e]], {e})
    BY <2>1, <2>2, MergeInvUnlinked
  <2>3. ASSUME NEW i \in KnownCves(s, e), NEW v, v = cve_ids[e][i],
               Merge(s, [k \in {e, v} |-> IF k = e THEN [vuln |-> v] ELSE Escalated(Seen(s, v))],
                     IF Escalated(Seen(s, v)) = Seen(s, v) THEN {e} ELSE {e, v})
        PROVE  MergeInv'
    <3>1. v \in Vulns /\ Seen(s, v) # Absent
      BY <2>3, IngestAssumption DEF KnownCves
    <3> QED
      BY <2>1, <2>3, <3>1, MergeInvLinked
  <2> QED
    BY <1>1, <2>2, <2>3 DEF PersistExploit
<1>2. ASSUME NEW s \in Slots, Refused(s) \/ Die(s)
      PROVE  MergeInv'
  BY <1>2, MergeInvLost DEF Refused, Die
<1>3. CASE UNCHANGED vars
  <2>1. UNCHANGED <<catalogue, run, delivered, raced>>
    BY <1>3 DEF vars
  <2>2. \A v : By(v)' = By(v)
    BY <2>1 DEF By
  <2> QED
    BY <2>1, <2>2 DEF MergeInv, Committed, Alone, InHand
<1> QED
  BY <1>1, <1>2, <1>3, MergeInvStart, MergeInvVuln, MergeInvFlush, MergeInvFinish DEF Next

\* It holds of an empty catalogue.
LEMMA MergeStarts == Init => MergeInv
BY KeysApart DEF Init, MergeInv, Committed, Alone, InHand, By

\* Deliveries that do not race agree in any order (pipeline.py:187-202).
THEOREM OrderDoesNotMatter == Spec => []MergedInAnyOrder
<1>1. MergeInv => MergedInAnyOrder
  BY DEF MergeInv, MergedInAnyOrder, Committed, Known
<1>2. Init => IngestInv /\ MergeInv
  BY IngestStarts, MergeStarts
<1>3. IngestInv /\ MergeInv /\ [Next]_vars => (IngestInv /\ MergeInv)'
  BY IngestKept, MergeKept
<1> QED
  BY <1>1, <1>2, <1>3, PTL DEF Spec
=============================================================================
