------------------------------ MODULE Exposure ------------------------------
(***************************************************************************)
(* The inventory of an asset and the vulnerabilities it is exposed to: the *)
(* tables installed_software and asset_exposures (app/db/models.py) and    *)
(* what a heartbeat reads from and writes to them (app/services/agents.py).*)
(*                                                                         *)
(* Rows are never deleted: software that is gone is "removed", an exposure *)
(* that no longer matches is "resolved".  Each table has one row per key,  *)
(* and inserting a second one is refused.  A report only lists packages;   *)
(* one in Doubled is listed twice, as dpkg lists a package that is         *)
(* installed for two architectures.                                        *)
(*                                                                         *)
(* Of the catalogue it matters which packages a vulnerability matches: the *)
(* feeds rewrite its product and extend its CPEs, so it may be any others  *)
(* from one report to the next.  A package's own CPE does not change.      *)
(***************************************************************************)
EXTENDS Integers, FiniteSets

CONSTANTS
    Hosts,      \* hostnames; an asset is known by its hostname
    Packages,   \* (name, version) pairs
    Doubled,    \* those a report lists twice
    Vulns       \* vulnerabilities that may enter the catalogue

ASSUME ExposureAssumption == Doubled \subseteq Packages

VARIABLES
    software,   \* per asset, the state of each package's row
    exposure,   \* per asset, the state of each vulnerability's row
    catalogue,  \* the packages each vulnerability matches
    basis       \* history: per asset, the catalogue its last report was matched with

tables == <<software, exposure, catalogue, basis>>

SoftwareStates == {"absent", "present", "removed"}
ExposureStates == {"none", "open", "resolved"}
Inventories == [Packages -> SoftwareStates]

\* A vulnerability that is not in the catalogue, or has neither CPEs nor a product
\* that match, matches nothing.
Catalogues == [Vulns -> SUBSET Packages]
Empty == [v \in Vulns |-> {}]

TablesTypeOK ==
    /\ software \in [Hosts -> Inventories]
    /\ exposure \in [Hosts -> [Vulns -> ExposureStates]]
    /\ catalogue \in Catalogues
    /\ basis \in [Hosts -> Catalogues]

TablesInit ==
    /\ software = [h \in Hosts |-> [p \in Packages |-> "absent"]]
    /\ exposure = [h \in Hosts |-> [v \in Vulns |-> "none"]]
    /\ catalogue = Empty
    /\ basis = [h \in Hosts |-> Empty]

Present(rows) == {p \in Packages : rows[p] = "present"}
Open(rows) == {v \in Vulns : rows[v] = "open"}

-----------------------------------------------------------------------------
(* apply_software_inventory. *)

\* The rows an update or insert will lock, from the rows that were read.
Touched(seen, report) == Present(seen) \cup report

\* An insert is refused when the row is there by now, or is inserted twice.
InventoryRefused(now, seen, report) ==
    \E p \in report : seen[p] = "absent" /\ (now[p] # "absent" \/ p \in Doubled)

\* The rows after the update.  A column is written only if its value differs
\* from the one that was read: a package that was read as present and is
\* reported stays what it is by now.
Reconciled(now, seen, report) ==
    [p \in Packages |->
        IF p \in report
        THEN IF seen[p] = "present" THEN now[p] ELSE "present"
        ELSE IF seen[p] = "present" THEN "removed" ELSE now[p]]

-----------------------------------------------------------------------------
(* recompute_exposure. *)

\* The vulnerabilities of a catalogue that one of the packages matches, by its CPE
\* or by its name.
Matched(present, read) == {v \in Vulns : read[v] \cap present # {}}

\* Only open rows were looked up, so what matched without one is inserted; its
\* unique key refuses that where a row is resolved, or was opened in the meantime.
ExposureRefused(now, open, matched) == \E v \in matched \ open : now[v] # "none"

\* What matches and had a row is left as it is by now.
Recomputed(now, open, matched) ==
    [v \in Vulns |->
        IF v \in matched \ open THEN "open"
        ELSE IF v \in open \ matched THEN "resolved" ELSE now[v]]

\* The commit of a heartbeat: the inventory it flushed, and the exposures it
\* computed from what it had read.
StoreReport(h, r) ==
    LET matched == Matched(r.present, r.read)
    IN  /\ ~ExposureRefused(exposure[h], r.open, matched)
        /\ software' = [software EXCEPT ![h] = Reconciled(@, r.rows, r.report)]
        /\ exposure' = [exposure EXCEPT ![h] = Recomputed(@, r.open, matched)]
        /\ basis' = [basis EXCEPT ![h] = r.read]
        /\ catalogue' = catalogue

\* The ingest pipeline adds a vulnerability to the catalogue, or gives it another
\* product or more CPEs.
Learn(v, packages) ==
    /\ packages # catalogue[v]
    /\ catalogue' = [catalogue EXCEPT ![v] = packages]
    /\ UNCHANGED <<software, exposure, basis>>
=============================================================================
