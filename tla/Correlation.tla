----------------------------- MODULE Correlation -----------------------------
(***************************************************************************)
(* Correlations and their briefs (app/api/v1/correlations.py,              *)
(* app/services/evidence_resolver.py, app/services/correlation.py): an     *)
(* evaluation resolves what the tenant has stored of an entity, scores it, *)
(* and keeps a record; a brief is written for a record.                    *)
(*                                                                         *)
(* There is one entity of each type.  An asset has the default criticality *)
(* (no route sets another), and the maturity of a vulnerability is loaded  *)
(* as a plain string, of which the resolver takes the .value: it raises    *)
(* for a vulnerability, and for an asset with an open exposure.            *)
(***************************************************************************)
EXTENDS Integers, Sequences, FiniteSets, SequencesExt, FiniteSetsExt

CONSTANTS
    MaxEvidenceRows,   \* MAX_EVIDENCE_ROWS
    MaxSightings,      \* bound: sightings
    MaxRecords,        \* bound: evaluations
    MaxBriefs,         \* bound: briefs
    Unknown            \* None, of a fact

ASSUME CorrelationAssumption ==
    /\ {MaxEvidenceRows, MaxSightings, MaxRecords, MaxBriefs} \subseteq Nat
    /\ Unknown \notin Nat \cup BOOLEAN
         \cup {"medium", "unavailable", "partial", "resolved", "manual_input"}

VARIABLES
    entities,    \* the entities that are stored
    open,        \* whether the asset has an open exposure
    sightings,   \* of the asset and of the indicator, newest first
    records,     \* the correlations, in the order of their evaluation
    briefs

correlationVars == <<entities, open, sightings, records, briefs>>

Types == {"asset", "vulnerability", "indicator"}
Sighted == {"asset", "indicator"}
Flags == BOOLEAN \cup {Unknown}    \* a sighting's ransomware_relevant, if its context has it
Statuses == {"unavailable", "partial", "resolved", "manual_input"}
Factors == {"cvss", "kev", "exploit", "criticality", "internet", "sightings", "ransomware"}
Records ==
    [entity : Types, resolution_status : Statuses,
     server_resolution_status : Statuses \cup {Unknown},
     score : 0..100, tier : {"low", "medium", "high", "critical"},
     present : SUBSET Factors, absent : SUBSET Factors,   \* the others are unknown
     truncated : BOOLEAN,
     stored : BOOLEAN]    \* history: whether anything of the entity was stored
Briefs ==
    [of : 1..MaxRecords, status : {"grounded", "unverified"}, cited : BOOLEAN, asked : BOOLEAN]

CorrelationTypeOK ==
    /\ entities \subseteq Types
    /\ open \in BOOLEAN
    /\ sightings \in [Sighted -> Seq(Flags)]
    /\ records \in Seq(Records)
    /\ briefs \subseteq Briefs

CorrelationInit ==
    /\ entities = {}
    /\ open = FALSE
    /\ sightings = [e \in Sighted |-> <<>>]
    /\ records = <<>>
    /\ briefs = {}

-----------------------------------------------------------------------------
(* What is stored. *)

Enter(e) ==
    /\ entities' = entities \cup {e}
    /\ UNCHANGED <<open, sightings, records, briefs>>

\* The inventory of a heartbeat opens an exposure of the asset, or resolves the last one.
Match ==
    /\ {"asset", "vulnerability"} \subseteq entities
    /\ open' = ~open
    /\ UNCHANGED <<entities, sightings, records, briefs>>

\* A client states when it observed what it reports, and need not report in that order.
create_sighting(e, flag) ==
    /\ Len(sightings["asset"]) + Len(sightings["indicator"]) < MaxSightings
    /\ \E i \in 1..(Len(sightings[e]) + 1) :
          sightings' = [sightings EXCEPT ![e] = InsertAt(@, i, flag)]
    /\ UNCHANGED <<entities, open, records, briefs>>

-----------------------------------------------------------------------------
(* Evidence and its score. *)

Raises(e) == e \in entities /\ e \in {"vulnerability"} \cup (IF open THEN {"asset"} ELSE {})

\* Mutant: the newest sighting tells whether ransomware is relevant.
RelevantByNewest(flags) == IF flags = <<>> THEN Unknown ELSE flags[1]

Relevant(flags) ==
    IF TRUE \in Range(flags) THEN TRUE
    ELSE IF FALSE \in Range(flags) THEN FALSE ELSE Unknown

\* The evidence of an entity for which resolve_evidence does not raise.
resolve_evidence(e) ==
    LET all == IF e \in entities /\ e \in Sighted THEN sightings[e] ELSE <<>>
        rows == SubSeq(all, 1, Min({Len(all), MaxEvidenceRows}))
        asset == e = "asset" /\ e \in entities
    IN  [criticality |-> IF asset THEN "medium" ELSE Unknown,
         count |-> IF rows = <<>> THEN Unknown ELSE Len(rows),
         relevant |-> Relevant(rows),
         truncated |-> Len(all) > MaxEvidenceRows,
         status |-> IF ~asset /\ rows = <<>> THEN "unavailable"
                    ELSE IF asset \/ Relevant(rows) = Unknown THEN "partial" ELSE "resolved"]

Tier(score) ==
    IF score >= 80 THEN "critical" ELSE IF score >= 60 THEN "high"
    ELSE IF score >= 35 THEN "medium" ELSE "low"

\* CVSS, KEV, exploit and internet exposure are unknown whenever resolve_evidence returns.
assess(evidence) ==
    LET points ==
            (IF evidence.criticality = "medium" THEN 8 ELSE 0)
            + (IF evidence.count = Unknown THEN 0 ELSE 5 * Min({evidence.count, 3}))
            + (IF evidence.relevant = TRUE THEN 10 ELSE 0)
        score == Min({100, points})
    IN  [score |-> score,
         tier |-> Tier(score),
         present |->
             {f \in {"criticality"} : evidence.criticality # Unknown}
             \cup {f \in {"sightings"} : evidence.count # Unknown}
             \cup {f \in {"ransomware"} : evidence.relevant = TRUE},
         absent |-> {f \in {"ransomware"} : evidence.relevant = FALSE}]

\* Only an admin may annotate, as any caller may be; the annotation is kept beside the
\* evidence and is not scored.
evaluate(e, annotated) ==
    /\ Len(records) < MaxRecords
    /\ ~Raises(e)
    /\ LET evidence == resolve_evidence(e)
           outcome == assess(evidence)
       IN  records' = Append(records,
               [entity |-> e,
                resolution_status |-> IF annotated THEN "manual_input" ELSE evidence.status,
                server_resolution_status |-> IF annotated THEN evidence.status ELSE Unknown,
                score |-> outcome.score, tier |-> outcome.tier, present |-> outcome.present,
                absent |-> outcome.absent,
                truncated |-> evidence.truncated,
                stored |-> e \in entities /\ (e = "asset" \/ sightings["indicator"] # <<>>)])
    /\ UNCHANGED <<entities, open, sightings, briefs>>

-----------------------------------------------------------------------------
(* Briefs. *)

\* Mutant: an annotation is taken for evidence.
UnavailableAsShown(item) == item.resolution_status = "unavailable"

Unavailable(item) ==
    IF item.server_resolution_status = Unknown THEN item.resolution_status = "unavailable"
    ELSE item.server_resolution_status = "unavailable"

\* Retrieval finds chunks, which are the citations, or nothing.  When it raises, or the
\* model does, nothing is stored.
generate_ai_brief(i) ==
    /\ Cardinality(briefs) < MaxBriefs
    /\ \E cited \in BOOLEAN :
          /\ Unavailable(records[i]) => ~cited
          /\ briefs' = briefs \cup
                {[of |-> i, status |-> IF cited THEN "grounded" ELSE "unverified",
                  cited |-> cited, asked |-> ~Unavailable(records[i])]}
    /\ UNCHANGED <<entities, open, sightings, records>>

CorrelationNext ==
    \/ \E e \in Types : Enter(e)
    \/ Match
    \/ \E e \in Sighted, flag \in Flags : create_sighting(e, flag)
    \/ \E e \in Types, annotated \in BOOLEAN : evaluate(e, annotated)
    \/ \E i \in DOMAIN records : generate_ai_brief(i)

CorrelationSpec == CorrelationInit /\ [][CorrelationNext]_correlationVars

-----------------------------------------------------------------------------
(* Properties. *)

\* The retrieval and the model are asked for a brief only if the server had something
\* stored of the entity when it was evaluated, whatever an admin has annotated, and a
\* brief is grounded only with citations (docs/ai-layer.md:11-12, correlations.py:50-57).
BriefHasEvidence ==
    \A b \in briefs :
        /\ b.status = "grounded" => b.cited
        /\ (b.asked \/ b.cited) => records[b.of].stored

\* Of two evaluations of one entity, the later one has all the facts of the earlier one
\* and those reported since: it does not score lower, nor forget whether something is
\* known, unless it says that it did not look at all rows (correlation.py:23-28,
\* evidence_resolver.py:68-69).
KnowledgeRaises ==
    \A i, j \in DOMAIN records :
        i < j /\ records[i].entity = records[j].entity /\ ~records[j].truncated =>
            /\ records[i].score <= records[j].score
            /\ records[i].present \subseteq records[j].present
            /\ records[i].absent \subseteq records[j].present \cup records[j].absent
=============================================================================
