------------------------------- MODULE Graph -------------------------------
(***************************************************************************)
(* The traversal of the investigation graph (app/api/v1/graph.py).         *)
(*                                                                         *)
(* rows are the relationships that the caller may see and that pass the    *)
(* filters, oldest first; each has a source and a target.  A hop queries   *)
(* those that touch the frontier, with one more row than there is room for *)
(* to notice that some do not fit.                                         *)
(***************************************************************************)
EXTENDS Integers, Sequences, FiniteSets

CONSTANTS
    Nodes,              \* entities
    Seed,               \* the one that traversals start from
    MaxDepth,           \* largest depth of a request
    MaxRelationships    \* bound: rows, and largest max_edges of a request

ASSUME GraphAssumption == Seed \in Nodes /\ {MaxDepth, MaxRelationships} \subseteq Nat

VARIABLE relationships    \* the rows, oldest first

Relationships == [source : Nodes, target : Nodes]

GraphTypeOK == relationships \in Seq(Relationships)

GraphInit == relationships = <<>>

\* POST /relationships: not between an entity and itself.
create_relationship(source, target) ==
    /\ Len(relationships) < MaxRelationships
    /\ source # target
    /\ relationships' = Append(relationships, [source |-> source, target |-> target])

GraphNext == \E source, target \in Nodes : create_relationship(source, target)

GraphSpec == GraphInit /\ [][GraphNext]_relationships

Ends(row) == {row.source, row.target}

\* The rows that touch some nodes.
Touching(rows, nodes) == {i \in DOMAIN rows : Ends(rows[i]) \cap nodes # {}}

\* The first n of a set of rows.
Oldest(found, n) == {i \in found : Cardinality({j \in found : j < i}) < n}

\* Mutant: an end is only new if it is the target.
FrontierOfTargets(rows, taken, visited) == {rows[i].target : i \in taken} \ visited

NextFrontier(rows, taken, visited) == (UNION {Ends(rows[i]) : i \in taken}) \ visited

Hop(rows, st, hop, max_edges) ==
    LET remaining == max_edges - Cardinality(st.edges)
        discovered == Touching(rows, st.frontier) \ st.edges
        taken == Oldest(discovered, remaining)
        frontier == NextFrontier(rows, taken, st.visited)
    IN  [edges |-> st.edges \cup taken,
         frontier |-> frontier,
         visited |-> st.visited \cup frontier,
         reached |-> IF taken = {} THEN st.reached ELSE hop,
         truncated |-> Cardinality(discovered) > remaining]

Stops(st, max_edges) ==
    st.truncated \/ st.frontier = {} \/ Cardinality(st.edges) >= max_edges

\* The state after each hop.
Hops(rows, seed, max_edges) ==
    LET after[hop \in Nat] ==
            IF hop = 0
            THEN [edges |-> {}, frontier |-> {seed}, visited |-> {seed}, reached |-> 0,
                  truncated |-> FALSE]
            ELSE IF Stops(after[hop - 1], max_edges) THEN after[hop - 1]
                 ELSE Hop(rows, after[hop - 1], hop, max_edges)
    IN  after

traverse_graph(rows, seed, depth, max_edges) == Hops(rows, seed, max_edges)[depth]

-----------------------------------------------------------------------------
(* Reference: how many edges away from the seed a row starts. *)

\* For each n, the nodes within n edges of the seed.
Balls(rows, seed) ==
    LET ball[n \in Nat] ==
            IF n = 0 THEN {seed}
            ELSE ball[n - 1] \cup UNION {Ends(rows[i]) : i \in Touching(rows, ball[n - 1])}
    IN  ball

\* The rows that a walk of n edges can take.
InReach(rows, seed, n) == IF n <= 0 THEN {} ELSE Touching(rows, Balls(rows, seed)[n - 1])

\* A traversal shows the relationships within its depth, nearest first; if there is room
\* for all of them it shows all, and if it says that it is truncated there are more.  One
\* that is full at the end of a hop stops without looking for more, and does not say so
\* (docs/investigation-graph.md:18).
Exact(rows, seed, depth, max_edges) ==
    LET got == traverse_graph(rows, seed, depth, max_edges)
        all == InReach(rows, seed, depth)
    IN  /\ got.edges \subseteq all
        /\ Cardinality(got.edges) = IF Cardinality(all) > max_edges THEN max_edges
                                    ELSE Cardinality(all)
        /\ got.truncated => got.edges # all
        /\ got.edges # all /\ ~got.truncated => got.edges = InReach(rows, seed, got.reached)
        /\ got.reached \in 0..depth
        /\ InReach(rows, seed, got.reached - 1) \subseteq got.edges
        /\ got.edges \subseteq InReach(rows, seed, got.reached)

\* Exact, for every traversal of what is stored (graph.py:60-63, "It returns only persisted
\* relationships visible to the tenant").
TraversalExact ==
    \A depth \in 1..MaxDepth, max_edges \in 1..MaxRelationships :
        Exact(relationships, Seed, depth, max_edges)
=============================================================================
