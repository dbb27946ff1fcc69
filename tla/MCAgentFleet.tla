---------------------------- MODULE MCAgentFleet ----------------------------
(***************************************************************************)
(* Two agents that share an asset, for TLC.                                *)
(***************************************************************************)
EXTENDS AgentFleet, TLC

\* Nothing is said of an asset once reports on it have crossed, so a behaviour is left
\* where no asset is uncrossed.
SomeUncrossed == crossed # Hosts

\* Bound: certificates last, and enrolments, silence, sweeps and plain heartbeats only occur
\* while no report is under way.
Reporting == \E q \in Requests : request[q].op \in {"admitted"} \cup InWork
ReportsApart ==
    /\ \A a \in Agents : ~expired[a]
    /\ Reporting =>
        /\ due = {}
        /\ \A a \in Agents : beat[a] # "old"
        /\ \A q \in Requests : request[q].op \notin {"plain", "enroll"}

Symmetry == Permutations(Requests) \cup Permutations(Agents) \cup Permutations(Packages)
=============================================================================
