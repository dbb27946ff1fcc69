----------------------------- MODULE MCAnalysis -----------------------------
(***************************************************************************)
(* What an analyst is told, in one instance for TLC: the feeds that        *)
(* answers are said to rest on, reports, and the investigation graph.      *)
(* They share no state, so a behaviour in which only one of them moves     *)
(* shows all that can happen to it.                                        *)
(***************************************************************************)
EXTENDS Feeds, Reports, Graph

VARIABLE part    \* the one that moves

MCInit ==
    /\ Init /\ ReportsInit /\ GraphInit
    /\ part \in {"feeds", "reports", "graph"}
    /\ part # "reports" => commitFirst /\ configured

Feeding == part = "feeds" /\ UNCHANGED <<reportVars, relationships, part>>
Reporting == part = "reports" /\ UNCHANGED <<vars, relationships, part>>
Relating == part = "graph" /\ UNCHANGED <<vars, reportVars, part>>

MCNext ==
    \/ Next /\ Feeding
    \/ ReportsNext /\ Reporting
    \/ GraphNext /\ Relating

MCSpec ==
    /\ MCInit
    /\ [][MCNext]_<<vars, reportVars, relationships, part>>
    /\ \A r \in ReportIds : WF_reportVars(Step(r) /\ Reporting)
=============================================================================
