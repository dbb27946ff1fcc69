------------------------------ MODULE MCAccess ------------------------------
(***************************************************************************)
(* API keys with their rate limiter, and alerts, in one instance for TLC.  *)
(* They share no state, so a behaviour in which only one of them moves     *)
(* shows all that can happen to it.                                        *)
(*                                                                         *)
(* Requests, the keys that are not limited and the processes are           *)
(* interchangeable; so are subjects, evaluators and posters, as every rule *)
(* has the same severity here.  Posts may have that or another one.        *)
(***************************************************************************)
EXTENDS ApiKeys, Alerts

VARIABLE part    \* the one that moves

HighRules == [s \in Subjects |-> "high"]

Symmetry ==
    Permutations(Keys \ Limited) \cup Permutations(Requests) \cup Permutations(Processes)
    \cup Permutations(Subjects) \cup Permutations(Evaluators) \cup Permutations(Posters)

\* The clock offsets and the processes without Redis make no difference to alerts.
MCInit ==
    /\ Init /\ AlertsInit
    /\ part \in {"keys", "alerts"}
    /\ part = "alerts" => degraded = {} /\ skew = [p \in Processes |-> 0]

MCNext ==
    \/ Next /\ part = "keys" /\ UNCHANGED <<alertVars, part>>
    \/ AlertsNext /\ part = "alerts" /\ UNCHANGED <<vars, part>>

MCSpec == MCInit /\ [][MCNext]_<<vars, alertVars, part>>
=============================================================================
