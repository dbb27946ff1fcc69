------------------------------ MODULE MCIngest ------------------------------
(***************************************************************************)
(* Ingest and Correlation in one instance for TLC: how facts come in, and  *)
(* what is made of them.  They share no state here, so a behaviour in      *)
(* which only one of them moves shows all that can happen to it.           *)
(***************************************************************************)
EXTENDS Ingest, Correlation

CONSTANTS v1, v2, e1

VARIABLE part    \* the one that moves

TwoCves == e1 :> <<v1, v2>>
Symmetry == Permutations(Slots)

MCInit ==
    /\ Init /\ CorrelationInit
    /\ part \in {"ingest", "correlation"}

MCNext ==
    \/ Next /\ part = "ingest" /\ UNCHANGED <<correlationVars, part>>
    \/ CorrelationNext /\ part = "correlation" /\ UNCHANGED <<vars, part>>

MCSpec == MCInit /\ [][MCNext]_<<vars, correlationVars, part>>
=============================================================================
