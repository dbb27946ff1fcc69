---------------------------- MODULE MCAgentClient ----------------------------
(***************************************************************************)
(* Instances of AgentClient for TLC.                                       *)
(***************************************************************************)
EXTENDS AgentClient, TLC

Symmetry == Permutations(Requests)
=============================================================================
