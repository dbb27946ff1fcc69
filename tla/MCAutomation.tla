---------------------------- MODULE MCAutomation ----------------------------
(***************************************************************************)
(* Instances of Automation for TLC.  Keys, runs and workers are            *)
(* interchangeable; steps are not, some being internal.  The run that      *)
(* checks liveness uses no symmetry.                                       *)
(***************************************************************************)
EXTENDS Automation, TLC

Symmetry == Permutations(Keys) \cup Permutations(Runs) \cup Permutations(Workers)
=============================================================================
