------------------------- MODULE MCEndpointIntents -------------------------
(***************************************************************************)
(* Instances of EndpointIntents for TLC.  The passing run checks liveness, *)
(* so no symmetry is used although keys and sweepers are interchangeable.  *)
(***************************************************************************)
EXTENDS EndpointIntents
=============================================================================
