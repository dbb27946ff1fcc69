------------------------ MODULE MCConnectorDelivery ------------------------
(***************************************************************************)
(* Instances of ConnectorDelivery for TLC.  Workers are interchangeable,   *)
(* and so are the rows of a set that no constant tells apart; the runs     *)
(* that check liveness use no symmetry.                                    *)
(***************************************************************************)
EXTENDS ConnectorDelivery, TLC

CONSTANTS r1, r2, r3, w1, w2

ThreeRows == {r1, r2, r3}
TwoRows == {r1, r2}
OneRow == {r1}
TwoWorkers == {w1, w2}

WorkerSymmetry == Permutations(Workers)
=============================================================================
