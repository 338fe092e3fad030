-------------------------- MODULE MCLidarBerthing ---------------------------
(* Values for the constants of LidarBerthing.                               *)
EXTENDS LidarBerthing, TLC

CONSTANTS r1, r2

OneSensor  == 1..1
TwoSensors == 1..2

Symmetry == Permutations(Requests)
=============================================================================
