---------------------------- MODULE MCBerthModes ----------------------------
(* Values for the constants of BerthModes.                                  *)
EXTENDS BerthModes, TLC

CONSTANTS r1, r2

OneLaser  == 1..1
TwoLasers == 1..2
AtBerthOne == [l \in Lasers |-> 1]

Symmetry == Permutations(Requests)
=============================================================================
