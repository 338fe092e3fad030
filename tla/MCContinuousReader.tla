------------------------- MODULE MCContinuousReader -------------------------
(* Instances of ContinuousReader for TLC.                                   *)
EXTENDS ContinuousReader, TLC

CONSTANTS r1, r2

RequestSet == {r1, r2}
Symmetry   == Permutations(RequestSet)

=============================================================================
