--------------------------- MODULE MCLivoxCapture ---------------------------
(* Every kind of sensor and firmware, four packets of two points.           *)
EXTENDS LivoxCapture

MCSensors ==
  {[fw |-> fw, types |-> {0, 1}, mid100 |-> FALSE] : fw \in Firmwares} \cup
  {[fw |-> 1, types |-> {0, 1}, mid100 |-> TRUE],
   [fw |-> 1, types |-> {2, 3, 4, 5}, mid100 |-> FALSE]}
=============================================================================
