---------------------------- MODULE MCBerthingData ----------------------------
(***************************************************************************)
(* A berth with one sensor: a lidar whose readings are regular or          *)
(* irregular (near) or extreme (far, cut off when corrected), or a laser.  *)
(* The window is four seconds and four readings instead of sixty.          *)
(***************************************************************************)
EXTENDS BerthingData, TLC

CONSTANTS near, far, laser

MCDistances == near :> {50, 70} @@ far :> {50, 400} @@ laser :> {0, 50}
MCFittings == {{near}, {far}, {laser}}
MCOffset == near :> 0 @@ far :> 10 @@ laser :> 0
MCCutOff == near :> 100 @@ far :> 380 @@ laser :> 0
MCBounds == {near} :> [time |-> 7, reads |-> 7, changes |-> 1] @@ {far} :> [time |-> 5, reads |-> 5, changes |-> 2]
            @@ {laser} :> [time |-> 5, reads |-> 4, changes |-> 2]
MCSymmetry == Permutations(Watchers)
===============================================================================
