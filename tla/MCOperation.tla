----------------------------- MODULE MCOperation -----------------------------
(* Instances of Operation for TLC.                                          *)
EXTENDS Operation, TLC

CONSTANTS r1, r2, s1, s2

OneLidarEach == [b \in Berths |-> IF b = 1 THEN {s1} ELSE {s2}]
BothUsed == {[laser |-> TRUE, lidar |-> TRUE]}
Symmetry == Permutations(Callers)

(* Berth 1 has a request to start; or one to stop, for which nothing has    *)
(* been started and after which there is but one more.                      *)
FirstRequest ==
  /\ \E r \in Callers, kind \in {"start", "stop"} :
       /\ req = [q \in Callers |-> IF q # r THEN Idle
                   ELSE [Idle EXCEPT !.kind = kind, !.berth = 1, !.auto = kind = "start",
                           !.at = "query", !.alone = TRUE]]
       /\ made = IF kind = "start" THEN 1 ELSE MaxRequests - 1
       /\ use = [laser |-> kind = "start", lidar |-> TRUE]
       /\ current \in IF kind = "start" THEN BerthingIds ELSE {0}
       /\ lm = [berth |-> IF kind = "start" THEN 1 ELSE NoBerth, conn |-> FALSE, url |-> NoBerth,
                drift |-> FALSE, sync |-> FALSE, thread |-> 0]
  /\ listener = [l \in Listeners |-> [at |-> "new", berth |-> NoBerth]]
  /\ coord = [c \in Coords |-> "new"]
  /\ drifting = {} /\ call = [r \in Callers |-> NoCall]
  /\ StreamInit
  /\ lidarOn = {} /\ closed = FALSE

FirstRequestSpec == FirstRequest /\ [][Next]_vars
=============================================================================
