------------------------------ MODULE Operation ------------------------------
(***************************************************************************)
(* Operations on a berth: DeviceManager of the lidar service               *)
(* (services/device_manager.py) with the endpoints that call it            *)
(* (api/endpoints/berthing_data.py), the laser client of LaserClient and   *)
(* the streamer of DbStreamer.  Requests run on one event loop and         *)
(* interleave at their awaits: the query of the berth's devices, the       *)
(* gather of the laser and the lidar part, the end of the streaming.       *)
(*                                                                         *)
(* The lidar manager appears by what enable_ and disable_berthing_mode     *)
(* answer and by the sensors they leave in berthing mode; LidarBerthing    *)
(* has the whole of it.                                                    *)
(***************************************************************************)
EXTENDS LaserClient, DbStreamer, Sequences

CONSTANTS
  HasLasers,    (* the berths that have lasers                               *)
  SensorsOf,    (* SensorsOf[b]: the lidars of berth b                       *)
  Uses,         (* the pairs of use_laser and use_lidar that clients ask for   *)
  Types,        (* the operation types that clients ask for                  *)
  BerthingIds,  (* the ids that clients give their operations                *)
  Kinds,        (* the kinds of requests that are made                       *)
  MaxRequests   (* how many requests are made at all                         *)

ASSUME OperationAssumption ==
  /\ Stoppers = Callers
  /\ HasLasers \subseteq Berths /\ SensorsOf \in [Berths -> SUBSET Sensors]
  /\ Uses \subseteq [laser: BOOLEAN, lidar: BOOLEAN]
  /\ Types \subseteq {"BERTH", "DRIFT", "UNMOOR"}
  /\ BerthingIds \subseteq Nat \ {0} /\ Berths \subseteq Nat \ {0} /\ NoBerth \notin Berths
  /\ Kinds \subseteq {"start", "stop", "shutdown"} /\ MaxRequests \in Nat

VARIABLES
  use,      (* use_laser and use_lidar of the device manager                 *)
  current,  (* current_berthing_id, 0 for None                               *)
  req,      (* req[r]: the request that r makes                              *)
  lidarOn,  (* sensors that the lidar manager has in berthing mode           *)
  made,     (* requests made so far                                          *)
  closed    (* the service shuts down                                        *)

operationVars == <<use, current, req, lidarOn, made, closed>>
vars == <<laserVars, streamVars, operationVars>>

Idle == [kind |-> "none", berth |-> NoBerth, auto |-> FALSE, at |-> "idle", laser |-> "none",
         lidar |-> "none", got |-> {}, success |-> FALSE, alone |-> FALSE, configured |-> FALSE]
Parts == {"none", "busy", "yes", "no", "good", "bad", "exception"}

Request == [kind: Kinds \cup {"none"}, berth: Berths \cup {NoBerth}, auto: BOOLEAN,
            at: {"idle", "query", "work", "stopping", "answer"}, laser: Parts, lidar: Parts,
            got: SUBSET Sensors, success: BOOLEAN, alone: BOOLEAN, configured: BOOLEAN]

TypeOK ==
  /\ LaserTypeOK /\ StreamTypeOK
  /\ use \in [laser: BOOLEAN, lidar: BOOLEAN]
  /\ current \in BerthingIds \cup {0}
  /\ req \in [Callers -> Request]
  /\ lidarOn \subseteq Sensors
  /\ made \in 0 .. MaxRequests
  /\ closed \in BOOLEAN

Init ==
  /\ LaserInit /\ StreamInit
  /\ use = [laser |-> FALSE, lidar |-> TRUE]
  /\ current = 0
  /\ req = [r \in Callers |-> Idle]
  /\ lidarOn = {}
  /\ made = 0
  /\ closed = FALSE

-----------------------------------------------------------------------------
(* A request arrives.  A berth is configured for a stop if the last start   *)
(* of a laser was for it and lasers are still in use.                       *)
Quiet == \A r \in Callers: req[r].at = "idle"

Arrives(r, request) ==
  /\ req[r].at = "idle" /\ ~closed /\ made < MaxRequests
  /\ made' = made + 1
  /\ req' = [q \in Callers |-> IF q = r THEN [request EXCEPT !.alone = Quiet]
                                        ELSE [req[q] EXCEPT !.alone = FALSE]]

(* start_operation_by_berth up to its query, after configure_devices.       *)
Start(r, b, id, type, uses) ==
  /\ "start" \in Kinds
  /\ Arrives(r, [Idle EXCEPT !.kind = "start", !.berth = b, !.auto = type \in {"BERTH", "UNMOOR"}, !.at = "query"])
  /\ use' = uses
  /\ lm' = [lm EXCEPT !.berth = IF uses.laser THEN b ELSE @]
  /\ current' = id
  /\ UNCHANGED <<listener, coord, drifting, call, streamVars, lidarOn, closed>>

Stop(r, b) ==
  /\ "stop" \in Kinds
  /\ Arrives(r, [Idle EXCEPT !.kind = "stop", !.berth = b, !.at = "query",
                             !.configured = use = [laser |-> TRUE, lidar |-> TRUE] /\ lm.berth = b])
  /\ current' = IF current = b THEN 0 ELSE current
  /\ UNCHANGED <<laserVars, streamVars, use, lidarOn, closed>>

-----------------------------------------------------------------------------
(* get_lasers_by_berth fails or finds nothing: the answer is a failure, and *)
(* what was set before stays.                                               *)
QueryFails(r) ==
  /\ req[r].at = "query"
  /\ req' = [req EXCEPT ![r].at = "answer"]
  /\ UNCHANGED <<laserVars, streamVars, use, current, lidarOn, made, closed>>

LaserPart(r) == req[r].berth \in HasLasers /\ use.laser
LidarPart(r) == SensorsOf[req[r].berth] # {} /\ use.lidar

FirstCall(kind) == IF kind = "start" THEN "connect" ELSE "unsync"

Queried(r) ==
  /\ req[r].at = "query"
  /\ req' = [req EXCEPT ![r].at = "work",
                        ![r].laser = IF LaserPart(r) THEN "busy" ELSE "none",
                        ![r].lidar = IF LidarPart(r) THEN "busy" ELSE "none"]
  /\ call' = IF LaserPart(r)
             THEN [call EXCEPT ![r] = [NoCall EXCEPT !.op = FirstCall(req[r].kind), !.berth = req[r].berth]]
             ELSE call
  /\ UNCHANGED <<lm, listener, coord, drifting, streamVars, use, current, lidarOn, made, closed>>

-----------------------------------------------------------------------------
(* The laser part: three calls, one after the other.  A failure ends it,    *)
(* and nothing is undone, except that a stop goes on when the coordinator   *)
(* cannot be stopped and that the last call of a stop may fail.             *)
After(op) ==
  CASE op = "connect" -> "drift" [] op = "drift" -> "sync"
    [] op = "unsync" -> "undrift" [] op = "undrift" -> "disconnect"

(* Mutant: the parts of a start go on after a failure.                      *)
GoesAnyway(op, ok) == op \in {"connect", "drift", "unsync", "undrift"}

Goes(op, ok) ==
  /\ op \in {"connect", "drift", "unsync", "undrift"}
  /\ ok \/ op = "unsync"

LaserReturns(r) ==
  LET c == call[r] IN
    /\ req[r].laser = "busy" /\ req[r].kind \in {"start", "stop"} /\ c.at = "returned"
    /\ IF Goes(c.op, c.ok)
       THEN /\ call' = [call EXCEPT ![r] = [NoCall EXCEPT !.op = After(c.op), !.berth = req[r].berth]]
            /\ UNCHANGED req
       ELSE /\ call' = [call EXCEPT ![r] = NoCall]
            /\ req' = [req EXCEPT ![r].laser = IF c.ok \/ c.op = "disconnect" THEN "yes" ELSE "no"]
    /\ UNCHANGED <<lm, listener, coord, drifting, streamVars, use, current, lidarOn, made, closed>>

(* The lidar part: "active" is whether one of the sensors streams.          *)
LidarEnabled(r) ==
  /\ req[r].lidar = "busy" /\ req[r].kind = "start"
  /\ \E streaming \in SUBSET SensorsOf[req[r].berth]:
       req' = [req EXCEPT ![r].lidar = IF streaming = {} THEN "bad" ELSE "good", ![r].got = streaming]
  /\ lidarOn' = lidarOn \cup SensorsOf[req[r].berth]
  /\ UNCHANGED <<laserVars, streamVars, use, current, made, closed>>

(* After disabling it is whether berthing mode is active for any sensor.    *)
LidarDisabled(r) ==
  /\ req[r].lidar = "busy" /\ req[r].kind = "stop"
  /\ lidarOn' = lidarOn \ SensorsOf[req[r].berth]
  /\ req' = [req EXCEPT ![r].lidar = IF lidarOn' = {} THEN "good" ELSE "bad"]
  /\ UNCHANGED <<laserVars, streamVars, use, current, made, closed>>

(* An exception of enable resets the mode of all sensors, one of disable    *)
(* may come before or after some of them are off.                           *)
LidarRaises(r) ==
  /\ req[r].lidar = "busy" /\ req[r].kind \in {"start", "stop"}
  /\ req' = [req EXCEPT ![r].lidar = "exception"]
  /\ IF req[r].kind = "start"
     THEN lidarOn' = {}
     ELSE \E off \in SUBSET SensorsOf[req[r].berth]: lidarOn' = lidarOn \ off
  /\ UNCHANGED <<laserVars, streamVars, use, current, made, closed>>

-----------------------------------------------------------------------------
(* The results of the gather are read by the flags as they are by then, so  *)
(* a configuration between may shift them: one part's result is taken for   *)
(* the other's, or looked for where there is none.                          *)
Results(r) ==
  (IF req[r].laser # "none" THEN <<req[r].laser>> ELSE <<>>)
    \o (IF req[r].lidar # "none" THEN <<req[r].lidar>> ELSE <<>>)

LidarIndex(r) == IF LaserPart(r) THEN 2 ELSE 1

Misread(r) ==
  /\ Results(r) # <<>> /\ LidarPart(r)
  /\ LidarIndex(r) > Len(Results(r)) \/ Results(r)[LidarIndex(r)] \in {"yes", "no"}

(* Any dictionary is taken for a success of the laser part.                 *)
LaserSuccess(r) == Results(r) # <<>> /\ LaserPart(r) => Results(r)[1] \notin {"no", "exception"}
LidarSuccess(r) == Results(r) # <<>> /\ LidarPart(r) => Results(r)[LidarIndex(r)] = "good"

Answer(r, success) == req' = [req EXCEPT ![r].at = "answer", ![r].success = success]

StartGathered(r) ==
  /\ StartStreaming(IF req[r].auto /\ LidarPart(r) /\ ~Misread(r) THEN req[r].got ELSE {})
  /\ Answer(r, ~Misread(r) /\ LaserSuccess(r) /\ LidarSuccess(r))

(* A stop of any berth stops the one streamer there is, unless its results  *)
(* are misread.                                                             *)
StopsStreamer(r, success) ==
  /\ StopStreaming(r)
  /\ req' = [req EXCEPT ![r].at = IF Streaming THEN "stopping" ELSE "answer", ![r].success = success]

StopGathered(r) ==
  IF Misread(r)
  THEN Answer(r, FALSE) /\ UNCHANGED streamVars
  ELSE StopsStreamer(r, LaserSuccess(r) /\ LidarSuccess(r))

Gathered(r) ==
  /\ req[r].at = "work" /\ req[r].laser # "busy" /\ req[r].lidar # "busy"
  /\ \/ req[r].kind = "start" /\ StartGathered(r)
     \/ req[r].kind = "stop" /\ StopGathered(r)
  /\ UNCHANGED <<laserVars, use, current, lidarOn, made, closed>>

StreamerStopped(r) ==
  /\ req[r].at = "stopping"
  /\ StopStreamingEnds(r)
  /\ req' = [req EXCEPT ![r].at = "answer"]
  /\ UNCHANGED <<laserVars, use, current, lidarOn, made, closed>>

Answers(r) ==
  /\ req[r].at = "answer"
  /\ req' = [req EXCEPT ![r] = Idle]
  /\ UNCHANGED <<laserVars, streamVars, use, current, lidarOn, made, closed>>

-----------------------------------------------------------------------------
(* shutdown_devices, when the server has finished its requests: the lidars, *)
(* then the laser client if lasers are in use, each call only if its flag   *)
(* is set and none for its result, then the streamer if so configured.      *)
Shutdown(r) ==
  /\ "shutdown" \in Kinds /\ Quiet
  /\ Arrives(r, [Idle EXCEPT !.kind = "shutdown", !.at = "work", !.laser = IF use.laser THEN "busy" ELSE "none"])
  /\ closed' = TRUE
  /\ lidarOn' = {}
  /\ call' = IF use.laser THEN [call EXCEPT ![r] = [NoCall EXCEPT !.op = "unsync"]] ELSE call
  /\ UNCHANGED <<lm, listener, coord, drifting, streamVars, use, current>>

ShutdownGoesOn(r) ==
  /\ req[r].kind = "shutdown" /\ req[r].laser = "busy" /\ call[r].at = "returned"
  /\ IF call[r].op = "disconnect"
     THEN /\ req' = [req EXCEPT ![r].laser = "yes"]
          /\ call' = [call EXCEPT ![r] = NoCall]
     ELSE /\ call' = [call EXCEPT ![r] = [NoCall EXCEPT !.op = After(call[r].op)]]
          /\ UNCHANGED req
  /\ UNCHANGED <<lm, listener, coord, drifting, streamVars, use, current, lidarOn, made, closed>>

ShutdownStreams(r) ==
  /\ req[r].kind = "shutdown" /\ req[r].at = "work" /\ req[r].laser # "busy"
  /\ \/ Answer(r, TRUE) /\ UNCHANGED streamVars
     \/ StopsStreamer(r, TRUE)
  /\ UNCHANGED <<laserVars, use, current, lidarOn, made, closed>>

-----------------------------------------------------------------------------
Begin(r) ==
  \/ \E b \in Berths, id \in BerthingIds, type \in Types, uses \in Uses: Start(r, b, id, type, uses)
  \/ \E b \in Berths: Stop(r, b)
  \/ Shutdown(r)

Continue(r) ==
  \/ QueryFails(r) \/ Queried(r) \/ LaserReturns(r) \/ LidarEnabled(r) \/ LidarDisabled(r) \/ LidarRaises(r)
  \/ Answers(r) \/ ShutdownGoesOn(r) \/ ShutdownStreams(r)

(* The loop is first in, first out: once a stop is to resume, only what was *)
(* to resume with it goes before.                                           *)
FirstInFirstOut == \A r \in Callers: ~Stopped(r)

Background ==
  \/ LaserThreads /\ UNCHANGED <<streamVars, operationVars>>
  \/ StreamTasks /\ UNCHANGED <<laserVars, operationVars>>

Next ==
  \/ FirstInFirstOut /\ \E r \in Callers: Begin(r) \/ Continue(r)
  \/ \E r \in Callers:
       \/ Gathered(r) \/ StreamerStopped(r)
       \/ CallStep(r) /\ UNCHANGED <<streamVars, operationVars>>
  \/ Background

Spec == Init /\ [][Next]_vars

(* The loop runs what is ready, threads and consumers go on; a request may  *)
(* never be made.                                                           *)
FairSpec ==
  /\ Spec
  /\ \A r \in Callers: WF_vars(Continue(r)) /\ WF_vars(Gathered(r)) /\ WF_vars(StreamerStopped(r))
  /\ \A s \in Streams: WF_vars(/\ StreamBegins(s) \/ StreamEnds(s) \/ StreamDone(s)
                               /\ UNCHANGED <<laserVars, operationVars>>)
  /\ \A s \in Streams, x \in Sensors: WF_vars(ConsumerPosts(s, x) /\ UNCHANGED <<laserVars, operationVars>>)
-----------------------------------------------------------------------------
(* A start that answers success, and that no other request overlapped, has  *)
(* switched on all it was asked for: the connection to the laser service,   *)
(* its coordinator, the drift mode of this very berth, the lidars, and the  *)
(* streamer if the operation wants one.                                     *)
StartDelivers ==
  \A r \in Callers:
    req[r].at = "answer" /\ req[r].kind = "start" /\ req[r].success /\ req[r].alone =>
      /\ req[r].laser # "none" => lm.conn /\ lm.sync /\ lm.drift /\ req[r].berth \in drifting
      /\ req[r].lidar # "none" => SensorsOf[req[r].berth] \subseteq lidarOn
      /\ req[r].lidar # "none" /\ req[r].auto => Streaming

(* A stop that answers success, that no other request overlapped and whose  *)
(* berth was the one configured last for lasers and lidars, leaves nothing  *)
(* of it: no connection, coordinator or drift flag, no lidar in berthing    *)
(* mode, and no consumer that goes on (see ConsumersOwned).                 *)
StopDelivers ==
  \A r \in Callers:
    req[r].at = "answer" /\ req[r].kind = "stop" /\ req[r].success /\ req[r].alone /\ req[r].configured =>
      /\ req[r].berth \in HasLasers => ~lm.conn /\ ~lm.sync /\ ~lm.drift
      /\ SensorsOf[req[r].berth] \cap lidarOn = {}
      /\ lost = {} => \A s \in Streams, x \in Sensors: consumer[s][x] # "runs"

(* An answer of success means what it says, of a start and of a stop.       *)
AnswersDeliver == StartDelivers /\ StopDelivers

(* What the docstring of _consume_async says: a consumer that goes on sends *)
(* what it fetches to the database.                                         *)
RowsStored ==
  \A x \in Sensors:
    (\E s \in Streams: consumer[s][x] = "runs") ~> (x \in stored \/ \A s \in Streams: consumer[s][x] # "runs")
=============================================================================
