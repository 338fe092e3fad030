--------------------------- MODULE LidarBerthing ----------------------------
(***************************************************************************)
(* LidarManager (lidar-service/app/services/lidar_manager.py): berthing    *)
(* mode of the lidars.  Requests are coroutines of one event loop;         *)
(* a capture thread per stream and the sync coordinator thread run beside  *)
(* it and are told to end by flags that a later start sets again.          *)
(*                                                                         *)
(* Awaits that suspend are the executor calls and the sleeps; connecting,  *)
(* starting a stream and disconnecting run without one, hence are atomic   *)
(* for the loop.  join() and time.sleep() stop the whole loop: while a     *)
(* request is in a join, only threads make progress.  A call of the driver *)
(* that waits for a heartbeat which has ended or is blocked never returns, *)
(* and stops the loop for good when it is made on the loop's thread.       *)
(***************************************************************************)
EXTENDS Naturals, FiniteSets

CONSTANTS
  Sensors,        (* serial numbers of the lidars on the network             *)
  Requests,       (* API requests that may be in flight at the same time     *)
  Slots,          (* bound: capture threads of one sensor alive at a time    *)
  Coordinators,   (* bound: coordinator threads alive at a time              *)
  Ops,            (* the operations that clients use                         *)
  Groups,         (* the lists of sensors they ask for: the lidars of a berth *)
  Initial,        (* the lidars that auto-connect found at startup           *)
  MaxDiscoveries, (* max_discovery_attempts: 3 in the code                   *)
  MaxConnects,    (* max_connection_attempts: 3                              *)
  MaxStarts,      (* max_streaming_attempts: 3                               *)
  NetworkFails,   (* discovery, connects and starts may fail                 *)
  JoinsInTime,    (* a thread that is told to end does so in join's timeout  *)
  HeartbeatDies,  (* the heartbeat thread of a driver may end or be blocked  *)
  ThreadsFail     (* the system may refuse to create a thread                *)

AllOps == {"enable", "disable", "auto", "connect", "disconnect", "stream"}

ASSUME LidarAssumption ==
  /\ Sensors \subseteq Nat \ {0}
  /\ Slots \subseteq Nat \ {0}
  /\ Coordinators \subseteq Nat \ {0}
  /\ Ops \subseteq AllOps
  /\ Groups \subseteq SUBSET Sensors
  /\ Initial \subseteq Sensors
  /\ MaxDiscoveries \in Nat \ {0}
  /\ MaxConnects \in Nat \ {0}
  /\ MaxStarts \in Nat \ {0}
  /\ NetworkFails \in BOOLEAN
  /\ JoinsInTime \in BOOLEAN
  /\ HeartbeatDies \in BOOLEAN
  /\ ThreadsFail \in BOOLEAN

VARIABLES
  sensors,                 (* the keys of self.sensors                       *)
  stream_active,           (* the sensors whose stream_active entry is True  *)
  capture,                 (* capture[s][k]: a capture thread of sensor s    *)
  stream_threads,          (* stream_threads.get(s)                          *)
  berthing_mode_sensors,
  berthing_mode_active,
  sync_coordinator_active,
  sync_coordinator_thread,
  coordinator,             (* coordinator[c]: a coordinator thread           *)
  req,                     (* req[r]: the request that runs in slot r        *)
  sub,                     (* sub[r][s]: _enable_single_sensor_berthing      *)
  hung,                    (* a call of the driver holds the loop for ever   *)
  told                     (* history: sensors reported as streaming by an   *)
                           (* enable and in berthing mode ever since         *)

streamVars == <<sensors, stream_active, capture, stream_threads>>
modeVars   == <<berthing_mode_sensors, berthing_mode_active, told>>
syncVars   == <<sync_coordinator_active, sync_coordinator_thread, coordinator>>
vars       == <<streamVars, modeVars, syncVars, req, sub, hung>>

NoThread == 0
NoSensor == 0

(* alone: no other client has asked for anything since the request came in. *)
Request ==
  [op: {"none", "enable", "disable", "auto"},
   st: {"idle", "discover", "gather", "settle",           \* enable
        "join_coordinator", "spin_down", "stop_stream", "join_capture",
        "search", "register", "stuck"},                    \* auto-connect
   ids: SUBSET Sensors, found: SUBSET Sensors, todo: SUBSET Sensors,
   cur: Sensors \cup {NoSensor}, was_streaming: BOOLEAN, tries: 0..(MaxDiscoveries - 1),
   alone: BOOLEAN]

NoRequest ==
  [op |-> "none", st |-> "idle", ids |-> {}, found |-> {}, todo |-> {}, cur |-> NoSensor,
   was_streaming |-> FALSE, tries |-> 0, alone |-> FALSE]

Sub == [st: {"idle", "begin", "reconnect", "restart", "spin_up", "streaming", "failed"},
        tries: Nat]
NoSub == [st |-> "idle", tries |-> 0]

Init ==
  /\ sensors = Initial
  /\ stream_active = {}
  /\ capture = [s \in Sensors |-> [k \in Slots |-> "done"]]
  /\ stream_threads = [s \in Sensors |-> NoThread]
  /\ berthing_mode_sensors = {} /\ berthing_mode_active = FALSE
  /\ sync_coordinator_active = FALSE /\ sync_coordinator_thread = NoThread
  /\ coordinator = [c \in Coordinators |-> "done"]
  /\ req = [r \in Requests |-> NoRequest]
  /\ sub = [r \in Requests |-> [s \in Sensors |-> NoSub]]
  /\ told = {}
  /\ hung = FALSE

-----------------------------------------------------------------------------
(* Helpers.                                                                 *)

Idle(r)     == req[r].st = "idle"
Quiet       == \A r \in Requests : Idle(r)
Joining     == \E r \in Requests : req[r].st \in {"join_coordinator", "join_capture"}
LoopBlocked == hung \/ Joining
InLoop(r, st) == req[r].st = st /\ ~LoopBlocked

SetReq(r, q) == req' = [req EXCEPT ![r] = q]
Answer(r)    == SetReq(r, NoRequest)
Overlapped   == [q \in Requests |-> IF Idle(q) THEN req[q] ELSE [req[q] EXCEPT !.alone = FALSE]]
Accept(r, q) == req' = [Overlapped EXCEPT ![r] = [q EXCEPT !.alone = Quiet]]

SetSub(r, s, st)  == sub' = [sub EXCEPT ![r][s] = [st |-> st, tries |-> 0]]
(* Mutants: one attempt too many; attempts are not counted.                 *)
TryOnceMore(r, s, limit, st) ==
  sub' = [sub EXCEPT ![r][s] =
            IF @.tries < limit THEN [st |-> st, tries |-> @.tries + 1]
                               ELSE [st |-> "failed", tries |-> 0]]
TryForever(r, s, limit, st) == SetSub(r, s, st)

(* The next of limit attempts, or none is left.                             *)
TryLater(r, s, limit, st) ==
  sub' = [sub EXCEPT ![r][s] =
            IF @.tries + 1 < limit THEN [st |-> st, tries |-> @.tries + 1]
                                   ELSE [st |-> "failed", tries |-> 0]]

AnyOf(S) == CHOOSE k \in S : TRUE

-----------------------------------------------------------------------------
(* connect_sensor, disconnect_sensor(force) and start_data_stream.          *)

Connected(s) ==
  /\ sensors' = sensors \cup {s}
  /\ stream_active' = stream_active \ {s}

(* Mutant: stream_active is left alone.                                     *)
DisconnectedMidStream(s) ==
  /\ sensors' = sensors \ {s}
  /\ UNCHANGED stream_active

Disconnected(s) ==
  /\ sensors' = sensors \ {s}
  /\ stream_active' = stream_active \ {s}

(* The flag is set and a new thread takes the place of the old one, which   *)
(* may not have noticed yet that it should have ended (bound: Slots).       *)
StartCapture(s) ==
  LET free == {k \in Slots : capture[s][k] = "done"} IN
    /\ free # {}
    /\ capture' = [capture EXCEPT ![s][AnyOf(free)] = "new"]
    /\ stream_threads' = [stream_threads EXCEPT ![s] = AnyOf(free)]

(* One attempt to start the stream of s, which is connected.                *)
StreamStarts(r, s) ==
  /\ stream_active' = stream_active \cup {s}
  /\ IF s \in stream_active THEN UNCHANGED <<capture, stream_threads>> ELSE StartCapture(s)
  /\ SetSub(r, s, "spin_up")

StreamFails(r, s) ==
  /\ NetworkFails /\ s \notin stream_active
  /\ TryLater(r, s, MaxStarts, "restart")
  /\ UNCHANGED <<stream_active, capture, stream_threads>>

FreeCoordinators == {c \in Coordinators : coordinator[c] \in {"done", "unstarted"}}

(* Mutant: a thread that the manager still knows is taken to be running.    *)
StartCoordinatorOnce ==
  IF sync_coordinator_active
  THEN UNCHANGED syncVars
  ELSE /\ sync_coordinator_active' = TRUE
       /\ sync_coordinator_thread' = AnyOf(Coordinators)
       /\ IF sync_coordinator_thread # NoThread
          THEN UNCHANGED coordinator
          ELSE coordinator' = [coordinator EXCEPT ![AnyOf(Coordinators)] = "live"]

StartCoordinator ==
  IF sync_coordinator_active
  THEN UNCHANGED syncVars
  ELSE /\ FreeCoordinators # {}
       /\ sync_coordinator_active' = TRUE
       /\ sync_coordinator_thread' = AnyOf(FreeCoordinators)
       /\ coordinator' = [coordinator EXCEPT ![AnyOf(FreeCoordinators)] = "live"]

(* The thread is known to the manager before its start() raises.            *)
CoordinatorRefused ==
  /\ ThreadsFail /\ ~sync_coordinator_active
  /\ FreeCoordinators # {}
  /\ sync_coordinator_thread' = AnyOf(FreeCoordinators)
  /\ coordinator' = [coordinator EXCEPT ![AnyOf(FreeCoordinators)] = "unstarted"]

(* To join a thread that was never started raises.                          *)
Unstarted ==
  sync_coordinator_thread # NoThread /\ coordinator[sync_coordinator_thread] = "unstarted"

-----------------------------------------------------------------------------
(* enable_berthing_mode(ids)                                                *)

Enable(r, ids) ==
  /\ "enable" \in Ops
  /\ Idle(r) /\ ~LoopBlocked
  /\ Accept(r, [NoRequest EXCEPT !.op = "enable", !.st = "discover", !.ids = ids])
  /\ berthing_mode_sensors' = berthing_mode_sensors \cup ids
  /\ berthing_mode_active' = TRUE
  /\ UNCHANGED <<streamVars, syncVars, sub, told>>

(* discover_sensors: with a lidar connected the code asks a LidarInfo for   *)
(* .get, the AttributeError is caught and the answer is the empty list.     *)
Discovery ==
  IF sensors # {} THEN {{}} ELSE IF NetworkFails THEN SUBSET Sensors ELSE {Sensors}

Discovered(r) ==
  /\ InLoop(r, "discover")
  /\ \E net \in Discovery :
       IF net = {} /\ req[r].tries + 1 < MaxDiscoveries
       THEN SetReq(r, [req[r] EXCEPT !.tries = @ + 1]) /\ UNCHANGED sub
       ELSE /\ SetReq(r, [req[r] EXCEPT !.st = "gather", !.found = net \cap req[r].ids, !.tries = 0])
            /\ sub' = [sub EXCEPT ![r] = [s \in Sensors |->
                         IF s \in req[r].ids THEN [NoSub EXCEPT !.st = "begin"] ELSE NoSub]]
  /\ UNCHANGED <<streamVars, modeVars, syncVars>>

(* _enable_single_sensor_berthing: only the first attempt looks whether the *)
(* sensor is connected already, and a sensor that was not discovered is     *)
(* given up.                                                                *)
FindsConnected(r, s) ==
  /\ sub[r][s].st = "begin" /\ ~LoopBlocked
  /\ s \in sensors
  /\ \/ StreamStarts(r, s)
     \/ StreamFails(r, s)
  /\ UNCHANGED <<sensors, modeVars, syncVars, req>>

NotDiscovered(r, s) ==
  /\ sub[r][s].st = "begin" /\ ~LoopBlocked
  /\ s \notin sensors /\ s \notin req[r].found
  /\ SetSub(r, s, "failed")
  /\ UNCHANGED <<streamVars, modeVars, syncVars, req>>

Connecting(r, s) ==
  /\ ~LoopBlocked
  /\ \/ sub[r][s].st = "begin" /\ s \notin sensors /\ s \in req[r].found
     \/ sub[r][s].st = "reconnect"

(* Connects and makes the first attempt to stream in one stretch.           *)
Connects(r, s) ==
  /\ Connecting(r, s)
  /\ s \notin sensors
  /\ sensors' = sensors \cup {s}
  /\ \/ StreamStarts(r, s)
     \/ /\ NetworkFails
        /\ sub' = [sub EXCEPT ![r][s] = IF MaxStarts > 1 THEN [st |-> "restart", tries |-> 1]
                                                         ELSE [st |-> "failed", tries |-> 0]]
        /\ UNCHANGED <<stream_active, capture, stream_threads>>
  /\ UNCHANGED <<modeVars, syncVars, req>>

(* connect_sensor also returns False when someone else connected meanwhile. *)
ConnectFails(r, s) ==
  /\ Connecting(r, s)
  /\ s \in sensors \/ NetworkFails
  /\ TryLater(r, s, MaxConnects, "reconnect")
  /\ UNCHANGED <<streamVars, modeVars, syncVars, req>>

Restarts(r, s) ==
  /\ sub[r][s].st = "restart" /\ ~LoopBlocked
  /\ IF s \in sensors
     THEN StreamStarts(r, s) \/ StreamFails(r, s)
     ELSE /\ TryLater(r, s, MaxStarts, "restart")
          /\ UNCHANGED <<stream_active, capture, stream_threads>>
  /\ UNCHANGED <<sensors, modeVars, syncVars, req>>

SpunUp(r, s) ==
  /\ sub[r][s].st = "spin_up" /\ ~LoopBlocked
  /\ SetSub(r, s, "streaming")
  /\ UNCHANGED <<streamVars, modeVars, syncVars, req>>

(* gather has every result; with one stream at least the coordinator is     *)
(* started.                                                                 *)
Gathered(r) ==
  /\ InLoop(r, "gather")
  /\ \A s \in req[r].ids : sub[r][s].st \in {"streaming", "failed"}
  /\ LET streaming == {s \in req[r].ids : sub[r][s].st = "streaming"} IN
       IF streaming = {}
       THEN Answer(r) /\ UNCHANGED <<syncVars, told>>
       ELSE /\ StartCoordinator
            /\ SetReq(r, [req[r] EXCEPT !.st = "settle", !.ids = streaming])
            /\ told' = told \cup (streaming \cap berthing_mode_sensors)
  /\ sub' = [sub EXCEPT ![r] = [s \in Sensors |-> NoSub]]
  /\ UNCHANGED <<streamVars, berthing_mode_sensors, berthing_mode_active>>

(* start() of the coordinator raises: the handler of critical errors takes  *)
(* every sensor out of berthing mode, raises in its turn when it joins the  *)
(* thread that was not started, and leaves the streams running.             *)
StartRaises(r) ==
  /\ InLoop(r, "gather")
  /\ \A s \in req[r].ids : sub[r][s].st \in {"streaming", "failed"}
  /\ \E s \in req[r].ids : sub[r][s].st = "streaming"
  /\ CoordinatorRefused
  /\ sync_coordinator_active' = FALSE
  /\ berthing_mode_sensors' = {} /\ berthing_mode_active' = FALSE /\ told' = {}
  /\ Answer(r)
  /\ sub' = [sub EXCEPT ![r] = [s \in Sensors |-> NoSub]]
  /\ UNCHANGED streamVars

Settled(r) ==
  /\ InLoop(r, "settle")
  /\ Answer(r)
  /\ UNCHANGED <<streamVars, modeVars, syncVars, sub>>

-----------------------------------------------------------------------------
(* disable_berthing_mode(ids): only sensors in berthing mode count.         *)

(* Mutant: the state is reset as if no other sensor were left.              *)
ForceResetAll(ids, flag) ==
  /\ berthing_mode_sensors' = berthing_mode_sensors \ ids
  /\ berthing_mode_active' = FALSE
  /\ sync_coordinator_active' = FALSE
  /\ told' = told \ ids

(* Step 3: the sensors leave berthing mode; without any left the flag of    *)
(* the coordinator falls too, and nobody joins its thread.                  *)
ForceReset(ids, flag) ==
  LET left == berthing_mode_sensors \ ids IN
    /\ berthing_mode_sensors' = left
    /\ berthing_mode_active' = (left # {} /\ berthing_mode_active)
    /\ sync_coordinator_active' = (left # {} /\ flag)
    /\ told' = told \ ids

(* Step 2 goes on with the sensors of left: the next one that is connected  *)
(* is told to stop and to spin down, others before it are skipped.          *)
DisableRest(reqs, r, q, left, connected, flag) ==
  \/ /\ left \cap connected = {}
     /\ req' = [reqs EXCEPT ![r] = NoRequest]
     /\ ForceReset(q.ids, flag)
  \/ \E s \in left \cap connected, skipped \in SUBSET (left \ connected) :
       /\ req' = [reqs EXCEPT ![r] =
                    [q EXCEPT !.st = "spin_down", !.cur = s, !.todo = left \ (skipped \cup {s}),
                              !.was_streaming = s \in stream_active]]
       /\ sync_coordinator_active' = flag
       /\ UNCHANGED modeVars

(* Step 1 stops the coordinator when no other sensor is in berthing mode.   *)
Disable(r, ids) ==
  /\ "disable" \in Ops
  /\ Idle(r) /\ ~LoopBlocked
  /\ LET actual == ids \cap berthing_mode_sensors
         last   == berthing_mode_sensors \ actual = {}
         q == [NoRequest EXCEPT !.op = "disable", !.ids = actual, !.alone = Quiet]
     IN /\ actual # {}
        /\ ~(last /\ Unstarted)
        /\ IF last /\ sync_coordinator_thread # NoThread
           THEN /\ req' = [Overlapped EXCEPT ![r] = [q EXCEPT !.st = "join_coordinator"]]
                /\ sync_coordinator_active' = FALSE
                /\ UNCHANGED modeVars
           ELSE DisableRest(Overlapped, r, q, actual, sensors, ~last /\ sync_coordinator_active)
  /\ UNCHANGED <<streamVars, sync_coordinator_thread, coordinator, sub>>

(* The coordinator was never started: the join raises, the request fails at *)
(* once and none of its sensors is stopped.                                 *)
DisableRaises(r, ids) ==
  /\ "disable" \in Ops
  /\ Idle(r) /\ ~LoopBlocked
  /\ ids \cap berthing_mode_sensors # {}
  /\ berthing_mode_sensors \subseteq ids
  /\ Unstarted
  /\ req' = Overlapped
  /\ sync_coordinator_active' = FALSE
  /\ UNCHANGED <<streamVars, modeVars, sync_coordinator_thread, coordinator, sub>>

CoordinatorJoined(r) ==
  /\ req[r].st = "join_coordinator" /\ ~hung
  /\ coordinator[sync_coordinator_thread] = "done" \/ ~JoinsInTime
  /\ sync_coordinator_thread' = NoThread
  /\ DisableRest(req, r, req[r], req[r].ids, sensors, sync_coordinator_active)
  /\ UNCHANGED <<streamVars, coordinator, sub>>

(* disconnect_sensor(s, force), then the next sensor.                       *)
DisconnectsCur(r) ==
  LET s == req[r].cur IN
    /\ Disconnected(s)
    /\ DisableRest(req, r, req[r], req[r].todo, sensors \ {s}, sync_coordinator_active)

(* Mutant: only a sensor that streams is disconnected.                      *)
SpunDownStopsOnly(r) ==
  /\ InLoop(r, "spin_down")
  /\ IF req[r].was_streaming /\ req[r].cur \in sensors \cap stream_active
     THEN /\ SetReq(r, [req[r] EXCEPT !.st = "stop_stream"])
          /\ stream_active' = stream_active \ {req[r].cur}
          /\ UNCHANGED <<sensors, modeVars, sync_coordinator_active>>
     ELSE /\ DisableRest(req, r, req[r], req[r].todo, sensors, sync_coordinator_active)
          /\ UNCHANGED <<sensors, stream_active>>
  /\ UNCHANGED <<capture, stream_threads, sync_coordinator_thread, coordinator, sub>>

(* After half a second: stop_data_stream if the sensor was streaming before *)
(* and still is.                                                            *)
SpunDown(r) ==
  /\ InLoop(r, "spin_down")
  /\ IF req[r].was_streaming /\ req[r].cur \in sensors \cap stream_active
     THEN /\ SetReq(r, [req[r] EXCEPT !.st = "stop_stream"])
          /\ stream_active' = stream_active \ {req[r].cur}
          /\ UNCHANGED <<sensors, modeVars, sync_coordinator_active>>
     ELSE DisconnectsCur(r)
  /\ UNCHANGED <<capture, stream_threads, sync_coordinator_thread, coordinator, sub>>

(* The rest of stop_data_stream joins the capture thread, unless the sensor *)
(* has been disconnected meanwhile.                                         *)
StopsStream(r) ==
  /\ InLoop(r, "stop_stream")
  /\ IF req[r].cur \in sensors /\ stream_threads[req[r].cur] # NoThread
     THEN /\ SetReq(r, [req[r] EXCEPT !.st = "join_capture"])
          /\ UNCHANGED <<sensors, stream_active, modeVars, sync_coordinator_active>>
     ELSE DisconnectsCur(r)
  /\ UNCHANGED <<capture, stream_threads, sync_coordinator_thread, coordinator, sub>>

(* The join times out when the stream was started again during the await.   *)
CaptureJoined(r) ==
  /\ req[r].st = "join_capture" /\ ~hung
  /\ LET s == req[r].cur IN
       /\ \/ capture[s][stream_threads[s]] = "done"
          \/ s \in stream_active
          \/ ~JoinsInTime
       /\ stream_threads' = [stream_threads EXCEPT ![s] = NoThread]
  /\ DisconnectsCur(r)
  /\ UNCHANGED <<capture, sync_coordinator_thread, coordinator, sub>>

-----------------------------------------------------------------------------
(* auto_connect_all searches in an executor thread: it looks at sensors     *)
(* without the lock and takes the lock only to register.                    *)

AutoConnect(r) ==
  /\ "auto" \in Ops
  /\ Idle(r) /\ ~LoopBlocked
  /\ Accept(r, [NoRequest EXCEPT !.op = "auto", !.st = "search", !.todo = Sensors])
  /\ UNCHANGED <<streamVars, modeVars, syncVars, sub>>

AutoFinds(r) ==
  /\ req[r].st = "search"
  /\ \E s \in req[r].todo \ sensors :
       SetReq(r, [req[r] EXCEPT !.st = "register", !.cur = s, !.todo = @ \ {s}])
  /\ UNCHANGED <<streamVars, modeVars, syncVars, sub>>

AutoRegisters(r) ==
  /\ req[r].st = "register"
  /\ Connected(req[r].cur)
  /\ SetReq(r, [req[r] EXCEPT !.st = "search", !.cur = NoSensor])
  /\ UNCHANGED <<capture, stream_threads, modeVars, syncVars, sub>>

AutoEnds(r) ==
  /\ InLoop(r, "search")
  /\ Answer(r)
  /\ UNCHANGED <<streamVars, modeVars, syncVars, sub>>

(* A call of the driver on a lidar it has found, or has registered just now,*)
(* waits for a dead heartbeat: the thread of the search is lost.            *)
AutoHangs(r) ==
  /\ HeartbeatDies
  /\ req[r].st = "search"
  /\ SetReq(r, [req[r] EXCEPT !.st = "stuck"])
  /\ UNCHANGED <<streamVars, modeVars, syncVars, sub>>

-----------------------------------------------------------------------------
(* Routes that do not await: connect and disconnect one sensor, and the     *)
(* point cloud WebSocket, which starts the stream it needs.                 *)

Route(op, s) ==
  /\ op \in Ops
  /\ ~LoopBlocked
  /\ req' = Overlapped
  /\ UNCHANGED <<modeVars, syncVars, sub>>

ConnectRoute(s) ==
  /\ Route("connect", s)
  /\ s \notin sensors
  /\ Connected(s)
  /\ UNCHANGED <<capture, stream_threads>>

DisconnectRoute(s) ==
  /\ Route("disconnect", s)
  /\ s \in sensors
  /\ Disconnected(s)
  /\ UNCHANGED <<capture, stream_threads>>

StreamRoute(s) ==
  /\ Route("stream", s)
  /\ s \in sensors \ stream_active
  /\ stream_active' = stream_active \cup {s}
  /\ StartCapture(s)
  /\ UNCHANGED sensors

-----------------------------------------------------------------------------
(* _waitForIdle polls the heartbeat's idle_state in every call of the       *)
(* driver.  With the heartbeat ended or blocked the call that a request is  *)
(* about to make on the loop's thread does not return.                      *)

(* lidarSpinDown, disconnect and lidarSpinUp hang before anything changes;  *)
(* connect hangs before the sensor is registered or, spinning down, after.  *)
CallHangs(s)    == s \in sensors /\ UNCHANGED <<sensors, stream_active>>
ConnectHangs(s) == s \notin sensors /\ (UNCHANGED <<sensors, stream_active>> \/ Connected(s))

RequestHangs(s) ==
  /\ \E r \in Requests :
       \/ /\ req[r].st \in {"spin_down", "stop_stream"} /\ req[r].cur = s /\ ~LoopBlocked
          /\ CallHangs(s)
       \/ req[r].st = "join_capture" /\ req[r].cur = s /\ ~hung /\ CallHangs(s)
       \/ /\ sub[r][s].st \in {"begin", "restart"} /\ s \notin stream_active /\ ~LoopBlocked
          /\ CallHangs(s)
       \/ Connecting(r, s) /\ ConnectHangs(s)
  /\ UNCHANGED req

RouteHangs(s) ==
  /\ ~LoopBlocked
  /\ \/ ("disconnect" \in Ops \/ ("stream" \in Ops /\ s \notin stream_active)) /\ CallHangs(s)
     \/ "connect" \in Ops /\ ConnectHangs(s)
  /\ req' = Overlapped

Hangs(s) ==
  /\ HeartbeatDies
  /\ RequestHangs(s) \/ RouteHangs(s)
  /\ hung' = TRUE
  /\ UNCHANGED <<capture, stream_threads, modeVars, syncVars, sub>>

-----------------------------------------------------------------------------
(* The threads.                                                             *)

(* A capture thread looks its sensor up, then loops while the stream is     *)
(* active; it cannot tell one activation from the next.                     *)
CaptureBegins(s, k) ==
  /\ capture[s][k] = "new"
  /\ capture' = [capture EXCEPT ![s][k] = IF s \in sensors THEN "run" ELSE "done"]
  /\ UNCHANGED <<sensors, stream_active, stream_threads, modeVars, syncVars, req, sub>>

(* Mutant: the thread of a disconnected sensor does not look at the flag.   *)
CaptureEndsConnected(s, k) ==
  /\ capture[s][k] = "run"
  /\ s \in sensors \ stream_active
  /\ capture' = [capture EXCEPT ![s][k] = "done"]
  /\ UNCHANGED <<sensors, stream_active, stream_threads, modeVars, syncVars, req, sub>>

CaptureEnds(s, k) ==
  /\ capture[s][k] = "run"
  /\ s \notin stream_active
  /\ capture' = [capture EXCEPT ![s][k] = "done"]
  /\ UNCHANGED <<sensors, stream_active, stream_threads, modeVars, syncVars, req, sub>>

CoordinatorEnds(c) ==
  /\ coordinator[c] = "live"
  /\ ~sync_coordinator_active
  /\ coordinator' = [coordinator EXCEPT ![c] = "done"]
  /\ UNCHANGED <<streamVars, modeVars, sync_coordinator_active, sync_coordinator_thread, req, sub>>

-----------------------------------------------------------------------------

SubStep(r, s) ==
  /\ \/ FindsConnected(r, s) \/ NotDiscovered(r, s) \/ Connects(r, s) \/ ConnectFails(r, s)
     \/ Restarts(r, s) \/ SpunUp(r, s)
  /\ UNCHANGED hung

RequestStep(r) ==
  /\ \/ Discovered(r) \/ Gathered(r) \/ StartRaises(r) \/ Settled(r)
     \/ CoordinatorJoined(r) \/ SpunDown(r) \/ StopsStream(r) \/ CaptureJoined(r)
     \/ AutoFinds(r) \/ AutoRegisters(r) \/ AutoHangs(r) \/ AutoEnds(r)
  /\ UNCHANGED hung

RouteStep(s) == (ConnectRoute(s) \/ DisconnectRoute(s) \/ StreamRoute(s)) /\ UNCHANGED hung

CaptureStep(s, k) == (CaptureBegins(s, k) \/ CaptureEnds(s, k)) /\ UNCHANGED hung

CoordinatorStep(c) == CoordinatorEnds(c) /\ UNCHANGED hung

Asks(r) ==
  /\ \/ AutoConnect(r)
     \/ \E ids \in Groups : Enable(r, ids) \/ Disable(r, ids) \/ DisableRaises(r, ids)
  /\ UNCHANGED hung

Next ==
  \/ \E r \in Requests : Asks(r) \/ RequestStep(r)
  \/ \E r \in Requests, s \in Sensors : SubStep(r, s)
  \/ \E s \in Sensors : RouteStep(s) \/ Hangs(s)
  \/ \E s \in Sensors, k \in Slots : CaptureStep(s, k)
  \/ \E c \in Coordinators : CoordinatorStep(c)

Spec == Init /\ [][Next]_vars

(* The operating system runs every thread.  The event loop runs its ready   *)
(* callbacks in turn, so a coroutine that can go on again and again between *)
(* the joins of others does: strong fairness.  A call of the driver that    *)
(* hangs is a step of its own, so this does not say that calls return.      *)
(* Clients are not fair.                                                    *)
Fairness ==
  /\ \A r \in Requests : SF_vars(RequestStep(r))
  /\ \A r \in Requests, s \in Sensors : SF_vars(SubStep(r, s))
  /\ \A s \in Sensors, k \in Slots : WF_vars(CaptureStep(s, k))
  /\ \A c \in Coordinators : WF_vars(CoordinatorStep(c))

FairSpec == Spec /\ Fairness

-----------------------------------------------------------------------------

(* Type invariant: what the fields of the manager, the threads and the      *)
(* coroutines may hold, and how often each attempt may have been repeated.  *)
StreamTypeOK ==
  /\ sensors \in SUBSET Sensors
  /\ stream_active \in SUBSET Sensors
  /\ capture \in [Sensors -> [Slots -> {"new", "run", "done"}]]
  /\ stream_threads \in [Sensors -> Slots \cup {NoThread}]

ModeTypeOK ==
  /\ berthing_mode_sensors \in SUBSET Sensors
  /\ berthing_mode_active \in BOOLEAN
  /\ told \in SUBSET Sensors

SyncTypeOK ==
  /\ sync_coordinator_active \in BOOLEAN
  /\ sync_coordinator_thread \in Coordinators \cup {NoThread}
  /\ coordinator \in [Coordinators -> {"unstarted", "live", "done"}]

RequestTypeOK == req \in [Requests -> Request]

SubTypeOK ==
  /\ sub \in [Requests -> [Sensors -> Sub]]
  /\ \A r \in Requests, s \in Sensors :
       sub[r][s].tries < (IF sub[r][s].st = "reconnect" THEN MaxConnects ELSE MaxStarts)

TypeOK ==
  /\ StreamTypeOK /\ ModeTypeOK /\ SyncTypeOK /\ RequestTypeOK /\ SubTypeOK
  /\ hung \in BOOLEAN

(* A stream that is marked active belongs to a connected sensor and has a   *)
(* capture thread, whatever stops, disconnects and restarts overlap: the    *)
(* flag that ended one thread is reused for the next.                       *)
StreamBacked ==
  \A s \in stream_active :
    /\ s \in sensors
    /\ \E k \in Slots : capture[s][k] \in {"new", "run"}

(* The coordinator's flag is up exactly in states with a thread that obeys  *)
(* it, and that thread is the one a later stop will join.                   *)
CoordinatorBacked ==
  sync_coordinator_active =>
    /\ sync_coordinator_thread # NoThread
    /\ coordinator[sync_coordinator_thread] = "live"

(* A sensor that an enable reported as streaming is synchronised, and       *)
(* berthing mode is active, until a disable that names it is on its way:    *)
(* disabling one berth never silences another.                              *)
EnabledIsSynced ==
  \A s \in told :
    /\ s \in berthing_mode_sensors /\ berthing_mode_active
    /\ \/ sync_coordinator_active
       \/ \E r \in Requests : req[r].op = "disable" /\ s \in req[r].ids

(* A disable that is answered without an error, and during which no other   *)
(* client asked for anything, leaves its sensors disconnected, out of       *)
(* berthing mode and without a stream, and the coordinator's flag down if   *)
(* no other sensor is left.                                                 *)
Disables(r) == req[r].op = "disable" /\ req'[r].op = "none"
DisableDelivers ==
  [][\A r \in Requests : Disables(r) /\ req[r].alone =>
       /\ req[r].ids \cap (sensors' \cup stream_active' \cup berthing_mode_sensors') = {}
       /\ berthing_mode_sensors' = {} => ~sync_coordinator_active']_vars

(* Every request is answered, although two of them stop the event loop to   *)
(* wait for a thread and the coroutines retry: unless a call of the driver  *)
(* waits for a heartbeat that has ended or is blocked, on the loop's thread *)
(* (hung, and nothing is answered any more) or on the thread of the         *)
(* request's own search (stuck).  See DisablesReturn.                       *)
LidarRequestsReturn ==
  \A r \in Requests : ~Idle(r) ~> (Idle(r) \/ hung \/ req[r].st = "stuck")

(* Every capture thread of a sensor whose stream stays off ends.            *)
CapturesEnd ==
  \A s \in Sensors :
    <>[](s \notin stream_active) => <>[](\A k \in Slots : capture[s][k] = "done")

-----------------------------------------------------------------------------
(* What two docstrings promise and the code does not keep.                  *)

(* "Enable berthing mode - ENSURES hardware actually starts": an enable that *)
(* no other client disturbed has every sensor streaming when it is answered. *)
Enables(r) == req[r].op = "enable" /\ req'[r].op = "none"
EnableStarts ==
  [][\A r \in Requests : Enables(r) /\ req[r].alone => req[r].ids \subseteq stream_active]_vars

(* "Disable berthing mode - ENSURES hardware actually stops even with network *)
(* issues": every disable comes to its end.                                 *)
DisablesReturn == \A r \in Requests : req[r].op = "disable" ~> req[r].op # "disable"

=============================================================================
