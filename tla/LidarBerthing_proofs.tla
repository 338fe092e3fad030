------------------------ MODULE LidarBerthing_proofs -------------------------
(***************************************************************************)
(* Theorems about LidarBerthing: its types, the threads behind the flags   *)
(* of streams and coordinator, that no disable silences the sensors of     *)
(* another berth, and what a disable that nobody disturbs leaves behind.   *)
(***************************************************************************)
EXTENDS LidarBerthing, TLAPS

-----------------------------------------------------------------------------
(* A request at each await belongs to its operation and has stored what the *)
(* rest of its handler uses.                                                *)
Fits(q) ==
  /\ q \in Request
  /\ q.st = "idle" => q.op = "none"
  /\ q.st \in {"discover", "gather", "settle"} => q.op = "enable"
  /\ q.st \in {"join_coordinator", "spin_down", "stop_stream", "join_capture"}
       => q.op = "disable"
  /\ q.st \in {"search", "register", "stuck"} => q.op = "auto"
  /\ q.st = "register" => q.cur \in Sensors

Staged == \A r \in Requests : Fits(req[r])

(* The coordinator's flag stays down while a request joins its thread.      *)
JoinsUnset ==
  \A r \in Requests : req[r].st = "join_coordinator" => ~sync_coordinator_active

LidarInv == TypeOK /\ Staged /\ JoinsUnset

-----------------------------------------------------------------------------
(* Types of the values that the actions store.                              *)

LEMMA NoRequestType == NoRequest \in Request
BY LidarAssumption DEF NoRequest, Request, NoSensor

LEMMA NoSubType == NoSub \in Sub
BY DEF NoSub, Sub

(* A chosen free slot is one.                                               *)
LEMMA AnyOfType == ASSUME NEW S, S # {} PROVE AnyOf(S) \in S
BY DEF AnyOf

(* The steps in which something fails or hangs.                             *)
LEMMA HangsEffect ==
  ASSUME NEW s \in Sensors, Hangs(s)
  PROVE  /\ UNCHANGED <<capture, stream_threads, sub>>
         /\ UNCHANGED modeVars /\ UNCHANGED syncVars
         /\ req' = req \/ req' = Overlapped
         /\ UNCHANGED <<sensors, stream_active>> \/ Connected(s)
BY DEF Hangs, RequestHangs, RouteHangs, CallHangs, ConnectHangs

LEMMA DisableRaisesEffect ==
  ASSUME NEW r \in Requests, NEW ids \in Groups, DisableRaises(r, ids)
  PROVE  /\ UNCHANGED streamVars /\ UNCHANGED modeVars
         /\ UNCHANGED <<sync_coordinator_thread, coordinator, sub>>
         /\ sync_coordinator_active' = FALSE
         /\ req' = Overlapped /\ Idle(r) /\ Unstarted
BY DEF DisableRaises

LEMMA StartRaisesEffect ==
  ASSUME NEW r \in Requests, StartRaises(r)
  PROVE  /\ UNCHANGED streamVars
         /\ berthing_mode_sensors' = {} /\ berthing_mode_active' = FALSE /\ told' = {}
         /\ sync_coordinator_active' = FALSE
         /\ \E c \in Coordinators :
              /\ sync_coordinator_thread' = c
              /\ coordinator' = [coordinator EXCEPT ![c] = "unstarted"]
         /\ req[r].st = "gather" /\ ~LoopBlocked
         /\ req' = [req EXCEPT ![r] = NoRequest]
         /\ sub' = [sub EXCEPT ![r] = [s \in Sensors |-> NoSub]]
<1>1. CoordinatorRefused
  BY DEF StartRaises
<1>2. AnyOf(FreeCoordinators) \in Coordinators
  BY <1>1 DEF CoordinatorRefused, FreeCoordinators, AnyOf
<1> QED  BY <1>1, <1>2 DEF StartRaises, CoordinatorRefused, InLoop, Answer, SetReq

LEMMA AutoHangsEffect ==
  ASSUME NEW r \in Requests, AutoHangs(r)
  PROVE  /\ req[r].st = "search" /\ SetReq(r, [req[r] EXCEPT !.st = "stuck"])
         /\ UNCHANGED streamVars /\ UNCHANGED modeVars /\ UNCHANGED syncVars /\ UNCHANGED sub
BY DEF AutoHangs

(* What a request looks like once others know that they overlap it.         *)
LEMMA OverlappedType ==
  ASSUME RequestTypeOK
  PROVE  /\ Overlapped \in [Requests -> Request]
         /\ \A r \in Requests : /\ Overlapped[r].st = req[r].st
                                /\ Overlapped[r].op = req[r].op
                                /\ Overlapped[r].ids = req[r].ids
                                /\ Overlapped[r].cur = req[r].cur
<1>1. ASSUME NEW r \in Requests
      PROVE  /\ Overlapped[r] \in Request
             /\ Overlapped[r].st = req[r].st /\ Overlapped[r].op = req[r].op
             /\ Overlapped[r].ids = req[r].ids /\ Overlapped[r].cur = req[r].cur
  <2>1. req[r] \in Request
    BY DEF RequestTypeOK
  <2>2. Overlapped[r] = IF Idle(r) THEN req[r] ELSE [req[r] EXCEPT !.alone = FALSE]
    BY DEF Overlapped
  <2>3. CASE Idle(r)
    BY <2>1, <2>2, <2>3
  <2>4. CASE ~Idle(r)
    <3> DEFINE q == [req[r] EXCEPT !.alone = FALSE]
    <3>1. /\ q \in Request /\ q.st = req[r].st /\ q.op = req[r].op
          /\ q.ids = req[r].ids /\ q.cur = req[r].cur
      BY <2>1 DEF Request
    <3>2. Overlapped[r] = q
      BY <2>2, <2>4
    <3> HIDE DEF q
    <3> QED  BY <3>1, <3>2
  <2> QED  BY <2>3, <2>4
<1>2. Overlapped = [r \in Requests |-> Overlapped[r]]
  BY DEF Overlapped
<1> QED  BY <1>1, <1>2

-----------------------------------------------------------------------------
(* Requests.                                                                *)

(* A step writes to one request at most, apart from noting overlaps.        *)
Wrote(r, q) ==
  \/ req' = [req EXCEPT ![r] = q]
  \/ req' = [Overlapped EXCEPT ![r] = q]

LEMMA NoRequestFits == Fits(NoRequest)
BY NoRequestType DEF Fits, NoRequest

LEMMA OverlappedFits ==
  ASSUME LidarInv, NEW r \in Requests
  PROVE  Fits(Overlapped[r])
BY OverlappedType DEF LidarInv, TypeOK, Staged, Fits

LEMMA WroteFits ==
  ASSUME LidarInv, NEW r \in Requests, NEW q, Fits(q), Wrote(r, q)
  PROVE  RequestTypeOK' /\ Staged'
<1>1. req \in [Requests -> Request] /\ Overlapped \in [Requests -> Request]
  BY OverlappedType DEF LidarInv, TypeOK, RequestTypeOK
<1>2. q \in Request
  BY DEF Fits
<1>3. req' \in [Requests -> Request]
  BY <1>1, <1>2 DEF Wrote
<1>4. \A t \in Requests : req'[t] \in {req[t], Overlapped[t], q}
  BY <1>1 DEF Wrote
<1>5. \A t \in Requests : Fits(req[t]) /\ Fits(Overlapped[t])
  BY OverlappedFits DEF LidarInv, Staged
<1>6. \A t \in Requests : Fits(req'[t])
  BY <1>4, <1>5
<1> QED  BY <1>3, <1>6 DEF RequestTypeOK, Staged

(* Going on with the rest of a disable leaves a request that fits.          *)
LEMMA DisableRestFits ==
  ASSUME LidarInv, NEW reqs, NEW r \in Requests, NEW q \in Request, q.op = "disable",
         NEW left \in SUBSET Sensors, NEW connected \in SUBSET Sensors, NEW flag \in BOOLEAN,
         DisableRest(reqs, r, q, left, connected, flag)
  PROVE  /\ \E p : req' = [reqs EXCEPT ![r] = p] /\ Fits(p) /\ p.st \in {"idle", "spin_down"}
         /\ ModeTypeOK'
         /\ sync_coordinator_active' \in BOOLEAN
         /\ sync_coordinator_active' => flag
<1>1. CASE /\ left \cap connected = {}
           /\ req' = [reqs EXCEPT ![r] = NoRequest]
           /\ ForceReset(q.ids, flag)
  <2>1. /\ berthing_mode_active' \in BOOLEAN
        /\ sync_coordinator_active' \in BOOLEAN
        /\ sync_coordinator_active' => flag
    BY <1>1, Zenon DEF ForceReset
  <2>2. ModeTypeOK'
    BY <1>1, <2>1 DEF ForceReset, LidarInv, TypeOK, ModeTypeOK
  <2>3. NoRequest.st = "idle"
    BY DEF NoRequest
  <2> QED  BY <1>1, <2>1, <2>2, <2>3, NoRequestFits
<1>2. ASSUME NEW s \in left \cap connected, NEW skipped \in SUBSET (left \ connected),
             req' = [reqs EXCEPT ![r] =
                       [q EXCEPT !.st = "spin_down", !.cur = s, !.todo = left \ (skipped \cup {s}),
                                 !.was_streaming = s \in stream_active]],
             sync_coordinator_active' = flag, UNCHANGED modeVars
      PROVE  /\ \E p : req' = [reqs EXCEPT ![r] = p] /\ Fits(p) /\ p.st \in {"idle", "spin_down"}
             /\ ModeTypeOK'
             /\ sync_coordinator_active' \in BOOLEAN
             /\ sync_coordinator_active' => flag
  <2> DEFINE p == [q EXCEPT !.st = "spin_down", !.cur = s, !.todo = left \ (skipped \cup {s}),
                            !.was_streaming = s \in stream_active]
  <2>1. (s \in stream_active) \in BOOLEAN
    OBVIOUS
  <2>2. p \in Request /\ p.st = "spin_down" /\ p.op = "disable"
    BY <2>1 DEF Request
  <2>3. Fits(p)
    BY <2>2 DEF Fits
  <2>4. ModeTypeOK'
    BY <1>2 DEF modeVars, LidarInv, TypeOK, ModeTypeOK
  <2>5. sync_coordinator_active' \in BOOLEAN /\ (sync_coordinator_active' => flag)
    BY <1>2, Zenon
  <2>6. req' = [reqs EXCEPT ![r] = p]
    BY <1>2
  <2> HIDE DEF p
  <2> QED  BY <2>2, <2>3, <2>4, <2>5, <2>6
<1> QED  BY <1>1, <1>2, Zenon DEF DisableRest

(* Every step of the loop that writes to a request leaves one that fits.    *)
LEMMA RequestsFit ==
  ASSUME LidarInv, Next
  PROVE  RequestTypeOK' /\ Staged'
<1> USE DEF SetReq, Answer, Accept, Wrote
<1>t. \A r \in Requests : Fits(req[r]) /\ req[r] \in Request
  BY DEF LidarInv, Staged, Fits
<1>s. sensors \in SUBSET Sensors /\ berthing_mode_sensors \in SUBSET Sensors
      /\ sync_coordinator_active \in BOOLEAN
  BY DEF LidarInv, TypeOK, StreamTypeOK, ModeTypeOK, SyncTypeOK
<1>u. Quiet \in BOOLEAN
  BY DEF Quiet, Idle
<1>1. ASSUME NEW r \in Requests, NEW ids \in Groups, Enable(r, ids)
      PROVE  \E q : Wrote(r, q) /\ Fits(q)
  <2> DEFINE q == [[NoRequest EXCEPT !.op = "enable", !.st = "discover", !.ids = ids]
                     EXCEPT !.alone = Quiet]
  <2>1. ids \in SUBSET Sensors
    BY LidarAssumption
  <2>2. q \in Request /\ q.st = "discover" /\ q.op = "enable"
    BY <2>1, <1>u, NoRequestType DEF Request, NoRequest
  <2>3. Wrote(r, q)
    BY <1>1 DEF Enable
  <2> QED  BY <2>2, <2>3 DEF Fits
<1>2. ASSUME NEW r \in Requests, AutoConnect(r)
      PROVE  \E q : Wrote(r, q) /\ Fits(q)
  <2> DEFINE q == [[NoRequest EXCEPT !.op = "auto", !.st = "search", !.todo = Sensors]
                     EXCEPT !.alone = Quiet]
  <2>2. q \in Request /\ q.st = "search" /\ q.op = "auto"
    BY <1>u, NoRequestType DEF Request, NoRequest
  <2>3. Wrote(r, q)
    BY <1>2 DEF AutoConnect
  <2> QED  BY <2>2, <2>3 DEF Fits
<1>3. ASSUME NEW r \in Requests, NEW ids \in Groups, Disable(r, ids)
      PROVE  \E q : Wrote(r, q) /\ Fits(q)
  <2> DEFINE actual == ids \cap berthing_mode_sensors
  <2> DEFINE last == berthing_mode_sensors \ actual = {}
  <2> DEFINE q == [NoRequest EXCEPT !.op = "disable", !.ids = actual, !.alone = Quiet]
  <2> DEFINE j == [q EXCEPT !.st = "join_coordinator"]
  <2>1. actual \in SUBSET Sensors
    BY <1>s
  <2>2. j \in Request /\ j.st = "join_coordinator" /\ j.op = "disable"
    BY <2>1, <1>u, NoRequestType DEF Request, NoRequest
  <2>3. q \in Request /\ q.st = "idle" /\ q.op = "disable"
    BY <2>1, <1>u, NoRequestType DEF Request, NoRequest
  <2>4. (~last /\ sync_coordinator_active) \in BOOLEAN
    BY Zenon
  <2>5. CASE last /\ sync_coordinator_thread # NoThread
    <3>1. Wrote(r, j)
      BY <1>3, <2>5 DEF Disable
    <3> QED  BY <2>2, <3>1 DEF Fits
  <2>6. CASE ~(last /\ sync_coordinator_thread # NoThread)
    <3>1. DisableRest(Overlapped, r, q, actual, sensors, ~last /\ sync_coordinator_active)
      BY <1>3, <2>6 DEF Disable
    <3> HIDE DEF q, last, actual
    <3>2. \E p : req' = [Overlapped EXCEPT ![r] = p] /\ Fits(p)
      BY <2>1, <2>3, <2>4, <3>1, <1>s, DisableRestFits
    <3> QED  BY <3>2
  <2> QED  BY <2>5, <2>6
<1>4. ASSUME NEW r \in Requests, Discovered(r) \/ Gathered(r) \/ StartRaises(r) \/ Settled(r)
      PROVE  \E q : Wrote(r, q) /\ Fits(q)
  <2>1. req[r].op = "enable"
    BY <1>4, <1>t DEF Discovered, Gathered, StartRaises, Settled, InLoop, Fits
  <2>2. CASE /\ req[r].st = "discover" /\ req[r].tries + 1 < MaxDiscoveries
             /\ SetReq(r, [req[r] EXCEPT !.tries = @ + 1])
    <3> DEFINE q == [req[r] EXCEPT !.tries = @ + 1]
    <3>1. q \in Request /\ q.st = "discover" /\ q.op = "enable"
      BY <1>t, <2>1, <2>2, LidarAssumption DEF Request
    <3> QED  BY <2>2, <3>1 DEF Fits
  <2>3. ASSUME NEW net,
               SetReq(r, [req[r] EXCEPT !.st = "gather", !.found = net \cap req[r].ids, !.tries = 0])
        PROVE  \E q : Wrote(r, q) /\ Fits(q)
    <3> DEFINE q == [req[r] EXCEPT !.st = "gather", !.found = net \cap req[r].ids, !.tries = 0]
    <3>0. net \cap req[r].ids \in SUBSET Sensors /\ 0 \in 0..(MaxDiscoveries - 1)
      BY <1>t, LidarAssumption DEF Request
    <3>1. q \in Request /\ q.st = "gather" /\ q.op = "enable"
      BY <1>t, <2>1, <3>0 DEF Request
    <3> QED  BY <2>3, <3>1 DEF Fits
  <2>4. ASSUME NEW streaming \in SUBSET req[r].ids,
               SetReq(r, [req[r] EXCEPT !.st = "settle", !.ids = streaming])
        PROVE  \E q : Wrote(r, q) /\ Fits(q)
    <3> DEFINE q == [req[r] EXCEPT !.st = "settle", !.ids = streaming]
    <3>1. q \in Request /\ q.st = "settle" /\ q.op = "enable"
      BY <1>t, <2>1 DEF Request
    <3> QED  BY <2>4, <3>1 DEF Fits
  <2>5. CASE Answer(r)
    BY <2>5, NoRequestFits
  <2>6. CASE Discovered(r)
    BY <2>2, <2>3, <2>6 DEF Discovered, InLoop
  <2>7. CASE Gathered(r)
    <3>1. {s \in req[r].ids : sub[r][s].st = "streaming"} \in SUBSET req[r].ids
      OBVIOUS
    <3> QED  BY <2>4, <2>5, <2>7, <3>1 DEF Gathered
  <2> QED  BY <1>4, <2>5, <2>6, <2>7 DEF Settled, StartRaises
<1>5. ASSUME NEW r \in Requests, CoordinatorJoined(r)
      PROVE  \E q : Wrote(r, q) /\ Fits(q)
  <2>1. req[r].op = "disable" /\ req[r].ids \in SUBSET Sensors
    BY <1>5, <1>t DEF CoordinatorJoined, Fits, Request
  <2> QED  BY <1>5, <1>s, <1>t, <2>1, DisableRestFits DEF CoordinatorJoined
<1>6. ASSUME NEW r \in Requests, req[r].op = "disable", DisconnectsCur(r)
      PROVE  \E q : Wrote(r, q) /\ Fits(q)
  <2>1. req[r].todo \in SUBSET Sensors /\ sensors \ {req[r].cur} \in SUBSET Sensors
    BY <1>s, <1>t DEF Request
  <2> QED  BY <1>6, <1>s, <1>t, <2>1, DisableRestFits DEF DisconnectsCur
<1>7. ASSUME NEW r \in Requests, SpunDown(r) \/ StopsStream(r) \/ CaptureJoined(r)
      PROVE  \E q : Wrote(r, q) /\ Fits(q)
  <2>1. req[r].op = "disable"
    BY <1>7, <1>t DEF SpunDown, StopsStream, CaptureJoined, InLoop, Fits
  <2>2. CASE DisconnectsCur(r)
    BY <1>6, <2>1, <2>2
  <2>3. ASSUME NEW st \in {"stop_stream", "join_capture"}, SetReq(r, [req[r] EXCEPT !.st = st])
        PROVE  \E q : Wrote(r, q) /\ Fits(q)
    <3> DEFINE q == [req[r] EXCEPT !.st = st]
    <3>1. q \in Request /\ q.st = st /\ q.op = "disable"
      BY <1>t, <2>1 DEF Request
    <3> QED  BY <2>3, <3>1 DEF Fits
  <2> QED  BY <1>7, <2>2, <2>3 DEF SpunDown, StopsStream, CaptureJoined
<1>8. ASSUME NEW r \in Requests,
             AutoFinds(r) \/ AutoRegisters(r) \/ AutoHangs(r) \/ AutoEnds(r)
      PROVE  \E q : Wrote(r, q) /\ Fits(q)
  <2>1. req[r].op = "auto"
    BY <1>8, <1>t DEF AutoFinds, AutoRegisters, AutoHangs, AutoEnds, InLoop, Fits
  <2>2. ASSUME NEW s \in req[r].todo,
               SetReq(r, [req[r] EXCEPT !.st = "register", !.cur = s, !.todo = @ \ {s}])
        PROVE  \E q : Wrote(r, q) /\ Fits(q)
    <3> DEFINE q == [req[r] EXCEPT !.st = "register", !.cur = s, !.todo = @ \ {s}]
    <3>1. q \in Request /\ q.st = "register" /\ q.op = "auto" /\ q.cur = s /\ s \in Sensors
      BY <1>t, <2>1 DEF Request
    <3> QED  BY <2>2, <3>1 DEF Fits
  <2>3. CASE SetReq(r, [req[r] EXCEPT !.st = "search", !.cur = NoSensor])
    <3> DEFINE q == [req[r] EXCEPT !.st = "search", !.cur = NoSensor]
    <3>1. q \in Request /\ q.st = "search" /\ q.op = "auto"
      BY <1>t, <2>1 DEF Request
    <3> QED  BY <2>3, <3>1 DEF Fits
  <2>4. CASE Answer(r)
    BY <2>4, NoRequestFits
  <2>5. CASE SetReq(r, [req[r] EXCEPT !.st = "stuck"])
    <3> DEFINE q == [req[r] EXCEPT !.st = "stuck"]
    <3>1. q \in Request /\ q.st = "stuck" /\ q.op = "auto"
      BY <1>t, <2>1 DEF Request
    <3> QED  BY <2>5, <3>1 DEF Fits
  <2> QED  BY <1>8, <2>2, <2>3, <2>4, <2>5 DEF AutoFinds, AutoRegisters, AutoHangs, AutoEnds
<1>9. ASSUME UNCHANGED req \/ req' = Overlapped
      PROVE  RequestTypeOK' /\ Staged'
  <2>1. CASE UNCHANGED req
    BY <2>1 DEF LidarInv, TypeOK, RequestTypeOK, Staged
  <2>2. CASE req' = Overlapped
    BY <2>2, OverlappedType, OverlappedFits DEF LidarInv, TypeOK, RequestTypeOK, Staged
  <2> QED  BY <1>9, <2>1, <2>2
<1>10. ASSUME NEW r \in Requests, NEW s \in Sensors, SubStep(r, s)
       PROVE  UNCHANGED req
  BY <1>10 DEF SubStep, FindsConnected, NotDiscovered, Connects, ConnectFails, Restarts, SpunUp
<1>11. ASSUME NEW s \in Sensors, ConnectRoute(s) \/ DisconnectRoute(s) \/ StreamRoute(s)
       PROVE  req' = Overlapped
  BY <1>11 DEF ConnectRoute, DisconnectRoute, StreamRoute, Route
<1>12. ASSUME \/ \E s \in Sensors, k \in Slots : CaptureStep(s, k)
              \/ \E c \in Coordinators : CoordinatorStep(c)
       PROVE  UNCHANGED req
  BY <1>12 DEF CaptureStep, CaptureBegins, CaptureEnds, CoordinatorStep, CoordinatorEnds
<1>13. ASSUME NEW r \in Requests, Asks(r) \/ RequestStep(r)
       PROVE  (\E q : Wrote(r, q) /\ Fits(q)) \/ req' = Overlapped
  <2>1. CASE \E ids \in Groups : DisableRaises(r, ids)
    BY <2>1, DisableRaisesEffect
  <2>2. CASE \/ AutoConnect(r)
             \/ \E ids \in Groups : Enable(r, ids) \/ Disable(r, ids)
    BY <1>1, <1>2, <1>3, <2>2
  <2>3. CASE RequestStep(r)
    BY <1>4, <1>5, <1>7, <1>8, <2>3 DEF RequestStep
  <2> QED  BY <1>13, <2>1, <2>2, <2>3 DEF Asks
<1>14. ASSUME NEW s \in Sensors, Hangs(s)
       PROVE  UNCHANGED req \/ req' = Overlapped
  BY <1>14, HangsEffect
<1> HIDE DEF Wrote
<1> QED  BY <1>9, <1>10, <1>11, <1>12, <1>13, <1>14, WroteFits DEF Next, RouteStep

-----------------------------------------------------------------------------
(* Streams and threads.                                                     *)

LEMMA StartCaptureType ==
  ASSUME StreamTypeOK, NEW s \in Sensors, StartCapture(s)
  PROVE  /\ capture' \in [Sensors -> [Slots -> {"new", "run", "done"}]]
         /\ stream_threads' \in [Sensors -> Slots \cup {NoThread}]
<1> DEFINE free == {k \in Slots : capture[s][k] = "done"}
<1>1. AnyOf(free) \in Slots
  BY AnyOfType DEF StartCapture
<1> QED  BY <1>1 DEF StartCapture, StreamTypeOK

LEMMA StreamsTyped ==
  ASSUME LidarInv, Next
  PROVE  StreamTypeOK'
<1>t. StreamTypeOK
  BY DEF LidarInv, TypeOK
<1>1. ASSUME NEW r \in Requests, NEW s \in Sensors, SubStep(r, s)
      PROVE  StreamTypeOK'
  <2>1. \/ UNCHANGED <<capture, stream_threads>>
        \/ StartCapture(s)
    BY <1>1 DEF SubStep, FindsConnected, NotDiscovered, Connects, ConnectFails, Restarts,
                SpunUp, StreamStarts, StreamFails, streamVars
  <2>2. sensors' \in SUBSET Sensors /\ stream_active' \in SUBSET Sensors
    BY <1>1, <1>t DEF SubStep, FindsConnected, NotDiscovered, Connects, ConnectFails,
                Restarts, SpunUp, StreamStarts, StreamFails, streamVars, StreamTypeOK
  <2> QED  BY <1>t, <2>1, <2>2, StartCaptureType DEF StreamTypeOK
<1>2. ASSUME NEW s \in Sensors, ConnectRoute(s) \/ DisconnectRoute(s) \/ StreamRoute(s)
      PROVE  StreamTypeOK'
  BY <1>2, <1>t, StartCaptureType
     DEF ConnectRoute, DisconnectRoute, StreamRoute, Connected, Disconnected, StreamTypeOK
<1>3. ASSUME NEW r \in Requests, SpunDown(r) \/ StopsStream(r) \/ CaptureJoined(r)
      PROVE  StreamTypeOK'
  <2>1. /\ sensors' \in SUBSET Sensors /\ stream_active' \in SUBSET Sensors
        /\ UNCHANGED capture
    BY <1>3, <1>t DEF SpunDown, StopsStream, CaptureJoined, DisconnectsCur, Disconnected,
                      StreamTypeOK
  <2>2. stream_threads' \in [Sensors -> Slots \cup {NoThread}]
    BY <1>3, <1>t DEF SpunDown, StopsStream, CaptureJoined, StreamTypeOK
  <2> QED  BY <1>t, <2>1, <2>2 DEF StreamTypeOK
<1>4. ASSUME NEW r \in Requests, AutoRegisters(r)
      PROVE  StreamTypeOK'
  BY <1>4, <1>t DEF AutoRegisters, Connected, StreamTypeOK, LidarInv, Staged, Fits
<1>5. ASSUME NEW s \in Sensors, NEW k \in Slots, CaptureStep(s, k)
      PROVE  StreamTypeOK'
  BY <1>5, <1>t DEF CaptureStep, CaptureBegins, CaptureEnds, StreamTypeOK
<1>6. ASSUME UNCHANGED streamVars
      PROVE  StreamTypeOK'
  BY <1>6, <1>t DEF streamVars, StreamTypeOK
<1>7. ASSUME NEW r \in Requests,
             \/ Asks(r) \/ Discovered(r) \/ Gathered(r) \/ StartRaises(r) \/ Settled(r)
             \/ CoordinatorJoined(r) \/ AutoFinds(r) \/ AutoHangs(r) \/ AutoEnds(r)
      PROVE  UNCHANGED streamVars
  BY <1>7 DEF Asks, AutoConnect, Enable, Disable, DisableRaises, Discovered, Gathered, StartRaises,
              Settled, CoordinatorJoined, AutoFinds, AutoHangs, AutoEnds
<1>8. ASSUME NEW r \in Requests, Asks(r) \/ RequestStep(r)
      PROVE  StreamTypeOK'
  <2>1. CASE SpunDown(r) \/ StopsStream(r) \/ CaptureJoined(r)
    BY <1>3, <2>1
  <2>2. CASE AutoRegisters(r)
    BY <1>4, <2>2
  <2>3. CASE \/ Asks(r) \/ Discovered(r) \/ Gathered(r) \/ StartRaises(r) \/ Settled(r)
             \/ CoordinatorJoined(r) \/ AutoFinds(r) \/ AutoHangs(r) \/ AutoEnds(r)
    BY <1>6, <1>7, <2>3
  <2> QED  BY <1>8, <2>1, <2>2, <2>3 DEF RequestStep
<1>9. ASSUME NEW c \in Coordinators, CoordinatorStep(c)
      PROVE  StreamTypeOK'
  <2>1. UNCHANGED streamVars
    BY <1>9 DEF CoordinatorStep, CoordinatorEnds
  <2> QED  BY <1>6, <2>1
<1>10. ASSUME NEW s \in Sensors, Hangs(s)
       PROVE  StreamTypeOK'
  BY <1>10, <1>t, HangsEffect DEF Connected, StreamTypeOK
<1> QED  BY <1>1, <1>2, <1>5, <1>8, <1>9, <1>10 DEF Next, RouteStep

(* Attempts of the coroutines that an enable gathers.                       *)
LEMMA SubsTyped ==
  ASSUME LidarInv, Next
  PROVE  SubTypeOK'
<1> DEFINE Counted(x) ==
      x \in Sub /\ x.tries < (IF x.st = "reconnect" THEN MaxConnects ELSE MaxStarts)
<1>t. sub \in [Requests -> [Sensors -> Sub]]
      /\ \A r \in Requests, s \in Sensors : Counted(sub[r][s])
  BY DEF LidarInv, TypeOK, SubTypeOK
<1>1. ASSUME NEW r \in Requests, NEW s \in Sensors, NEW x, Counted(x),
             sub' = [sub EXCEPT ![r][s] = x]
      PROVE  SubTypeOK'
  <2>1. sub' \in [Requests -> [Sensors -> Sub]]
    BY <1>t, <1>1
  <2>2. \A u \in Requests, v \in Sensors : sub'[u][v] \in {sub[u][v], x}
    BY <1>t, <1>1
  <2>3. \A u \in Requests, v \in Sensors : Counted(sub'[u][v])
    BY <1>t, <1>1, <2>2
  <2> QED  BY <2>1, <2>3 DEF SubTypeOK
<1>2. \A st \in {"idle", "begin", "reconnect", "restart", "spin_up", "streaming", "failed"} :
        Counted([st |-> st, tries |-> 0])
  BY LidarAssumption DEF Sub
<1>3. ASSUME NEW r \in Requests, NEW s \in Sensors,
             \/ \E st \in {"spin_up", "streaming", "failed"} : SetSub(r, s, st)
             \/ TryLater(r, s, MaxStarts, "restart")
             \/ TryLater(r, s, MaxConnects, "reconnect")
             \/ sub' = [sub EXCEPT ![r][s] = IF MaxStarts > 1 THEN [st |-> "restart", tries |-> 1]
                                                            ELSE [st |-> "failed", tries |-> 0]]
      PROVE  SubTypeOK'
  <2>1. CASE \E st \in {"spin_up", "streaming", "failed"} : SetSub(r, s, st)
    BY <1>1, <1>2, <2>1 DEF SetSub
  <2>2. ASSUME NEW limit \in Nat, NEW st \in {"restart", "reconnect"},
               limit = (IF st = "reconnect" THEN MaxConnects ELSE MaxStarts),
               TryLater(r, s, limit, st)
        PROVE  SubTypeOK'
    <3> DEFINE x == IF sub[r][s].tries + 1 < limit THEN [st |-> st, tries |-> sub[r][s].tries + 1]
                                                   ELSE [st |-> "failed", tries |-> 0]
    <3>1. sub' = [sub EXCEPT ![r][s] = x]
      BY <1>t, <2>2 DEF TryLater
    <3>2. Counted(x)
      <4>1. sub[r][s].tries + 1 \in Nat
        BY <1>t DEF Sub
      <4>2. CASE sub[r][s].tries + 1 < limit
        BY <2>2, <4>1, <4>2 DEF Sub
      <4>3. CASE ~(sub[r][s].tries + 1 < limit)
        BY <1>2, <4>3
      <4> QED  BY <4>2, <4>3
    <3> HIDE DEF x, Counted
    <3> QED  BY <1>1, <3>1, <3>2
  <2>3. CASE sub' = [sub EXCEPT ![r][s] = IF MaxStarts > 1 THEN [st |-> "restart", tries |-> 1]
                                                           ELSE [st |-> "failed", tries |-> 0]]
    <3>1. MaxStarts > 1 => Counted([st |-> "restart", tries |-> 1])
      BY LidarAssumption DEF Sub
    <3> HIDE DEF Counted
    <3> QED  BY <1>1, <1>2, <2>3, <3>1
  <2> QED  BY <1>3, <2>1, <2>2, <2>3, LidarAssumption
<1>4. ASSUME NEW r \in Requests, NEW s \in Sensors, SubStep(r, s)
      PROVE  SubTypeOK'
  BY <1>3, <1>4 DEF SubStep, FindsConnected, NotDiscovered, Connects, ConnectFails, Restarts,
                    SpunUp, StreamStarts, StreamFails
<1>5. ASSUME NEW r \in Requests, NEW f \in [Sensors -> Sub], \A s \in Sensors : Counted(f[s]),
             sub' = [sub EXCEPT ![r] = f]
      PROVE  SubTypeOK'
  <2>1. sub' \in [Requests -> [Sensors -> Sub]]
    BY <1>t, <1>5
  <2>2. \A u \in Requests, v \in Sensors : sub'[u][v] \in {sub[u][v], f[v]}
    BY <1>t, <1>5
  <2>3. \A u \in Requests, v \in Sensors : Counted(sub'[u][v])
    BY <1>t, <1>5, <2>2
  <2> QED  BY <2>1, <2>3 DEF SubTypeOK
<1>6. ASSUME UNCHANGED sub
      PROVE  SubTypeOK'
  BY <1>6 DEF LidarInv, TypeOK, SubTypeOK
<1>7. ASSUME NEW r \in Requests, Discovered(r) \/ Gathered(r) \/ StartRaises(r)
      PROVE  SubTypeOK'
  <2> DEFINE f == [s \in Sensors |-> IF s \in req[r].ids THEN [NoSub EXCEPT !.st = "begin"] ELSE NoSub]
  <2> DEFINE g == [s \in Sensors |-> NoSub]
  <2>0. NoSub = [st |-> "idle", tries |-> 0] /\ [NoSub EXCEPT !.st = "begin"] = [st |-> "begin", tries |-> 0]
    BY DEF NoSub
  <2>1. Counted(NoSub) /\ Counted([NoSub EXCEPT !.st = "begin"])
    BY <1>2, <2>0
  <2>2. UNCHANGED sub \/ sub' = [sub EXCEPT ![r] = f] \/ sub' = [sub EXCEPT ![r] = g]
    BY <1>7 DEF Discovered, Gathered, StartRaises
  <2>3. \A s \in Sensors : Counted(f[s]) /\ Counted(g[s])
    BY <2>1
  <2>4. f \in [Sensors -> Sub] /\ g \in [Sensors -> Sub]
    BY <2>1
  <2> HIDE DEF f, g, Counted
  <2> QED  BY <1>5, <1>6, <2>2, <2>3, <2>4
<1>8. ASSUME \/ \E r \in Requests :
                   \/ Asks(r) \/ Settled(r) \/ CoordinatorJoined(r) \/ SpunDown(r)
                   \/ StopsStream(r) \/ CaptureJoined(r)
                   \/ AutoFinds(r) \/ AutoRegisters(r) \/ AutoHangs(r) \/ AutoEnds(r)
             \/ \E s \in Sensors : RouteStep(s) \/ Hangs(s)
             \/ \E s \in Sensors, k \in Slots : CaptureStep(s, k)
             \/ \E c \in Coordinators : CoordinatorStep(c)
      PROVE  UNCHANGED sub
  BY <1>8 DEF Asks, AutoConnect, Enable, Disable, DisableRaises, Settled, CoordinatorJoined,
              SpunDown, StopsStream, CaptureJoined, AutoFinds, AutoRegisters, AutoHangs, AutoEnds,
              RouteStep, ConnectRoute, DisconnectRoute, StreamRoute, Route, Hangs, CaptureStep,
              CaptureBegins, CaptureEnds, CoordinatorStep, CoordinatorEnds
<1> QED  BY <1>4, <1>6, <1>7, <1>8 DEF Next, RequestStep

-----------------------------------------------------------------------------
(* Berthing mode and the coordinator.                                       *)

LEMMA ModesTyped ==
  ASSUME LidarInv, Next
  PROVE  ModeTypeOK'
<1>t. ModeTypeOK /\ RequestTypeOK
  BY DEF LidarInv, TypeOK
<1>1. ASSUME UNCHANGED modeVars
      PROVE  ModeTypeOK'
  BY <1>1, <1>t DEF modeVars, ModeTypeOK
<1>2. ASSUME NEW ids, NEW flag, ForceReset(ids, flag)
      PROVE  ModeTypeOK'
  <2>1. berthing_mode_active' \in BOOLEAN
    BY <1>2, Zenon DEF ForceReset
  <2> QED  BY <1>2, <1>t, <2>1 DEF ForceReset, ModeTypeOK
<1>3. ASSUME NEW reqs, NEW r, NEW q, NEW left, NEW connected, NEW flag,
             DisableRest(reqs, r, q, left, connected, flag)
      PROVE  ModeTypeOK'
  BY <1>1, <1>2, <1>3 DEF DisableRest
<1>4. ASSUME NEW r \in Requests, Asks(r)
      PROVE  ModeTypeOK'
  <2>1. CASE AutoConnect(r)
    BY <1>1, <2>1 DEF AutoConnect
  <2>2. ASSUME NEW ids \in Groups, Enable(r, ids)
        PROVE  ModeTypeOK'
    BY <1>t, <2>2, LidarAssumption DEF Enable, ModeTypeOK
  <2>3. ASSUME NEW ids \in Groups, Disable(r, ids)
        PROVE  ModeTypeOK'
    BY <1>1, <1>3, <2>3 DEF Disable
  <2>4. ASSUME NEW ids \in Groups, DisableRaises(r, ids)
        PROVE  ModeTypeOK'
    BY <1>1, <2>4, DisableRaisesEffect
  <2> QED  BY <1>4, <2>1, <2>2, <2>3, <2>4 DEF Asks
<1>5. ASSUME NEW r \in Requests, RequestStep(r)
      PROVE  ModeTypeOK'
  <2>1. CASE Gathered(r)
    BY <1>t, <2>1 DEF Gathered, ModeTypeOK
  <2>2. CASE \/ Discovered(r) \/ Settled(r)
             \/ AutoFinds(r) \/ AutoRegisters(r) \/ AutoHangs(r) \/ AutoEnds(r)
    BY <1>1, <2>2 DEF Discovered, Settled, AutoFinds, AutoRegisters, AutoHangs, AutoEnds
  <2>3. CASE CoordinatorJoined(r) \/ SpunDown(r) \/ StopsStream(r) \/ CaptureJoined(r)
    BY <1>1, <1>3, <2>3
       DEF CoordinatorJoined, SpunDown, StopsStream, CaptureJoined, DisconnectsCur
  <2>4. CASE StartRaises(r)
    BY <2>4, StartRaisesEffect DEF ModeTypeOK
  <2> QED  BY <1>5, <2>1, <2>2, <2>3, <2>4 DEF RequestStep
<1>6. ASSUME NEW r \in Requests, NEW s \in Sensors, SubStep(r, s)
      PROVE  UNCHANGED modeVars
  BY <1>6 DEF SubStep, FindsConnected, NotDiscovered, Connects, ConnectFails, Restarts, SpunUp
<1>7. ASSUME NEW s \in Sensors, ConnectRoute(s) \/ DisconnectRoute(s) \/ StreamRoute(s)
      PROVE  UNCHANGED modeVars
  BY <1>7 DEF ConnectRoute, DisconnectRoute, StreamRoute, Route
<1>8. ASSUME NEW s \in Sensors, NEW k \in Slots, CaptureStep(s, k)
      PROVE  UNCHANGED modeVars
  BY <1>8 DEF CaptureStep, CaptureBegins, CaptureEnds
<1>9. ASSUME NEW c \in Coordinators, CoordinatorStep(c)
      PROVE  UNCHANGED modeVars
  BY <1>9 DEF CoordinatorStep, CoordinatorEnds
<1>10. ASSUME NEW s \in Sensors, Hangs(s)
       PROVE  UNCHANGED modeVars
  BY <1>10, HangsEffect
<1> QED  BY <1>1, <1>4, <1>5, <1>6, <1>7, <1>8, <1>9, <1>10 DEF Next, RouteStep

(* What is known of the coordinator: nobody raises its flag during a join,  *)
(* because the join stops the loop, and its thread ends, or is forgotten,   *)
(* only while the flag is down.                                             *)
SyncInv == SyncTypeOK /\ JoinsUnset /\ CoordinatorBacked

(* Steps that leave the thread alone, lower the flag if anything, and add   *)
(* no request that joins unless the flag is down.                           *)
Lowers ==
  /\ UNCHANGED <<sync_coordinator_thread, coordinator>>
  /\ sync_coordinator_active' \in BOOLEAN
  /\ sync_coordinator_active' => sync_coordinator_active
  /\ \A t \in Requests : req'[t].st = "join_coordinator" =>
        req[t].st = "join_coordinator" \/ ~sync_coordinator_active'

LEMMA LowersSafe ==
  ASSUME SyncInv, Lowers
  PROVE  SyncInv'
<1>1. SyncTypeOK'
  BY DEF SyncInv, SyncTypeOK, Lowers
<1>2. JoinsUnset'
  BY Zenon DEF SyncInv, JoinsUnset, Lowers
<1>3. CoordinatorBacked'
  BY DEF SyncInv, CoordinatorBacked, Lowers
<1> QED  BY <1>1, <1>2, <1>3 DEF SyncInv

LEMMA DisableRestLowers ==
  ASSUME LidarInv, NEW r \in Requests, NEW q \in Request, q.op = "disable",
         NEW left \in SUBSET Sensors, NEW connected \in SUBSET Sensors, NEW flag \in BOOLEAN,
         flag => sync_coordinator_active,
         \/ DisableRest(req, r, q, left, connected, flag)
         \/ DisableRest(Overlapped, r, q, left, connected, flag)
  PROVE  /\ sync_coordinator_active' \in BOOLEAN
         /\ sync_coordinator_active' => sync_coordinator_active
         /\ \A t \in Requests : req'[t].st = "join_coordinator" =>
               req[t].st = "join_coordinator" /\ t # r
<1>1. req \in [Requests -> Request] /\ Overlapped \in [Requests -> Request]
      /\ \A t \in Requests : Overlapped[t].st = req[t].st
  BY OverlappedType DEF LidarInv, TypeOK, RequestTypeOK
<1>2. ASSUME NEW reqs, DisableRest(reqs, r, q, left, connected, flag)
      PROVE  /\ \E p : req' = [reqs EXCEPT ![r] = p] /\ Fits(p) /\ p.st \in {"idle", "spin_down"}
             /\ sync_coordinator_active' \in BOOLEAN
             /\ sync_coordinator_active' => flag
  <2>1. \E p : req' = [reqs EXCEPT ![r] = p] /\ Fits(p) /\ p.st \in {"idle", "spin_down"}
    BY <1>2, DisableRestFits
  <2>2. sync_coordinator_active' \in BOOLEAN /\ (sync_coordinator_active' => flag)
    <3>1. CASE ForceReset(q.ids, flag)
      BY <3>1, Zenon DEF ForceReset
    <3>2. CASE sync_coordinator_active' = flag
      BY <3>2, Zenon
    <3> QED  BY <1>2, <3>1, <3>2, Zenon DEF DisableRest
  <2> QED  BY <2>1, <2>2, Zenon
<1>3. PICK reqs \in {req, Overlapped} :
        \E p : /\ req' = [reqs EXCEPT ![r] = p] /\ p.st \in {"idle", "spin_down"}
               /\ sync_coordinator_active' \in BOOLEAN
               /\ sync_coordinator_active' => flag
  BY <1>2
<1>3a. PICK p : /\ req' = [reqs EXCEPT ![r] = p] /\ p.st \in {"idle", "spin_down"}
                /\ sync_coordinator_active' \in BOOLEAN
                /\ sync_coordinator_active' => flag
  BY <1>3
<1>4. \A t \in Requests : req'[t] = IF t = r THEN p ELSE reqs[t]
  BY <1>1, <1>3, <1>3a
<1> QED  BY <1>1, <1>3, <1>3a, <1>4

LEMMA SyncSafe ==
  ASSUME LidarInv, CoordinatorBacked, Next
  PROVE  SyncInv'
<1>t. /\ SyncInv /\ SyncTypeOK
      /\ req \in [Requests -> Request] /\ Overlapped \in [Requests -> Request]
      /\ \A t \in Requests : Overlapped[t].st = req[t].st
      /\ sensors \in SUBSET Sensors
  BY OverlappedType DEF LidarInv, TypeOK, RequestTypeOK, StreamTypeOK, SyncInv
<1>1. ASSUME UNCHANGED syncVars, req' = req \/ req' = Overlapped
      PROVE  SyncInv'
  <2>1. Lowers
    BY <1>1, <1>t DEF syncVars, Lowers, SyncTypeOK
  <2> QED  BY <1>t, <2>1, LowersSafe
<1>2. ASSUME UNCHANGED syncVars, NEW r \in Requests, NEW q, q.st # "join_coordinator", Wrote(r, q)
      PROVE  SyncInv'
  <2>1. \A t \in Requests : req'[t].st = "join_coordinator" => req[t].st = "join_coordinator"
    BY <1>2, <1>t DEF Wrote
  <2>2. Lowers
    BY <1>2, <1>t, <2>1 DEF syncVars, Lowers, SyncTypeOK
  <2> QED  BY <1>t, <2>2, LowersSafe
<1>3. ASSUME NEW r \in Requests, Asks(r)
      PROVE  SyncInv'
  <2>1. CASE AutoConnect(r)
    <3> DEFINE q == [[NoRequest EXCEPT !.op = "auto", !.st = "search", !.todo = Sensors]
                       EXCEPT !.alone = Quiet]
    <3>1. Wrote(r, q) /\ UNCHANGED syncVars
      BY <2>1 DEF AutoConnect, Accept, Wrote
    <3>2. q.st = "search"
      BY DEF NoRequest
    <3> QED  BY <1>2, <3>1, <3>2
  <2>2. ASSUME NEW ids \in Groups, Enable(r, ids)
        PROVE  SyncInv'
    <3> DEFINE q == [[NoRequest EXCEPT !.op = "enable", !.st = "discover", !.ids = ids]
                       EXCEPT !.alone = Quiet]
    <3>1. Wrote(r, q) /\ UNCHANGED syncVars
      BY <2>2 DEF Enable, Accept, Wrote
    <3>2. q.st = "discover"
      BY DEF NoRequest
    <3> QED  BY <1>2, <3>1, <3>2
  <2>3. ASSUME NEW ids \in Groups, Disable(r, ids)
        PROVE  SyncInv'
    <3> DEFINE actual == ids \cap berthing_mode_sensors
    <3> DEFINE last == berthing_mode_sensors \ actual = {}
    <3> DEFINE q == [NoRequest EXCEPT !.op = "disable", !.ids = actual, !.alone = Quiet]
    <3>1. UNCHANGED <<sync_coordinator_thread, coordinator>>
      BY <2>3 DEF Disable
    <3>2. CASE last /\ sync_coordinator_thread # NoThread
      <4>1. sync_coordinator_active' = FALSE
        BY <2>3, <3>2 DEF Disable
      <4>2. Lowers
        BY <3>1, <4>1 DEF Lowers
      <4> QED  BY <1>t, <4>2, LowersSafe
    <3>3. CASE ~(last /\ sync_coordinator_thread # NoThread)
      <4>1. DisableRest(Overlapped, r, q, actual, sensors, ~last /\ sync_coordinator_active)
        BY <2>3, <3>3 DEF Disable
      <4>2. actual \in SUBSET Sensors /\ Quiet \in BOOLEAN
        BY LidarAssumption DEF Quiet, Idle
      <4>3. q \in Request /\ q.op = "disable"
        BY <4>2, NoRequestType DEF Request, NoRequest
      <4>4. (~last /\ sync_coordinator_active) \in BOOLEAN
        BY Zenon
      <4>5. (~last /\ sync_coordinator_active) => sync_coordinator_active
        OBVIOUS
      <4> HIDE DEF q, last, actual
      <4>6. Lowers
        BY <1>t, <3>1, <4>1, <4>2, <4>3, <4>4, <4>5, DisableRestLowers DEF Lowers
      <4> QED  BY <1>t, <4>6, LowersSafe
    <3> QED  BY <3>2, <3>3
  <2>4. ASSUME NEW ids \in Groups, DisableRaises(r, ids)
        PROVE  SyncInv'
    <3>1. Lowers
      BY <1>t, <2>4, DisableRaisesEffect DEF Lowers
    <3> QED  BY <1>t, <3>1, LowersSafe
  <2> QED  BY <1>3, <2>1, <2>2, <2>3, <2>4 DEF Asks
<1>4. ASSUME NEW r \in Requests, Gathered(r)
      PROVE  SyncInv'
  <2>1. \A t \in Requests : req'[t].st # "join_coordinator"
    <3>1. \A t \in Requests : req[t].st # "join_coordinator"
      BY <1>4 DEF Gathered, InLoop, LoopBlocked, Joining
    <3>2. CASE Answer(r)
      <4>1. NoRequest.st = "idle"
        BY DEF NoRequest
      <4> QED  BY <1>t, <3>1, <3>2, <4>1 DEF Answer, SetReq
    <3>3. ASSUME NEW ids, SetReq(r, [req[r] EXCEPT !.st = "settle", !.ids = ids])
          PROVE  \A t \in Requests : req'[t].st # "join_coordinator"
      <4> DEFINE q == [req[r] EXCEPT !.st = "settle", !.ids = ids]
      <4>1. req[r] \in Request
        BY <1>t
      <4>2. q.st = "settle"
        BY <4>1 DEF Request
      <4>3. req' = [req EXCEPT ![r] = q]
        BY <3>3 DEF SetReq
      <4> HIDE DEF q
      <4> QED  BY <1>t, <3>1, <4>2, <4>3
    <3> QED  BY <1>4, <3>2, <3>3 DEF Gathered
  <2>2. JoinsUnset'
    BY <2>1 DEF JoinsUnset
  <2>3. CASE UNCHANGED syncVars
    BY <1>t, <2>2, <2>3 DEF syncVars, SyncInv, SyncTypeOK, CoordinatorBacked
  <2>4. CASE StartCoordinator /\ ~sync_coordinator_active
    <3>1. /\ AnyOf(FreeCoordinators) \in Coordinators
          /\ sync_coordinator_active' = TRUE
          /\ sync_coordinator_thread' = AnyOf(FreeCoordinators)
          /\ coordinator' = [coordinator EXCEPT ![AnyOf(FreeCoordinators)] = "live"]
      BY <2>4, AnyOfType DEF StartCoordinator, FreeCoordinators
    <3>2. sync_coordinator_thread' # NoThread
      BY <3>1, LidarAssumption DEF NoThread
    <3>3. SyncTypeOK'
      BY <1>t, <3>1 DEF SyncTypeOK
    <3>4. CoordinatorBacked'
      BY <1>t, <3>1, <3>2 DEF SyncTypeOK, CoordinatorBacked
    <3> QED  BY <2>2, <3>3, <3>4 DEF SyncInv
  <2> QED  BY <1>4, <2>3, <2>4 DEF Gathered, StartCoordinator
<1>5. ASSUME NEW r \in Requests, CoordinatorJoined(r)
      PROVE  SyncInv'
  <2>1. req[r] \in Request /\ req[r].op = "disable" /\ ~sync_coordinator_active
    BY <1>5 DEF CoordinatorJoined, LidarInv, Staged, Fits, JoinsUnset
  <2>2. req[r].ids \in SUBSET Sensors
    BY <2>1 DEF Request
  <2>3. ~sync_coordinator_active' /\ sync_coordinator_active' \in BOOLEAN
    BY <1>5, <1>t, <2>1, <2>2, DisableRestLowers DEF CoordinatorJoined, SyncTypeOK
  <2>4. SyncTypeOK'
    BY <1>5, <1>t, <2>3 DEF CoordinatorJoined, SyncTypeOK
  <2> QED  BY <2>3, <2>4 DEF SyncInv, JoinsUnset, CoordinatorBacked
<1>6. ASSUME NEW r \in Requests, SpunDown(r) \/ StopsStream(r) \/ CaptureJoined(r)
      PROVE  SyncInv'
  <2>1. UNCHANGED <<sync_coordinator_thread, coordinator>>
    BY <1>6 DEF SpunDown, StopsStream, CaptureJoined
  <2>2. req[r] \in Request /\ req[r].op = "disable"
    BY <1>6 DEF SpunDown, StopsStream, CaptureJoined, InLoop, LidarInv, Staged, Fits
  <2>3. CASE DisconnectsCur(r)
    <3>1. req[r].todo \in SUBSET Sensors /\ sensors \ {req[r].cur} \in SUBSET Sensors
      BY <1>t, <2>2 DEF Request
    <3>2. Lowers
      BY <1>t, <2>1, <2>2, <2>3, <3>1, DisableRestLowers DEF Lowers, DisconnectsCur, SyncTypeOK
    <3> QED  BY <1>t, <3>2, LowersSafe
  <2>4. ASSUME NEW st \in {"stop_stream", "join_capture"},
               SetReq(r, [req[r] EXCEPT !.st = st]), UNCHANGED sync_coordinator_active
        PROVE  SyncInv'
    <3> DEFINE q == [req[r] EXCEPT !.st = st]
    <3>1. q.st # "join_coordinator" /\ Wrote(r, q)
      BY <2>2, <2>4 DEF Wrote, SetReq, Request
    <3> HIDE DEF q
    <3> QED  BY <1>2, <2>1, <2>4, <3>1 DEF syncVars
  <2> QED  BY <1>6, <2>3, <2>4 DEF SpunDown, StopsStream, CaptureJoined
<1>7. ASSUME NEW r \in Requests,
             \/ Discovered(r) \/ Settled(r)
             \/ AutoFinds(r) \/ AutoRegisters(r) \/ AutoHangs(r) \/ AutoEnds(r)
      PROVE  SyncInv'
  <2>1. UNCHANGED syncVars
    BY <1>7 DEF Discovered, Settled, AutoFinds, AutoRegisters, AutoHangs, AutoEnds
  <2>2. req[r] \in Request /\ NoRequest.st = "idle"
    BY <1>t DEF NoRequest
  <2>3. CASE Answer(r)
    BY <1>2, <2>1, <2>2, <2>3 DEF Answer, SetReq, Wrote
  <2>4. CASE Discovered(r) /\ ~Answer(r)
    <3>1. req[r].st = "discover"
      BY <2>4 DEF Discovered, InLoop
    <3>2. CASE SetReq(r, [req[r] EXCEPT !.tries = @ + 1])
      <4> DEFINE q == [req[r] EXCEPT !.tries = @ + 1]
      <4>1. q.st = "discover" /\ Wrote(r, q)
        BY <2>2, <3>1, <3>2 DEF Request, SetReq, Wrote
      <4> QED  BY <1>2, <2>1, <4>1
    <3>3. ASSUME NEW net,
                 SetReq(r, [req[r] EXCEPT !.st = "gather", !.found = net \cap req[r].ids, !.tries = 0])
          PROVE  SyncInv'
      <4> DEFINE q == [req[r] EXCEPT !.st = "gather", !.found = net \cap req[r].ids, !.tries = 0]
      <4>1. q.st = "gather" /\ Wrote(r, q)
        BY <2>2, <3>3 DEF Request, SetReq, Wrote
      <4> QED  BY <1>2, <2>1, <4>1
    <3> QED  BY <2>4, <3>2, <3>3 DEF Discovered
  <2>5. CASE AutoFinds(r)
    <3>1. PICK s : SetReq(r, [req[r] EXCEPT !.st = "register", !.cur = s, !.todo = @ \ {s}])
      BY <2>5 DEF AutoFinds
    <3> DEFINE q == [req[r] EXCEPT !.st = "register", !.cur = s, !.todo = @ \ {s}]
    <3>2. q.st = "register" /\ Wrote(r, q)
      BY <2>2, <3>1 DEF Request, SetReq, Wrote
    <3> QED  BY <1>2, <2>1, <3>2
  <2>6. CASE AutoRegisters(r)
    <3> DEFINE q == [req[r] EXCEPT !.st = "search", !.cur = NoSensor]
    <3>1. q.st = "search" /\ Wrote(r, q)
      BY <2>2, <2>6 DEF AutoRegisters, Request, SetReq, Wrote
    <3> QED  BY <1>2, <2>1, <3>1
  <2>7. CASE AutoHangs(r)
    <3> DEFINE q == [req[r] EXCEPT !.st = "stuck"]
    <3>1. q.st = "stuck" /\ Wrote(r, q)
      BY <2>2, <2>7 DEF AutoHangs, Request, SetReq, Wrote
    <3> QED  BY <1>2, <2>1, <3>1
  <2> QED  BY <1>7, <2>3, <2>4, <2>5, <2>6, <2>7 DEF Settled, AutoEnds
<1>8. ASSUME NEW c \in Coordinators, CoordinatorStep(c)
      PROVE  SyncInv'
  BY <1>8, <1>t DEF CoordinatorStep, CoordinatorEnds, SyncInv, SyncTypeOK, JoinsUnset, CoordinatorBacked
<1>9. ASSUME NEW r \in Requests, NEW s \in Sensors, SubStep(r, s)
      PROVE  UNCHANGED syncVars /\ UNCHANGED req
  BY <1>9 DEF SubStep, FindsConnected, NotDiscovered, Connects, ConnectFails, Restarts, SpunUp
<1>10. ASSUME NEW s \in Sensors, ConnectRoute(s) \/ DisconnectRoute(s) \/ StreamRoute(s)
       PROVE  UNCHANGED syncVars /\ req' = Overlapped
  BY <1>10 DEF ConnectRoute, DisconnectRoute, StreamRoute, Route
<1>11. ASSUME NEW s \in Sensors, NEW k \in Slots, CaptureStep(s, k)
       PROVE  UNCHANGED syncVars /\ UNCHANGED req
  BY <1>11 DEF CaptureStep, CaptureBegins, CaptureEnds
<1>12. ASSUME NEW r \in Requests, RequestStep(r)
       PROVE  SyncInv'
  <2>1. CASE StartRaises(r)
    <3>1. PICK c \in Coordinators :
            /\ sync_coordinator_thread' = c
            /\ coordinator' = [coordinator EXCEPT ![c] = "unstarted"]
      BY <2>1, StartRaisesEffect
    <3>2. sync_coordinator_active' = FALSE /\ req' = [req EXCEPT ![r] = NoRequest] /\ ~LoopBlocked
      BY <2>1, StartRaisesEffect
    <3>3. SyncTypeOK'
      BY <1>t, <3>1, <3>2 DEF SyncTypeOK
    <3> QED  BY <3>2, <3>3 DEF SyncInv, JoinsUnset, CoordinatorBacked
  <2> QED  BY <1>4, <1>5, <1>6, <1>7, <1>12, <2>1 DEF RequestStep
<1>13. ASSUME NEW s \in Sensors, Hangs(s)
       PROVE  SyncInv'
  BY <1>1, <1>13, HangsEffect
<1> QED  BY <1>1, <1>3, <1>8, <1>9, <1>10, <1>11, <1>12, <1>13 DEF Next, RouteStep

-----------------------------------------------------------------------------
(* Streams are backed by threads.                                           *)

Captured(s) == \E k \in Slots : capture[s][k] \in {"new", "run"}

(* A started stream has a thread, and no other stream loses one.            *)
LEMMA StartCaptureBacks ==
  ASSUME StreamTypeOK, NEW s \in Sensors, StartCapture(s)
  PROVE  Captured(s)' /\ \A v \in Sensors : Captured(v) => Captured(v)'
<1> DEFINE free == {k \in Slots : capture[s][k] = "done"}
<1>1. /\ AnyOf(free) \in free
      /\ capture' = [capture EXCEPT ![s][AnyOf(free)] = "new"]
  BY AnyOfType DEF StartCapture
<1>2. PICK k \in Slots : capture[s][k] = "done" /\ capture' = [capture EXCEPT ![s][k] = "new"]
  BY <1>1
<1>3. \A v \in Sensors, i \in Slots : capture'[v][i] = IF v = s /\ i = k THEN "new" ELSE capture[v][i]
  BY <1>2 DEF StreamTypeOK
<1> QED  BY <1>2, <1>3 DEF Captured

LEMMA StreamsBacked ==
  ASSUME LidarInv, StreamBacked, Next
  PROVE  StreamBacked'
<1>t. /\ StreamTypeOK /\ sensors \in SUBSET Sensors
      /\ \A v \in stream_active : v \in Sensors /\ v \in sensors /\ Captured(v)
  BY DEF LidarInv, TypeOK, StreamTypeOK, StreamBacked, Captured
<1>1. ASSUME UNCHANGED capture, stream_active' \subseteq stream_active,
             stream_active' \subseteq sensors'
      PROVE  StreamBacked'
  BY <1>1 DEF StreamBacked
<1>2. ASSUME NEW s \in Sensors, StartCapture(s), stream_active' = stream_active \cup {s},
             sensors \cup {s} \subseteq sensors'
      PROVE  StreamBacked'
  BY <1>2, <1>t, StartCaptureBacks DEF StreamBacked, Captured
<1>3. ASSUME NEW r \in Requests, NEW s \in Sensors, SubStep(r, s)
      PROVE  StreamBacked'
  <2>1. sensors \subseteq sensors'
    BY <1>3 DEF SubStep, FindsConnected, NotDiscovered, Connects, ConnectFails, Restarts, SpunUp,
                streamVars
  <2>2. CASE StreamStarts(r, s) /\ s \in sensors'
    BY <1>1, <1>2, <1>t, <2>1, <2>2 DEF StreamStarts
  <2>3. CASE UNCHANGED <<stream_active, capture>>
    BY <1>1, <1>t, <2>1, <2>3
  <2> QED  BY <1>3, <2>2, <2>3
              DEF SubStep, FindsConnected, NotDiscovered, Connects, ConnectFails, Restarts, SpunUp,
                  StreamFails, streamVars
<1>4. ASSUME NEW s \in Sensors, ConnectRoute(s) \/ DisconnectRoute(s) \/ StreamRoute(s)
      PROVE  StreamBacked'
  <2>1. CASE ConnectRoute(s) \/ DisconnectRoute(s)
    BY <1>1, <1>t, <2>1 DEF ConnectRoute, DisconnectRoute, Connected, Disconnected
  <2>2. CASE StreamRoute(s)
    BY <1>2, <1>t, <2>2 DEF StreamRoute
  <2> QED  BY <1>4, <2>1, <2>2
<1>5. ASSUME NEW r \in Requests,
             SpunDown(r) \/ StopsStream(r) \/ CaptureJoined(r) \/ AutoRegisters(r)
      PROVE  StreamBacked'
  BY <1>1, <1>5, <1>t DEF SpunDown, StopsStream, CaptureJoined, AutoRegisters, DisconnectsCur,
                          Connected, Disconnected
<1>6. ASSUME NEW s \in Sensors, NEW k \in Slots, CaptureStep(s, k)
      PROVE  StreamBacked'
  <2>1. UNCHANGED <<sensors, stream_active>>
    BY <1>6 DEF CaptureStep, CaptureBegins, CaptureEnds
  <2>2. \A v \in Sensors \ {s} : Captured(v) => Captured(v)'
    BY <1>6, <1>t DEF CaptureStep, CaptureBegins, CaptureEnds, Captured, StreamTypeOK
  <2>3. CASE s \in stream_active
    <3>1. s \in sensors /\ capture' = [capture EXCEPT ![s][k] = "run"]
      BY <1>6, <1>t, <2>3 DEF CaptureStep, CaptureBegins, CaptureEnds
    <3>2. capture'[s][k] = "run"
      BY <1>t, <3>1 DEF StreamTypeOK
    <3> QED  BY <1>t, <2>1, <2>2, <3>2 DEF StreamBacked, Captured
  <2>4. CASE s \notin stream_active
    BY <1>t, <2>1, <2>2, <2>4 DEF StreamBacked, Captured
  <2> QED  BY <2>3, <2>4
<1>7. ASSUME UNCHANGED streamVars
      PROVE  StreamBacked'
  BY <1>1, <1>7, <1>t DEF streamVars
<1>8. ASSUME NEW r \in Requests,
             \/ Asks(r) \/ Discovered(r) \/ Gathered(r) \/ StartRaises(r) \/ Settled(r)
             \/ CoordinatorJoined(r) \/ AutoFinds(r) \/ AutoHangs(r) \/ AutoEnds(r)
      PROVE  UNCHANGED streamVars
  BY <1>8 DEF Asks, AutoConnect, Enable, Disable, DisableRaises, Discovered, Gathered, StartRaises,
              Settled, CoordinatorJoined, AutoFinds, AutoHangs, AutoEnds
<1>9. ASSUME NEW c \in Coordinators, CoordinatorStep(c)
      PROVE  UNCHANGED streamVars
  BY <1>9 DEF CoordinatorStep, CoordinatorEnds
<1>10. ASSUME NEW r \in Requests, Asks(r) \/ RequestStep(r)
       PROVE  StreamBacked'
  <2>1. CASE \/ Asks(r) \/ Discovered(r) \/ Gathered(r) \/ StartRaises(r) \/ Settled(r)
             \/ CoordinatorJoined(r) \/ AutoFinds(r) \/ AutoHangs(r) \/ AutoEnds(r)
    BY <1>7, <1>8, <2>1
  <2> QED  BY <1>5, <1>10, <2>1 DEF RequestStep
<1>11. ASSUME NEW c \in Coordinators, CoordinatorStep(c)
       PROVE  StreamBacked'
  BY <1>7, <1>9, <1>11
<1>12. ASSUME NEW s \in Sensors, Hangs(s)
       PROVE  StreamBacked'
  BY <1>1, <1>12, <1>t, HangsEffect DEF Connected
<1> QED  BY <1>3, <1>4, <1>6, <1>10, <1>11, <1>12 DEF Next, RouteStep

-----------------------------------------------------------------------------
(* Enabled sensors stay synchronised.                                       *)

(* Berthing mode is active as long as a sensor is in it.                    *)
ModeOn == berthing_mode_sensors # {} => berthing_mode_active

Leaving(r, s) == req[r].op = "disable" /\ s \in req[r].ids

EnabledInv == EnabledIsSynced /\ ModeOn

(* Steps that change neither mode nor flag, and end no disable.             *)
LEMMA EnabledKept ==
  ASSUME EnabledInv, UNCHANGED modeVars, UNCHANGED sync_coordinator_active,
         \A r \in Requests, s \in Sensors : Leaving(r, s) => Leaving(r, s)',
         told \subseteq Sensors
  PROVE  EnabledInv'
BY DEF EnabledInv, EnabledIsSynced, ModeOn, modeVars, Leaving

(* The rest of a disable: what it takes from told, or loses the flag for,   *)
(* it names itself, or another disable does.                                *)
LEMMA DisableRestKept ==
  ASSUME LidarInv, EnabledInv, NEW reqs \in [Requests -> Request],
         NEW r \in Requests, NEW q \in Request, q.op = "disable",
         NEW left \in SUBSET Sensors, NEW connected \in SUBSET Sensors, NEW flag \in BOOLEAN,
         DisableRest(reqs, r, q, left, connected, flag),
         \A s \in told : \/ flag
                         \/ s \in q.ids
                         \/ \E t \in Requests \ {r} : reqs[t].op = "disable" /\ s \in reqs[t].ids
  PROVE  EnabledInv'
<1>t. \A s \in told : s \in berthing_mode_sensors /\ berthing_mode_active
  BY DEF EnabledInv, EnabledIsSynced
<1>1. CASE /\ req' = [reqs EXCEPT ![r] = NoRequest]
           /\ ForceReset(q.ids, flag)
  <2>1. \A t \in Requests \ {r} : req'[t] = reqs[t]
    BY <1>1
  <2>2. /\ berthing_mode_sensors' = berthing_mode_sensors \ q.ids
        /\ told' = told \ q.ids
    BY <1>1 DEF ForceReset
  <2>3. berthing_mode_sensors' # {} =>
          /\ sync_coordinator_active' = flag
          /\ berthing_mode_active' = berthing_mode_active
    <3>1. ASSUME berthing_mode_sensors' # {}
          PROVE  /\ sync_coordinator_active' = (TRUE /\ flag)
                 /\ berthing_mode_active' = (TRUE /\ berthing_mode_active)
      BY <1>1, <2>2, <3>1, Zenon DEF ForceReset
    <3>2. flag \in BOOLEAN /\ berthing_mode_active \in BOOLEAN
      BY DEF LidarInv, TypeOK, ModeTypeOK
    <3> QED  BY <3>1, <3>2
  <2>4. ModeOn'
    BY <2>2, <2>3 DEF ModeOn, EnabledInv
  <2>5. EnabledIsSynced'
    BY <1>t, <2>1, <2>2, <2>3 DEF EnabledIsSynced
  <2> QED  BY <2>4, <2>5 DEF EnabledInv
<1>2. ASSUME NEW s \in left \cap connected, NEW skipped \in SUBSET (left \ connected),
             req' = [reqs EXCEPT ![r] =
                       [q EXCEPT !.st = "spin_down", !.cur = s, !.todo = left \ (skipped \cup {s}),
                                 !.was_streaming = s \in stream_active]],
             sync_coordinator_active' = flag, UNCHANGED modeVars
      PROVE  EnabledInv'
  <2> DEFINE p == [q EXCEPT !.st = "spin_down", !.cur = s, !.todo = left \ (skipped \cup {s}),
                            !.was_streaming = s \in stream_active]
  <2>1. p.op = "disable" /\ p.ids = q.ids
    BY DEF Request
  <2>2. req' = [reqs EXCEPT ![r] = p]
    BY <1>2
  <2> HIDE DEF p
  <2>3. req'[r] = p /\ \A t \in Requests \ {r} : req'[t] = reqs[t]
    BY <2>2
  <2>4. EnabledIsSynced'
    BY <1>t, <1>2, <2>1, <2>3 DEF EnabledIsSynced, modeVars
  <2> QED  BY <1>2, <2>4 DEF EnabledInv, ModeOn, modeVars
<1> QED  BY <1>1, <1>2, Zenon DEF DisableRest

LEMMA EnabledStaysSynced ==
  ASSUME LidarInv, CoordinatorBacked, EnabledInv, Next
  PROVE  EnabledInv'
<1>t. /\ req \in [Requests -> Request] /\ Overlapped \in [Requests -> Request]
      /\ \A t \in Requests : Overlapped[t].op = req[t].op /\ Overlapped[t].ids = req[t].ids
      /\ \A t \in Requests : Fits(req[t])
      /\ sensors \in SUBSET Sensors /\ told \subseteq Sensors
      /\ berthing_mode_sensors \in SUBSET Sensors
      /\ sync_coordinator_active \in BOOLEAN
  BY OverlappedType DEF LidarInv, TypeOK, RequestTypeOK, StreamTypeOK, ModeTypeOK, SyncTypeOK,
                        Staged
<1>1. ASSUME UNCHANGED modeVars, UNCHANGED sync_coordinator_active,
             req' = req \/ req' = Overlapped
      PROVE  EnabledInv'
  BY <1>1, <1>t, EnabledKept DEF Leaving
<1>2. ASSUME NEW r \in Requests, req[r].op # "disable", NEW q, Wrote(r, q)
      PROVE  \A t \in Requests, s \in Sensors : Leaving(t, s) => Leaving(t, s)'
  BY <1>2, <1>t DEF Wrote, Leaving
<1>3. ASSUME NEW r \in Requests, NEW ids \in Groups, Enable(r, ids)
      PROVE  EnabledInv'
  <2>1. req[r].op # "disable"
    BY <1>3, <1>t DEF Enable, Idle, Fits
  <2>2. \A t \in Requests, s \in Sensors : Leaving(t, s) => Leaving(t, s)'
    BY <1>2, <1>3, <2>1 DEF Enable, Accept, Wrote
  <2>3. /\ berthing_mode_sensors \subseteq berthing_mode_sensors' /\ berthing_mode_active' = TRUE
        /\ UNCHANGED told /\ UNCHANGED sync_coordinator_active
    BY <1>3 DEF Enable, syncVars
  <2> QED  BY <1>t, <2>2, <2>3 DEF EnabledInv, EnabledIsSynced, ModeOn, Leaving
<1>4. ASSUME NEW r \in Requests, NEW ids \in Groups, Disable(r, ids)
      PROVE  EnabledInv'
  <2> DEFINE actual == ids \cap berthing_mode_sensors
  <2> DEFINE last == berthing_mode_sensors \ actual = {}
  <2> DEFINE q == [NoRequest EXCEPT !.op = "disable", !.ids = actual, !.alone = Quiet]
  <2> DEFINE j == [q EXCEPT !.st = "join_coordinator"]
  <2>1. req[r].op # "disable"
    BY <1>4, <1>t DEF Disable, Idle, Fits
  <2>2. actual \in SUBSET Sensors /\ Quiet \in BOOLEAN
    BY <1>t DEF Quiet, Idle
  <2>3. q \in Request /\ q.op = "disable" /\ q.ids = actual
    BY <2>2, NoRequestType DEF Request, NoRequest
  <2>4. j.op = "disable" /\ j.ids = actual
    BY <2>2 DEF NoRequest
  <2>5. \A s \in told : s \in berthing_mode_sensors /\ berthing_mode_active
    BY DEF EnabledInv, EnabledIsSynced
  <2>6. last => told \subseteq actual
    BY <2>5
  <2>7. CASE last /\ sync_coordinator_thread # NoThread
    <3>1. req' = [Overlapped EXCEPT ![r] = j] /\ UNCHANGED modeVars
      BY <1>4, <2>7 DEF Disable
    <3> HIDE DEF j, q, actual
    <3>2. req'[r].op = "disable" /\ req'[r].ids = actual
      BY <1>t, <2>4, <3>1
    <3>3. EnabledIsSynced'
      BY <2>5, <2>6, <2>7, <3>1, <3>2 DEF EnabledIsSynced, modeVars
    <3> QED  BY <3>1, <3>3 DEF EnabledInv, ModeOn, modeVars
  <2>8. CASE ~(last /\ sync_coordinator_thread # NoThread)
    <3>1. DisableRest(Overlapped, r, q, actual, sensors, ~last /\ sync_coordinator_active)
      BY <1>4, <2>8 DEF Disable
    <3>2. (~last /\ sync_coordinator_active) \in BOOLEAN
      BY Zenon
    <3>3. \A s \in told : \/ sync_coordinator_active
                          \/ \E t \in Requests : req[t].op = "disable" /\ s \in req[t].ids
      BY DEF EnabledInv, EnabledIsSynced
    <3>4. \A s \in told :
            \/ sync_coordinator_active
            \/ \E t \in Requests \ {r} : Overlapped[t].op = "disable" /\ s \in Overlapped[t].ids
      BY <1>t, <2>1, <3>3
    <3> HIDE DEF q, actual, last
    <3>5. \A s \in told :
            \/ ~last /\ sync_coordinator_active
            \/ s \in q.ids
            \/ \E t \in Requests \ {r} : Overlapped[t].op = "disable" /\ s \in Overlapped[t].ids
      BY <2>3, <2>6, <3>4
    <3> QED  BY <1>t, <2>2, <2>3, <3>1, <3>2, <3>5, DisableRestKept
  <2> QED  BY <2>7, <2>8
<1>5. ASSUME NEW r \in Requests, req[r].op = "disable", NEW left \in SUBSET Sensors,
             NEW connected \in SUBSET Sensors,
             DisableRest(req, r, req[r], left, connected, sync_coordinator_active)
      PROVE  EnabledInv'
  <2>1. \A s \in told : \/ sync_coordinator_active
                        \/ s \in req[r].ids
                        \/ \E t \in Requests \ {r} : req[t].op = "disable" /\ s \in req[t].ids
    BY DEF EnabledInv, EnabledIsSynced
  <2> QED  BY <1>5, <1>t, <2>1, DisableRestKept
<1>6. ASSUME NEW r \in Requests,
             CoordinatorJoined(r) \/ SpunDown(r) \/ StopsStream(r) \/ CaptureJoined(r)
      PROVE  EnabledInv'
  <2>1. /\ req[r] \in Request /\ req[r].op = "disable"
        /\ req[r].ids \in SUBSET Sensors /\ req[r].todo \in SUBSET Sensors
    BY <1>6, <1>t DEF CoordinatorJoined, SpunDown, StopsStream, CaptureJoined, InLoop, Fits, Request
  <2>2. CASE CoordinatorJoined(r)
    BY <1>5, <1>t, <2>1, <2>2 DEF CoordinatorJoined
  <2>3. CASE DisconnectsCur(r)
    <3>1. sensors \ {req[r].cur} \in SUBSET Sensors
      BY <1>t
    <3> QED  BY <1>5, <2>1, <2>3, <3>1 DEF DisconnectsCur
  <2>4. ASSUME NEW st \in {"stop_stream", "join_capture"},
               SetReq(r, [req[r] EXCEPT !.st = st]), UNCHANGED modeVars,
               UNCHANGED sync_coordinator_active
        PROVE  EnabledInv'
    <3> DEFINE p == [req[r] EXCEPT !.st = st]
    <3>1. p.op = "disable" /\ p.ids = req[r].ids /\ req' = [req EXCEPT ![r] = p]
      BY <2>1, <2>4 DEF Request, SetReq
    <3> HIDE DEF p
    <3>2. \A t \in Requests, s \in Sensors : Leaving(t, s) => Leaving(t, s)'
      BY <1>t, <3>1 DEF Leaving
    <3> QED  BY <1>t, <2>4, <3>2, EnabledKept
  <2> QED  BY <1>6, <2>2, <2>3, <2>4 DEF SpunDown, StopsStream, CaptureJoined
<1>7. ASSUME NEW r \in Requests, Gathered(r)
      PROVE  EnabledInv'
  <2>1. req[r].op # "disable" /\ \E q : Wrote(r, q)
    BY <1>7, <1>t DEF Gathered, InLoop, Fits, Wrote, Answer, SetReq
  <2>2. \A t \in Requests, s \in Sensors : Leaving(t, s) => Leaving(t, s)'
    BY <1>2, <2>1
  <2>3. CASE UNCHANGED <<syncVars, told>>
    BY <1>7, <1>t, <2>2, <2>3, EnabledKept DEF Gathered, syncVars, modeVars
  <2>4. CASE StartCoordinator /\ told' \subseteq told \cup berthing_mode_sensors
    <3>1. sync_coordinator_active' = TRUE
      BY <1>t, <2>4 DEF StartCoordinator, syncVars
    <3>2. UNCHANGED <<berthing_mode_sensors, berthing_mode_active>>
      BY <1>7 DEF Gathered
    <3> QED  BY <2>4, <3>1, <3>2 DEF EnabledInv, EnabledIsSynced, ModeOn
  <2>5. \/ UNCHANGED <<syncVars, told>>
        \/ StartCoordinator /\ told' \subseteq told \cup berthing_mode_sensors
    BY <1>7 DEF Gathered
  <2> QED  BY <2>3, <2>4, <2>5
<1>8. ASSUME NEW r \in Requests,
             \/ AutoConnect(r) \/ Discovered(r) \/ Settled(r)
             \/ AutoFinds(r) \/ AutoRegisters(r) \/ AutoHangs(r) \/ AutoEnds(r)
      PROVE  EnabledInv'
  <2>1. req[r].op # "disable"
    BY <1>8, <1>t DEF AutoConnect, Discovered, Settled, AutoFinds, AutoRegisters, AutoHangs,
                      AutoEnds, Idle, InLoop, Fits
  <2>2. \E q : Wrote(r, q)
    BY <1>8 DEF AutoConnect, Discovered, Settled, AutoFinds, AutoRegisters, AutoHangs, AutoEnds,
                Accept, SetReq, Answer, Wrote
  <2>3. UNCHANGED modeVars /\ UNCHANGED sync_coordinator_active
    BY <1>8 DEF AutoConnect, Discovered, Settled, AutoFinds, AutoRegisters, AutoHangs, AutoEnds,
                syncVars
  <2> QED  BY <1>2, <1>t, <2>1, <2>2, <2>3, EnabledKept
<1>9. ASSUME NEW r \in Requests, NEW s \in Sensors, SubStep(r, s)
      PROVE  EnabledInv'
  <2>1. UNCHANGED modeVars /\ UNCHANGED syncVars /\ UNCHANGED req
    BY <1>9 DEF SubStep, FindsConnected, NotDiscovered, Connects, ConnectFails, Restarts, SpunUp
  <2> QED  BY <1>1, <2>1 DEF syncVars
<1>10. ASSUME NEW s \in Sensors, ConnectRoute(s) \/ DisconnectRoute(s) \/ StreamRoute(s)
       PROVE  EnabledInv'
  <2>1. UNCHANGED modeVars /\ UNCHANGED syncVars /\ req' = Overlapped
    BY <1>10 DEF ConnectRoute, DisconnectRoute, StreamRoute, Route
  <2> QED  BY <1>1, <2>1 DEF syncVars
<1>11. ASSUME NEW s \in Sensors, NEW k \in Slots, CaptureStep(s, k)
       PROVE  EnabledInv'
  <2>1. UNCHANGED modeVars /\ UNCHANGED syncVars /\ UNCHANGED req
    BY <1>11 DEF CaptureStep, CaptureBegins, CaptureEnds
  <2> QED  BY <1>1, <2>1 DEF syncVars
<1>12. ASSUME NEW c \in Coordinators, CoordinatorStep(c)
       PROVE  EnabledInv'
  <2>1. UNCHANGED modeVars /\ UNCHANGED sync_coordinator_active /\ UNCHANGED req
    BY <1>12 DEF CoordinatorStep, CoordinatorEnds
  <2> QED  BY <1>1, <2>1
<1>13. ASSUME NEW r \in Requests, Asks(r) \/ RequestStep(r)
       PROVE  EnabledInv'
  <2>1. CASE StartRaises(r)
    BY <2>1, StartRaisesEffect DEF EnabledInv, EnabledIsSynced, ModeOn
  <2>2. ASSUME NEW ids \in Groups, DisableRaises(r, ids)
        PROVE  EnabledInv'
    <3>1. ~sync_coordinator_active
      BY <2>2, DisableRaisesEffect DEF CoordinatorBacked, Unstarted
    <3>2. /\ UNCHANGED modeVars /\ UNCHANGED sync_coordinator_active /\ req' = Overlapped
      BY <1>t, <2>2, <3>1, DisableRaisesEffect
    <3> QED  BY <1>1, <3>2
  <2> QED  BY <1>3, <1>4, <1>6, <1>7, <1>8, <1>13, <2>1, <2>2 DEF Asks, RequestStep
<1>14. ASSUME NEW s \in Sensors, Hangs(s)
       PROVE  EnabledInv'
  BY <1>1, <1>14, HangsEffect DEF syncVars
<1> QED  BY <1>9, <1>10, <1>11, <1>12, <1>13, <1>14 DEF Next, RouteStep

-----------------------------------------------------------------------------
(* A disable that nobody disturbs.                                          *)

(* While no other client has asked for anything, no other request runs.     *)
Undisturbed ==
  \A r \in Requests : req[r].alone => ~Idle(r) /\ \A t \in Requests \ {r} : Idle(t)

(* The sensors of a request are enabled only while it gathers the results.  *)
IdleSubs ==
  \A r \in Requests : req[r].st # "gather" => \A s \in Sensors : sub[r][s].st = "idle"

(* The sensors a disable has left behind are not in connected.              *)
Gone(q, connected) ==
  q.alone /\ q.st \in {"spin_down", "stop_stream", "join_capture"}
    => (q.ids \ (q.todo \cup {q.cur})) \cap connected = {}

AloneInv ==
  /\ Undisturbed
  /\ IdleSubs
  /\ \A r \in Requests : Gone(req[r], sensors)

(* What an undisturbed disable of ids leaves behind.                        *)
Delivered(ids) ==
  /\ ids \cap (sensors' \cup berthing_mode_sensors') = {}
  /\ berthing_mode_sensors' = {} => ~sync_coordinator_active'

LEMMA NoRequestGone == ASSUME NEW S PROVE Gone(NoRequest, S)
BY DEF Gone, NoRequest

(* Others know that they are overlapped.                                    *)
LEMMA OverlappedNotAlone ==
  ASSUME RequestTypeOK, Undisturbed, NEW r \in Requests
  PROVE  ~Overlapped[r].alone
<1>1. req[r] \in Request
  BY DEF RequestTypeOK
<1>2. Overlapped[r] = IF Idle(r) THEN req[r] ELSE [req[r] EXCEPT !.alone = FALSE]
  BY DEF Overlapped
<1>3. CASE Idle(r)
  BY <1>2, <1>3 DEF Undisturbed
<1>4. CASE ~Idle(r)
  <2> DEFINE q == [req[r] EXCEPT !.alone = FALSE]
  <2>1. ~q.alone
    BY <1>1 DEF Request
  <2>2. Overlapped[r] = q
    BY <1>2, <1>4
  <2> HIDE DEF q
  <2> QED  BY <2>1, <2>2
<1> QED  BY <1>3, <1>4

(* The rest of a disable either ends with its promise kept or goes on with  *)
(* one more sensor, those before it being disconnected.                     *)
LEMMA DisableRestAlone ==
  ASSUME NEW reqs, NEW r \in Requests, NEW q \in Request,
         NEW left \in SUBSET Sensors, NEW connected \in SUBSET Sensors, NEW flag \in BOOLEAN,
         DisableRest(reqs, r, q, left, connected, flag),
         sensors' = connected,
         q.alone => (q.ids \ left) \cap connected = {}
  PROVE  \E p : /\ req' = [reqs EXCEPT ![r] = p]
                /\ Gone(p, connected)
                /\ p.alone => q.alone /\ p.st = "spin_down"
                /\ p.op = "none" \/ p.op = q.op
                /\ p.st \in {"idle", "spin_down"}
                /\ p.op = "none" /\ q.alone /\ q.op # "none" => Delivered(q.ids)
<1>1. CASE /\ left \cap connected = {}
           /\ req' = [reqs EXCEPT ![r] = NoRequest]
           /\ ForceReset(q.ids, flag)
  <2>1. berthing_mode_sensors' = berthing_mode_sensors \ q.ids
    BY <1>1 DEF ForceReset
  <2>2. berthing_mode_sensors' = {} => ~sync_coordinator_active'
    BY <1>1, <2>1, Zenon DEF ForceReset
  <2>3. q.alone => Delivered(q.ids)
    BY <1>1, <2>1, <2>2 DEF Delivered
  <2>4. NoRequest.op = "none" /\ NoRequest.st = "idle" /\ ~NoRequest.alone
    BY DEF NoRequest
  <2> QED  BY <1>1, <2>3, <2>4, NoRequestGone, Zenon
<1>2. ASSUME NEW s \in left \cap connected, NEW skipped \in SUBSET (left \ connected),
             req' = [reqs EXCEPT ![r] =
                       [q EXCEPT !.st = "spin_down", !.cur = s, !.todo = left \ (skipped \cup {s}),
                                 !.was_streaming = s \in stream_active]]
      PROVE  \E p : /\ req' = [reqs EXCEPT ![r] = p]
                    /\ Gone(p, connected)
                    /\ p.alone => q.alone /\ p.st = "spin_down"
                    /\ p.op = "none" \/ p.op = q.op
                    /\ p.st \in {"idle", "spin_down"}
                    /\ p.op = "none" /\ q.alone /\ q.op # "none" => Delivered(q.ids)
  <2> DEFINE p == [q EXCEPT !.st = "spin_down", !.cur = s, !.todo = left \ (skipped \cup {s}),
                            !.was_streaming = s \in stream_active]
  <2>1. /\ p.st = "spin_down" /\ p.op = q.op /\ p.ids = q.ids /\ p.alone = q.alone
        /\ p.todo = left \ (skipped \cup {s}) /\ p.cur = s
    BY DEF Request
  <2>2. req' = [reqs EXCEPT ![r] = p]
    BY <1>2
  <2> HIDE DEF p
  <2>3. (p.ids \ (p.todo \cup {p.cur})) \subseteq (q.ids \ left) \cup skipped
    BY <2>1
  <2>4. q.alone => (p.ids \ (p.todo \cup {p.cur})) \cap connected = {}
    BY <2>3
  <2>5. Gone(p, connected)
    BY <2>1, <2>4 DEF Gone
  <2> QED  BY <2>1, <2>2, <2>5
<1> QED  BY <1>1, <1>2, Zenon DEF DisableRest

(* A request that comes in, and one that goes on.                           *)
Comes(r, q) ==
  /\ Idle(r)
  /\ req' = [Overlapped EXCEPT ![r] = q]
  /\ q.alone => Quiet /\ q.st # "idle"

GoesOn(r, q) ==
  /\ ~Idle(r)
  /\ req' = [req EXCEPT ![r] = q]
  /\ q.alone => req[r].alone /\ q.st # "idle"
  /\ req[r].op = "disable" /\ q.op = "none" /\ req[r].alone => Delivered(req[r].ids)

Continues(r, q) == (Comes(r, q) \/ GoesOn(r, q)) /\ Gone(q, sensors')

(* Each step of a request continues it.                                     *)
LEMMA AsksContinue ==
  ASSUME LidarInv, AloneInv, NEW r \in Requests, Asks(r)
  PROVE  \E q : Continues(r, q)
<1>t. /\ sensors \in SUBSET Sensors /\ berthing_mode_sensors \in SUBSET Sensors
      /\ sync_coordinator_active \in BOOLEAN
      /\ Quiet \in BOOLEAN
  BY DEF LidarInv, TypeOK, StreamTypeOK, ModeTypeOK, SyncTypeOK, Quiet, Idle
<1>r. ASSUME NEW q \in Request, NEW left \in SUBSET Sensors, NEW flag \in BOOLEAN,
             DisableRest(Overlapped, r, q, left, sensors, flag),
             UNCHANGED sensors, (q.ids \ left) \cap sensors = {}
      PROVE  \E p : /\ req' = [Overlapped EXCEPT ![r] = p]
                    /\ Gone(p, sensors)
                    /\ p.alone => q.alone /\ p.st = "spin_down"
  <2>1. \E p : /\ req' = [Overlapped EXCEPT ![r] = p]
               /\ Gone(p, sensors)
               /\ p.alone => q.alone /\ p.st = "spin_down"
               /\ p.op = "none" \/ p.op = q.op
               /\ p.st \in {"idle", "spin_down"}
               /\ p.op = "none" /\ q.alone /\ q.op # "none" => Delivered(q.ids)
    BY <1>t, <1>r, DisableRestAlone
  <2> QED  BY <2>1
<1>1. ASSUME NEW ids \in Groups, Enable(r, ids)
      PROVE  \E q : Continues(r, q)
  <2> DEFINE q == [[NoRequest EXCEPT !.op = "enable", !.st = "discover", !.ids = ids]
                     EXCEPT !.alone = Quiet]
  <2>1. q.st = "discover" /\ q.alone = Quiet
    BY DEF NoRequest
  <2>2. Idle(r) /\ req' = [Overlapped EXCEPT ![r] = q]
    BY <1>1 DEF Enable, Accept
  <2> HIDE DEF q
  <2> QED  BY <2>1, <2>2 DEF Continues, Comes, Gone
<1>2. CASE AutoConnect(r)
  <2> DEFINE q == [[NoRequest EXCEPT !.op = "auto", !.st = "search", !.todo = Sensors]
                     EXCEPT !.alone = Quiet]
  <2>1. q.st = "search" /\ q.alone = Quiet
    BY DEF NoRequest
  <2>2. Idle(r) /\ req' = [Overlapped EXCEPT ![r] = q]
    BY <1>2 DEF AutoConnect, Accept
  <2> HIDE DEF q
  <2> QED  BY <2>1, <2>2 DEF Continues, Comes, Gone
<1>3. ASSUME NEW ids \in Groups, Disable(r, ids)
      PROVE  \E q : Continues(r, q)
  <2> DEFINE actual == ids \cap berthing_mode_sensors
  <2> DEFINE last == berthing_mode_sensors \ actual = {}
  <2> DEFINE q == [NoRequest EXCEPT !.op = "disable", !.ids = actual, !.alone = Quiet]
  <2> DEFINE j == [q EXCEPT !.st = "join_coordinator"]
  <2>1. actual \in SUBSET Sensors
    BY <1>t
  <2>2. q \in Request /\ q.ids = actual /\ q.alone = Quiet
    BY <2>1, <1>t, NoRequestType DEF Request, NoRequest
  <2>3. j.st = "join_coordinator" /\ j.alone = Quiet
    BY DEF NoRequest
  <2>4. Idle(r) /\ sensors' = sensors
    BY <1>3 DEF Disable, streamVars
  <2>5. CASE last /\ sync_coordinator_thread # NoThread
    <3>1. req' = [Overlapped EXCEPT ![r] = j]
      BY <1>3, <2>5 DEF Disable
    <3> HIDE DEF j, q, actual, last
    <3> QED  BY <2>3, <2>4, <3>1 DEF Continues, Comes, Gone
  <2>6. CASE ~(last /\ sync_coordinator_thread # NoThread)
    <3>1. DisableRest(Overlapped, r, q, actual, sensors, ~last /\ sync_coordinator_active)
      BY <1>3, <2>6 DEF Disable
    <3>2. (~last /\ sync_coordinator_active) \in BOOLEAN
      BY Zenon
    <3> HIDE DEF j, q, actual, last
    <3>3. (q.ids \ actual) \cap sensors = {}
      BY <2>2
    <3>4. \E p : /\ req' = [Overlapped EXCEPT ![r] = p]
                 /\ Gone(p, sensors)
                 /\ p.alone => q.alone /\ p.st = "spin_down"
      BY <1>r, <2>1, <2>2, <2>4, <3>1, <3>2, <3>3
    <3>5. PICK p : /\ req' = [Overlapped EXCEPT ![r] = p]
                   /\ Gone(p, sensors)
                   /\ p.alone => q.alone /\ p.st = "spin_down"
      BY <3>4
    <3> QED  BY <2>2, <2>4, <3>5 DEF Continues, Comes
  <2> QED  BY <2>5, <2>6
<1>4. ASSUME NEW ids \in Groups, DisableRaises(r, ids)
      PROVE  \E q : Continues(r, q)
  <2>1. Idle(r) /\ req' = Overlapped /\ sensors' = sensors
    BY <1>4, DisableRaisesEffect DEF streamVars
  <2>2. ~Overlapped[r].alone
    BY OverlappedNotAlone DEF LidarInv, TypeOK, AloneInv
  <2>3. req' = [Overlapped EXCEPT ![r] = Overlapped[r]]
    BY <2>1 DEF Overlapped
  <2> QED  BY <2>1, <2>2, <2>3 DEF Continues, Comes, Gone
<1> QED  BY <1>1, <1>2, <1>3, <1>4 DEF Asks

LEMMA RequestsContinue ==
  ASSUME LidarInv, AloneInv, NEW r \in Requests, RequestStep(r)
  PROVE  \E q : Continues(r, q)
<1> USE DEF SetReq, Answer, InLoop, Idle
<1>t. /\ sensors \in SUBSET Sensors
      /\ sync_coordinator_active \in BOOLEAN
      /\ req[r] \in Request /\ Fits(req[r]) /\ Gone(req[r], sensors)
  BY DEF LidarInv, TypeOK, StreamTypeOK, SyncTypeOK, Staged, Fits, AloneInv
<1>a. ASSUME NEW q, ~Idle(r), req' = [req EXCEPT ![r] = q], req[r].op # "disable",
             q.alone => req[r].alone /\ q.st \notin {"idle", "spin_down", "stop_stream", "join_capture"}
      PROVE  \E p : Continues(r, p)
  BY <1>a DEF Continues, GoesOn, Gone
<1>b. ASSUME ~Idle(r), Answer(r), req[r].op # "disable"
      PROVE  \E p : Continues(r, p)
  <2>1. ~NoRequest.alone
    BY DEF NoRequest
  <2> QED  BY <1>a, <1>b, <2>1
<1>1. CASE Discovered(r) \/ Gathered(r) \/ StartRaises(r) \/ Settled(r)
  <2>1. req[r].op # "disable" /\ ~Idle(r)
    BY <1>1, <1>t DEF Discovered, Gathered, StartRaises, Settled, Fits
  <2>2. ASSUME req[r].st = "discover", SetReq(r, [req[r] EXCEPT !.tries = @ + 1])
        PROVE  \E p : Continues(r, p)
    <3> DEFINE q == [req[r] EXCEPT !.tries = @ + 1]
    <3>1. q.st = "discover" /\ q.alone = req[r].alone
      BY <1>t, <2>2 DEF Request
    <3> QED  BY <1>a, <2>1, <2>2, <3>1
  <2>3. ASSUME NEW net,
               SetReq(r, [req[r] EXCEPT !.st = "gather", !.found = net \cap req[r].ids, !.tries = 0])
        PROVE  \E p : Continues(r, p)
    <3> DEFINE q == [req[r] EXCEPT !.st = "gather", !.found = net \cap req[r].ids, !.tries = 0]
    <3>1. q.st = "gather" /\ q.alone = req[r].alone
      BY <1>t DEF Request
    <3> QED  BY <1>a, <2>1, <2>3, <3>1
  <2>4. ASSUME NEW streaming,
               SetReq(r, [req[r] EXCEPT !.st = "settle", !.ids = streaming])
        PROVE  \E p : Continues(r, p)
    <3> DEFINE q == [req[r] EXCEPT !.st = "settle", !.ids = streaming]
    <3>1. q.st = "settle" /\ q.alone = req[r].alone
      BY <1>t DEF Request
    <3> QED  BY <1>a, <2>1, <2>4, <3>1
  <2>5. CASE Discovered(r)
    BY <2>2, <2>3, <2>5 DEF Discovered
  <2>6. CASE Gathered(r)
    BY <1>b, <2>1, <2>4, <2>6 DEF Gathered
  <2> QED  BY <1>1, <1>b, <2>1, <2>5, <2>6 DEF Settled, StartRaises
<1>2. CASE AutoFinds(r) \/ AutoRegisters(r) \/ AutoHangs(r) \/ AutoEnds(r)
  <2>1. req[r].op # "disable" /\ ~Idle(r)
    BY <1>2, <1>t DEF AutoFinds, AutoRegisters, AutoHangs, AutoEnds, Fits
  <2>2. ASSUME NEW s, SetReq(r, [req[r] EXCEPT !.st = "register", !.cur = s, !.todo = @ \ {s}])
        PROVE  \E p : Continues(r, p)
    <3> DEFINE q == [req[r] EXCEPT !.st = "register", !.cur = s, !.todo = @ \ {s}]
    <3>1. q.st = "register" /\ q.alone = req[r].alone
      BY <1>t DEF Request
    <3> QED  BY <1>a, <2>1, <2>2, <3>1
  <2>3. CASE SetReq(r, [req[r] EXCEPT !.st = "search", !.cur = NoSensor])
    <3> DEFINE q == [req[r] EXCEPT !.st = "search", !.cur = NoSensor]
    <3>1. q.st = "search" /\ q.alone = req[r].alone
      BY <1>t DEF Request
    <3> QED  BY <1>a, <2>1, <2>3, <3>1
  <2>4. CASE SetReq(r, [req[r] EXCEPT !.st = "stuck"])
    <3> DEFINE q == [req[r] EXCEPT !.st = "stuck"]
    <3>1. q.st = "stuck" /\ q.alone = req[r].alone
      BY <1>t DEF Request
    <3> QED  BY <1>a, <2>1, <2>4, <3>1
  <2> QED  BY <1>2, <1>b, <2>1, <2>2, <2>3, <2>4 DEF AutoFinds, AutoRegisters, AutoHangs, AutoEnds
<1>3. ASSUME req[r].op = "disable", ~Idle(r), NEW left \in SUBSET Sensors,
             NEW connected \in SUBSET Sensors, sensors' = connected,
             DisableRest(req, r, req[r], left, connected, sync_coordinator_active),
             req[r].alone => (req[r].ids \ left) \cap connected = {}
      PROVE  \E p : Continues(r, p)
  <2>1. PICK p : /\ req' = [req EXCEPT ![r] = p]
                 /\ Gone(p, connected)
                 /\ p.alone => req[r].alone /\ p.st = "spin_down"
                 /\ p.op = "none" /\ req[r].alone /\ req[r].op # "none" => Delivered(req[r].ids)
    BY <1>3, <1>t, DisableRestAlone
  <2> QED  BY <1>3, <2>1 DEF Continues, GoesOn
<1>4. CASE CoordinatorJoined(r)
  <2>1. req[r].op = "disable" /\ ~Idle(r) /\ req[r].ids \in SUBSET Sensors
    BY <1>4, <1>t DEF CoordinatorJoined, Fits, Request
  <2>2. /\ DisableRest(req, r, req[r], req[r].ids, sensors, sync_coordinator_active)
        /\ sensors' = sensors
    BY <1>4 DEF CoordinatorJoined, streamVars
  <2> QED  BY <1>3, <1>t, <2>1, <2>2
<1>5. CASE SpunDown(r) \/ StopsStream(r) \/ CaptureJoined(r)
  <2>1. /\ req[r].op = "disable" /\ ~Idle(r)
        /\ req[r].st \in {"spin_down", "stop_stream", "join_capture"}
        /\ req[r].todo \in SUBSET Sensors
    BY <1>5, <1>t DEF SpunDown, StopsStream, CaptureJoined, Fits, Request
  <2>2. CASE DisconnectsCur(r)
    <3>1. /\ sensors \ {req[r].cur} \in SUBSET Sensors
          /\ sensors' = sensors \ {req[r].cur}
          /\ DisableRest(req, r, req[r], req[r].todo, sensors \ {req[r].cur},
                         sync_coordinator_active)
      BY <1>t, <2>2 DEF DisconnectsCur, Disconnected
    <3>2. req[r].alone => (req[r].ids \ req[r].todo) \cap (sensors \ {req[r].cur}) = {}
      BY <1>t, <2>1 DEF Gone
    <3> QED  BY <1>3, <2>1, <3>1, <3>2
  <2>3. ASSUME NEW st \in {"stop_stream", "join_capture"}, SetReq(r, [req[r] EXCEPT !.st = st]),
               UNCHANGED sensors
        PROVE  \E p : Continues(r, p)
    <3> DEFINE q == [req[r] EXCEPT !.st = st]
    <3>1. /\ q.st = st /\ q.alone = req[r].alone /\ q.ids = req[r].ids /\ q.todo = req[r].todo
          /\ q.cur = req[r].cur /\ q.op = "disable"
      BY <1>t, <2>1 DEF Request
    <3>2. req' = [req EXCEPT ![r] = q]
      BY <2>3
    <3> HIDE DEF q
    <3>3. Gone(q, sensors)
      BY <1>t, <2>1, <2>3, <3>1 DEF Gone
    <3> QED  BY <2>1, <2>3, <3>1, <3>2, <3>3 DEF Continues, GoesOn
  <2> QED  BY <1>5, <2>2, <2>3 DEF SpunDown, StopsStream, CaptureJoined
<1> QED  BY <1>1, <1>2, <1>4, <1>5 DEF RequestStep

(* The sensors of a request are worked on between two of its steps only.    *)
LEMMA SubsStayIdle ==
  ASSUME LidarInv, IdleSubs, Next
  PROVE  IdleSubs'
<1>t. /\ req \in [Requests -> Request] /\ Overlapped \in [Requests -> Request]
      /\ \A t \in Requests : Overlapped[t].st = req[t].st
      /\ sub \in [Requests -> [Sensors -> Sub]]
  BY OverlappedType DEF LidarInv, TypeOK, RequestTypeOK, SubTypeOK
<1>1. ASSUME NEW r \in Requests, req[r].st # "gather", UNCHANGED sub, NEW q, Wrote(r, q)
      PROVE  IdleSubs'
  <2>1. \A t \in Requests : req'[t].st # "gather" => req[t].st # "gather"
    BY <1>1, <1>t DEF Wrote
  <2> QED  BY <1>1, <2>1 DEF IdleSubs
<1>2. ASSUME UNCHANGED sub, req' = req \/ req' = Overlapped
      PROVE  IdleSubs'
  BY <1>2, <1>t DEF IdleSubs
<1>3. ASSUME NEW r \in Requests, Discovered(r)
      PROVE  IdleSubs'
  <2>1. CASE UNCHANGED sub /\ \E q : SetReq(r, q)
    BY <1>1, <1>3, <2>1 DEF Discovered, InLoop, SetReq, Wrote
  <2>2. ASSUME NEW net, NEW subs,
               SetReq(r, [req[r] EXCEPT !.st = "gather", !.found = net \cap req[r].ids, !.tries = 0]),
               sub' = [sub EXCEPT ![r] = subs]
        PROVE  IdleSubs'
    <3>1. req'[r].st = "gather"
      BY <1>t, <2>2 DEF SetReq, Request
    <3>2. \A t \in Requests \ {r} : req'[t] = req[t] /\ sub'[t] = sub[t]
      BY <2>2 DEF SetReq
    <3> QED  BY <3>1, <3>2 DEF IdleSubs
  <2> QED  BY <1>3, <2>1, <2>2 DEF Discovered
<1>4. ASSUME NEW r \in Requests, Gathered(r) \/ StartRaises(r)
      PROVE  IdleSubs'
  <2>1. PICK q : SetReq(r, q)
    BY <1>4 DEF Gathered, StartRaises, Answer
  <2>a. sub' = [sub EXCEPT ![r] = [s \in Sensors |-> NoSub]]
    BY <1>4 DEF Gathered, StartRaises
  <2>2. \A t \in Requests \ {r} : req'[t] = req[t] /\ sub'[t] = sub[t]
    BY <1>t, <2>1, <2>a DEF SetReq
  <2>3. \A s \in Sensors : sub'[r][s].st = "idle"
    BY <1>t, <2>a DEF NoSub
  <2> QED  BY <2>2, <2>3 DEF IdleSubs
<1>5. ASSUME NEW r \in Requests, NEW s \in Sensors, SubStep(r, s)
      PROVE  IdleSubs'
  <2>1. UNCHANGED req /\ sub[r][s].st # "idle"
    BY <1>5 DEF SubStep, FindsConnected, NotDiscovered, Connects, ConnectFails, Connecting,
                Restarts, SpunUp
  <2>2. \E x : sub' = [sub EXCEPT ![r][s] = x]
    BY <1>5 DEF SubStep, FindsConnected, NotDiscovered, Connects, ConnectFails, Restarts, SpunUp,
                StreamStarts, StreamFails, TryLater, SetSub
  <2>3. \A t \in Requests \ {r} : sub'[t] = sub[t]
    BY <2>2, <1>t
  <2>4. req[r].st = "gather"
    BY <2>1 DEF IdleSubs
  <2> QED  BY <2>1, <2>3, <2>4 DEF IdleSubs
<1>6. ASSUME NEW r \in Requests, Asks(r)
      PROVE  IdleSubs'
  <2>1. req[r].st # "gather" /\ UNCHANGED sub
    BY <1>6 DEF Asks, AutoConnect, Enable, Disable, DisableRaises, Idle
  <2>2. \E q : Wrote(r, q)
    <3>1. CASE \E ids \in Groups : Disable(r, ids)
      BY <3>1, Zenon DEF Disable, DisableRest, Wrote
    <3>2. CASE AutoConnect(r) \/ \E ids \in Groups : Enable(r, ids)
      BY <3>2 DEF AutoConnect, Enable, Accept, Wrote
    <3>3. CASE \E ids \in Groups : DisableRaises(r, ids)
      <4>1. req' = Overlapped
        BY <3>3, DisableRaisesEffect
      <4>2. req' = [Overlapped EXCEPT ![r] = Overlapped[r]]
        BY <4>1 DEF Overlapped
      <4> QED  BY <4>2 DEF Wrote
    <3> QED  BY <1>6, <3>1, <3>2, <3>3 DEF Asks
  <2> QED  BY <1>1, <2>1, <2>2
<1>7. ASSUME NEW r \in Requests,
             \/ Settled(r) \/ AutoFinds(r) \/ AutoRegisters(r) \/ AutoHangs(r) \/ AutoEnds(r)
             \/ CoordinatorJoined(r) \/ SpunDown(r) \/ StopsStream(r) \/ CaptureJoined(r)
      PROVE  IdleSubs'
  <2>1. req[r].st # "gather" /\ UNCHANGED sub
    BY <1>7 DEF Settled, AutoFinds, AutoRegisters, AutoHangs, AutoEnds, CoordinatorJoined,
                SpunDown, StopsStream, CaptureJoined, InLoop
  <2>2. \E q : Wrote(r, q)
    BY <1>7, Zenon DEF Settled, AutoFinds, AutoRegisters, AutoHangs, AutoEnds, CoordinatorJoined,
                SpunDown, StopsStream, CaptureJoined, DisconnectsCur, DisableRest, Answer, SetReq, Wrote
  <2> QED  BY <1>1, <2>1, <2>2
<1>8. ASSUME NEW s \in Sensors, ConnectRoute(s) \/ DisconnectRoute(s) \/ StreamRoute(s)
      PROVE  IdleSubs'
  BY <1>2, <1>8 DEF ConnectRoute, DisconnectRoute, StreamRoute, Route
<1>9. ASSUME \/ \E s \in Sensors, k \in Slots : CaptureStep(s, k)
             \/ \E c \in Coordinators : CoordinatorStep(c)
      PROVE  IdleSubs'
  BY <1>2, <1>9 DEF CaptureStep, CaptureBegins, CaptureEnds, CoordinatorStep, CoordinatorEnds
<1>10. ASSUME NEW s \in Sensors, Hangs(s)
       PROVE  IdleSubs'
  BY <1>2, <1>10, HangsEffect
<1> QED  BY <1>3, <1>4, <1>5, <1>6, <1>7, <1>8, <1>9, <1>10 DEF Next, RequestStep, RouteStep

(* A request that continues is the only one that can be undisturbed.        *)
LEMMA ContinuesAlone ==
  ASSUME LidarInv, AloneInv, NEW r \in Requests, NEW q, Continues(r, q)
  PROVE  Undisturbed' /\ \A t \in Requests : Gone(req'[t], sensors')
<1>t. req \in [Requests -> Request] /\ Overlapped \in [Requests -> Request]
      /\ \A t \in Requests : Overlapped[t].st = req[t].st /\ ~Overlapped[t].alone
  BY OverlappedType, OverlappedNotAlone DEF LidarInv, TypeOK, RequestTypeOK, AloneInv
<1>1. req'[r] = q /\ \A t \in Requests \ {r} : ~req'[t].alone /\ req'[t].st = req[t].st
  <2>1. CASE Comes(r, q)
    BY <1>t, <2>1 DEF Comes
  <2>2. CASE GoesOn(r, q)
    <3>1. \A t \in Requests \ {r} : ~req[t].alone
      BY <2>2 DEF GoesOn, AloneInv, Undisturbed
    <3> QED  BY <1>t, <2>2, <3>1 DEF GoesOn
  <2> QED  BY <2>1, <2>2 DEF Continues
<1>2. q.alone => q.st # "idle" /\ \A t \in Requests \ {r} : req[t].st = "idle"
  <2>1. CASE Comes(r, q)
    BY <2>1 DEF Comes, Quiet, Idle
  <2>2. CASE GoesOn(r, q)
    BY <2>2 DEF GoesOn, AloneInv, Undisturbed, Idle
  <2> QED  BY <2>1, <2>2 DEF Continues
<1>3. Undisturbed'
  BY <1>1, <1>2 DEF Undisturbed, Idle
<1>4. ASSUME NEW t \in Requests
      PROVE  Gone(req'[t], sensors')
  BY <1>1 DEF Gone, Continues
<1> QED  BY <1>3, <1>4

LEMMA AloneStep ==
  ASSUME LidarInv, AloneInv, Next
  PROVE  AloneInv'
<1>t. req \in [Requests -> Request]
  BY DEF LidarInv, TypeOK, RequestTypeOK
<1>0. IdleSubs'
  BY SubsStayIdle DEF AloneInv
<1>1. ASSUME NEW r \in Requests, Asks(r) \/ RequestStep(r)
      PROVE  AloneInv'
  <2>1. PICK q : Continues(r, q)
    BY <1>1, AsksContinue, RequestsContinue
  <2> QED  BY <1>0, <2>1, ContinuesAlone DEF AloneInv
<1>2. ASSUME NEW r \in Requests, NEW s \in Sensors, SubStep(r, s)
      PROVE  AloneInv'
  <2>1. UNCHANGED req /\ sub[r][s].st # "idle"
    BY <1>2 DEF SubStep, FindsConnected, NotDiscovered, Connects, ConnectFails, Connecting,
                Restarts, SpunUp
  <2>2. req[r].st = "gather"
    BY <2>1 DEF AloneInv, IdleSubs
  <2>3. \A t \in Requests : req[t].alone => t = r
    BY <2>2 DEF AloneInv, Undisturbed, Idle
  <2>4. \A t \in Requests : Gone(req[t], sensors')
    BY <2>2, <2>3 DEF Gone
  <2> QED  BY <1>0, <2>1, <2>4 DEF AloneInv, Undisturbed, Idle
<1>3. ASSUME NEW s \in Sensors, ConnectRoute(s) \/ DisconnectRoute(s) \/ StreamRoute(s)
      PROVE  AloneInv'
  <2>1. req' = Overlapped
    BY <1>3 DEF ConnectRoute, DisconnectRoute, StreamRoute, Route
  <2>2. \A t \in Requests : ~Overlapped[t].alone
    BY OverlappedNotAlone DEF AloneInv, LidarInv, TypeOK
  <2> QED  BY <1>0, <2>1, <2>2 DEF AloneInv, Undisturbed, Gone
<1>4. ASSUME \/ \E s \in Sensors, k \in Slots : CaptureStep(s, k)
             \/ \E c \in Coordinators : CoordinatorStep(c)
      PROVE  AloneInv'
  <2>1. UNCHANGED <<req, sensors>>
    BY <1>4 DEF CaptureStep, CaptureBegins, CaptureEnds, CoordinatorStep, CoordinatorEnds,
                streamVars
  <2> QED  BY <1>0, <2>1 DEF AloneInv, Undisturbed, Gone, Idle
<1>5. ASSUME NEW s \in Sensors, Hangs(s)
      PROVE  AloneInv'
  <2>1. CASE req' = Overlapped
    <3>1. \A t \in Requests : ~Overlapped[t].alone
      BY OverlappedNotAlone DEF AloneInv, LidarInv, TypeOK
    <3> QED  BY <1>0, <2>1, <3>1 DEF AloneInv, Undisturbed, Gone
  <2>2. CASE UNCHANGED <<req, sensors>>
    BY <1>0, <2>2 DEF AloneInv, Undisturbed, Gone, Idle
  <2>3. ASSUME UNCHANGED req, NEW r \in Requests, Connecting(r, s)
        PROVE  AloneInv'
    <3>1. req[r].st = "gather"
      BY <2>3 DEF Connecting, AloneInv, IdleSubs
    <3>2. \A t \in Requests : req[t].alone => t = r
      BY <3>1 DEF AloneInv, Undisturbed, Idle
    <3>3. \A t \in Requests : Gone(req[t], sensors')
      BY <3>1, <3>2 DEF Gone
    <3> QED  BY <1>0, <2>3, <3>3 DEF AloneInv, Undisturbed, Idle
  <2> QED  BY <1>5, <2>1, <2>2, <2>3 DEF Hangs, RequestHangs, RouteHangs, CallHangs
<1> QED  BY <1>1, <1>2, <1>3, <1>4, <1>5 DEF Next, RouteStep

(* An undisturbed disable ends with what it promises.                       *)
LEMMA AloneDelivers ==
  ASSUME LidarInv, AloneInv, Next, NEW r \in Requests, Disables(r), req[r].alone
  PROVE  Delivered(req[r].ids)
<1>t. /\ req \in [Requests -> Request] /\ Overlapped \in [Requests -> Request]
      /\ \A t \in Requests : Overlapped[t].op = req[t].op
      /\ req[r].op = "disable" /\ req'[r].op = "none"
  BY OverlappedType DEF LidarInv, TypeOK, RequestTypeOK, Disables
<1>1. req' # req /\ req' # Overlapped
  BY <1>t
<1>2. PICK t \in Requests : \E q : Continues(t, q)
  <2>1. ASSUME NEW u \in Requests, NEW s \in Sensors, SubStep(u, s)
        PROVE  req' = req
    BY <2>1 DEF SubStep, FindsConnected, NotDiscovered, Connects, ConnectFails, Restarts, SpunUp
  <2>2. ASSUME NEW s \in Sensors, ConnectRoute(s) \/ DisconnectRoute(s) \/ StreamRoute(s)
        PROVE  req' = Overlapped
    BY <2>2 DEF ConnectRoute, DisconnectRoute, StreamRoute, Route
  <2>3. ASSUME \/ \E s \in Sensors, k \in Slots : CaptureStep(s, k)
               \/ \E c \in Coordinators : CoordinatorStep(c)
        PROVE  req' = req
    BY <2>3 DEF CaptureStep, CaptureBegins, CaptureEnds, CoordinatorStep, CoordinatorEnds
  <2>4. ASSUME NEW s \in Sensors, Hangs(s)
        PROVE  req' = req \/ req' = Overlapped
    BY <2>4, HangsEffect
  <2> QED  BY <1>1, <2>1, <2>2, <2>3, <2>4, AsksContinue, RequestsContinue DEF Next, RouteStep
<1>3. PICK q : Continues(t, q)
  BY <1>2
<1>4. t = r
  BY <1>t, <1>3 DEF Continues, Comes, GoesOn
<1>5. ~Idle(r)
  BY DEF AloneInv, Undisturbed
<1>6. GoesOn(r, q) /\ q.op = "none"
  BY <1>t, <1>3, <1>4, <1>5 DEF Continues, Comes, GoesOn
<1> QED  BY <1>t, <1>6 DEF GoesOn

-----------------------------------------------------------------------------
(* The theorems.                                                            *)

LidarIInv == LidarInv /\ StreamBacked /\ CoordinatorBacked /\ EnabledInv

LEMMA LidarInit == Init => LidarIInv
<1> SUFFICES ASSUME Init PROVE LidarIInv
  OBVIOUS
<1>1. StreamTypeOK /\ ModeTypeOK /\ SyncTypeOK /\ RequestTypeOK
  BY NoRequestType, LidarAssumption
     DEF Init, StreamTypeOK, ModeTypeOK, SyncTypeOK, RequestTypeOK
<1>2. SubTypeOK
  BY NoSubType, LidarAssumption DEF Init, SubTypeOK, NoSub
<1>3. Staged
  BY NoRequestFits DEF Init, Staged
<1>4. JoinsUnset /\ StreamBacked /\ CoordinatorBacked
  BY DEF Init, JoinsUnset, StreamBacked, CoordinatorBacked
<1>5. EnabledInv
  BY DEF Init, EnabledInv, EnabledIsSynced, ModeOn
<1>6. hung \in BOOLEAN
  BY DEF Init
<1> QED  BY <1>1, <1>2, <1>3, <1>4, <1>5, <1>6 DEF LidarIInv, LidarInv, TypeOK

LEMMA HungTyped ==
  ASSUME LidarInv, Next
  PROVE  hung' \in BOOLEAN
BY DEF LidarInv, TypeOK, Next, Asks, RequestStep, SubStep, RouteStep, Hangs, CaptureStep,
       CoordinatorStep

LEMMA LidarStep == LidarIInv /\ [Next]_vars => LidarIInv'
<1> SUFFICES ASSUME LidarIInv, [Next]_vars PROVE LidarIInv'
  OBVIOUS
<1>1. CASE Next
  BY <1>1, RequestsFit, StreamsTyped, SubsTyped, ModesTyped, SyncSafe, StreamsBacked,
     EnabledStaysSynced, HungTyped DEF LidarIInv, LidarInv, TypeOK, SyncInv
<1>2. CASE UNCHANGED vars
  <2>1. TypeOK'
    BY <1>2 DEF vars, streamVars, modeVars, syncVars, LidarIInv, LidarInv, TypeOK,
                StreamTypeOK, ModeTypeOK, SyncTypeOK, RequestTypeOK, SubTypeOK
  <2>2. Staged' /\ JoinsUnset' /\ StreamBacked' /\ CoordinatorBacked'
    BY <1>2 DEF vars, streamVars, syncVars, LidarIInv, LidarInv, Staged, JoinsUnset,
                StreamBacked, CoordinatorBacked
  <2>3. EnabledInv'
    BY <1>2 DEF vars, modeVars, syncVars, LidarIInv, EnabledInv, EnabledIsSynced, ModeOn
  <2> QED  BY <2>1, <2>2, <2>3 DEF LidarIInv, LidarInv
<1> QED  BY <1>1, <1>2

(* Every field of the manager, thread and request keeps its type, and no    *)
(* attempt is repeated more often than its limit allows.                    *)
THEOREM LidarTypeCorrect == Spec => []TypeOK
<1>1. LidarIInv => TypeOK
  BY DEF LidarIInv, LidarInv
<1> QED  BY <1>1, LidarInit, LidarStep, PTL DEF Spec

(* However stops, disconnects and restarts overlap, a stream that is marked *)
(* active belongs to a connected sensor and has a capture thread.           *)
THEOREM StreamsStayBacked == Spec => []StreamBacked
<1>1. LidarIInv => StreamBacked
  BY DEF LidarIInv
<1> QED  BY <1>1, LidarInit, LidarStep, PTL DEF Spec

(* When the coordinator's flag is up, the manager knows a thread that obeys *)
(* it and that a later stop joins.                                          *)
THEOREM CoordinatorStaysBacked == Spec => []CoordinatorBacked
<1>1. LidarIInv => CoordinatorBacked
  BY DEF LidarIInv
<1> QED  BY <1>1, LidarInit, LidarStep, PTL DEF Spec

(* A sensor that an enable reported as streaming stays in berthing mode and *)
(* synchronised until a disable that names it is on its way, whatever       *)
(* happens to the sensors of other berths.                                  *)
THEOREM EnabledStaysServed == Spec => []EnabledIsSynced
<1>1. LidarIInv => EnabledIsSynced
  BY DEF LidarIInv, EnabledInv
<1> QED  BY <1>1, LidarInit, LidarStep, PTL DEF Spec

LEMMA AloneInit == Init => AloneInv
BY DEF Init, AloneInv, Undisturbed, IdleSubs, Gone, NoRequest, NoSub, Idle

LEMMA AloneStays == LidarIInv /\ AloneInv /\ [Next]_vars => AloneInv'
<1> SUFFICES ASSUME LidarIInv, AloneInv, [Next]_vars PROVE AloneInv'
  OBVIOUS
<1>1. CASE Next
  BY <1>1, AloneStep DEF LidarIInv
<1>2. CASE UNCHANGED vars
  BY <1>2 DEF vars, streamVars, AloneInv, Undisturbed, IdleSubs, Gone, Idle
<1> QED  BY <1>1, <1>2

(* A disable during which no other client asked for anything leaves its     *)
(* sensors disconnected, without a stream and out of berthing mode, and the *)
(* coordinator's flag down when no other sensor is left.                    *)
THEOREM DisablesDeliver == Spec => DisableDelivers
<1>1. ASSUME LidarIInv, AloneInv, LidarIInv', [Next]_vars, NEW r \in Requests,
             Disables(r), req[r].alone
      PROVE  /\ req[r].ids \cap (sensors' \cup stream_active' \cup berthing_mode_sensors') = {}
             /\ berthing_mode_sensors' = {} => ~sync_coordinator_active'
  <2>1. CASE Next
    <3>1. Delivered(req[r].ids)
      BY <1>1, <2>1, AloneDelivers DEF LidarIInv
    <3>2. stream_active' \subseteq sensors'
      BY <1>1 DEF LidarIInv, StreamBacked
    <3> QED  BY <3>1, <3>2 DEF Delivered
  <2>2. CASE UNCHANGED vars
    BY <1>1, <2>2 DEF vars, Disables
  <2> QED  BY <1>1, <2>1, <2>2
<1>2. LidarIInv /\ AloneInv /\ LidarIInv' /\ [Next]_vars
        => [\A r \in Requests : Disables(r) /\ req[r].alone =>
              /\ req[r].ids \cap (sensors' \cup stream_active' \cup berthing_mode_sensors') = {}
              /\ berthing_mode_sensors' = {} => ~sync_coordinator_active']_vars
  BY <1>1
<1>3. Spec => []LidarIInv
  BY LidarInit, LidarStep, PTL DEF Spec
<1>4. Spec => []AloneInv
  BY <1>3, AloneInit, AloneStays, PTL DEF Spec
<1> QED  BY <1>2, <1>3, <1>4, PTL DEF Spec, DisableDelivers
=============================================================================
