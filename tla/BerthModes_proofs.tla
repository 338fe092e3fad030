-------------------------- MODULE BerthModes_proofs --------------------------
(***************************************************************************)
(* Theorems about BerthModes for every set of lasers, berths, requests and *)
(* loop identities, every configuration of lasers to berths, and with or   *)
(* without lost cancellations: first the registry of the manager, then the *)
(* devices.  The asyncio.Lock of a laser admits one command at a time, and *)
(* its mode, flags and session id agree, however the requests of the       *)
(* berths interleave.  For a client that waits for each answer, the        *)
(* manager's record of active berths agrees with the lasers and the data   *)
(* loops whenever nothing is in progress.                                  *)
(***************************************************************************)
EXTENDS BerthModes, TLAPS

-----------------------------------------------------------------------------
(* Type correctness.                                                        *)

(* Moving a call to another stage, or ending it, keeps the table well typed. *)
LEMMA CallTableType ==
  ASSUME DeviceTypeOK, NEW r \in Requests, NEW l \in Lasers
  PROVE  /\ \A c \in Call : SetCall(r, l, c) => call' \in [Requests -> [Lasers -> Call]]
         /\ \A st \in Stages : Go(r, l, st) => call' \in [Requests -> [Lasers -> Call]]
         /\ \A st \in Stages : Return(r, l, st) => call' \in [Requests -> [Lasers -> Call]]
         /\ RetryOrFail(r, l) => call' \in [Requests -> [Lasers -> Call]]
<1>1. call[r][l] \in Call
  BY DEF DeviceTypeOK
<1>2. ASSUME NEW c \in Call, SetCall(r, l, c)
      PROVE  call' \in [Requests -> [Lasers -> Call]]
  BY <1>2 DEF DeviceTypeOK, SetCall
<1>3. ASSUME NEW st \in Stages
      PROVE  [call[r][l] EXCEPT !.st = st] \in Call /\ [NoCall EXCEPT !.st = st] \in Call
  BY <1>1 DEF Call, NoCall, NoId, CallOps
<1>4. ASSUME call[r][l].outer > 1
      PROVE  [call[r][l] EXCEPT !.st = "begin", !.outer = @ - 1, !.inner = ModeAttempts] \in Call
  <2>1. call[r][l].outer - 1 \in Nat
    BY <1>1, <1>4 DEF Call
  <2> QED  BY <1>1, <2>1, LaserOpsAssumption DEF Call, Stages
<1>5. RetryOrFail(r, l) => call' \in [Requests -> [Lasers -> Call]]
  BY <1>2, <1>3, <1>4 DEF RetryOrFail, Return, Stages
<1> QED  BY <1>2, <1>3, <1>5 DEF Go, Return

(* Every assignment to the fields of a laser stores values of their type.   *)
LEMMA DeviceFieldsType ==
  ASSUME NEW d \in Device
  PROVE  /\ Unlinked(d) \in Device
         /\ Quieted(d) \in Device
         /\ BerthingCleared(d) \in Device
         /\ AllModesCleared(d) \in Device
         /\ DriftCleared(d) \in Device
         /\ DriftSet(d) \in Device
         /\ Disconnected(d) \in Device
         /\ \A id \in Bids \cup {NoId} : BerthingSet(d, id) \in Device
         /\ [d EXCEPT !.status = "CONNECTED", !.socket = "open"] \in Device
         /\ [d EXCEPT !.status = "ERROR", !.socket = "dead"] \in Device
         /\ [d EXCEPT !.continuous = TRUE] \in Device
         /\ [d EXCEPT !.socket = "dead"] \in Device
BY DEF Device, Unlinked, Quieted, BerthingCleared, AllModesCleared, DriftCleared,
       DriftSet, Disconnected, BerthingSet, NoId

LEMMA SetDevType ==
  ASSUME DeviceTypeOK, NEW l \in Lasers, NEW d \in Device, SetDev(l, d)
  PROVE  dev' \in [Lasers -> Device]
BY DEF DeviceTypeOK, SetDev

(* Every step of a laser coroutine is well typed.                           *)
LEMMA CallStepType ==
  ASSUME DeviceTypeOK, NEW r \in Requests, NEW l \in Lasers, CallStep(r, l)
  PROVE  DeviceTypeOK'
<1> DEFINE Calls == [Requests -> [Lasers -> Call]]
<1>a. dev[l] \in Device /\ call[r][l] \in Call /\ lock \in [Lasers -> SUBSET Requests]
  BY DEF DeviceTypeOK
<1>b. /\ \A st \in Stages : Go(r, l, st) => call' \in Calls
      /\ \A st \in Stages : Return(r, l, st) => call' \in Calls
      /\ RetryOrFail(r, l) => call' \in Calls
      /\ \A d \in Device : SetDev(l, d) => dev' \in [Lasers -> Device]
  BY CallTableType, SetDevType
<1>c. Stages = {"idle", "begin", "connecting", "ready", "escaping", "settling",
                "vt", "flow", "verify", "drift_verify", "undo", "ok", "failed"}
  BY DEF Stages
<1>d. SUFFICES dev' \in [Lasers -> Device] /\ lock' \in [Lasers -> SUBSET Requests]
               /\ call' \in Calls
  BY DEF DeviceTypeOK
<1>e. UNCHANGED dev => dev' \in [Lasers -> Device]
  BY DEF DeviceTypeOK
<1>f. UNCHANGED lock => lock' \in [Lasers -> SUBSET Requests]
  BY DEF DeviceTypeOK
<1> HIDE DEF Calls
<1>1. CASE Connect(r, l)
  BY <1>1, <1>a, <1>b, <1>c, <1>f, DeviceFieldsType DEF Connect
<1>2. CASE ConnectFails(r, l)
  BY <1>2, <1>a, <1>b, <1>c, <1>f, DeviceFieldsType DEF ConnectFails
<1>3. CASE CheckContinuous(r, l)
  BY <1>3, <1>a, <1>b, <1>c, <1>e, <1>f, DeviceFieldsType DEF CheckContinuous
<1>4. CASE SkipEscape(r, l)
  BY <1>4, <1>b, <1>c, <1>e, <1>f DEF SkipEscape
<1>5. CASE EscapeSent(r, l)
  BY <1>5, <1>b, <1>c, <1>e, <1>f DEF EscapeSent
<1>6. CASE EscapeBreaks(r, l)
  BY <1>6, <1>a, <1>b, <1>c, <1>f, DeviceFieldsType DEF EscapeBreaks
<1>7. CASE EscapeRaises(r, l)
  BY <1>7, <1>a, <1>b, <1>c, <1>e, <1>f, DeviceFieldsType DEF EscapeRaises
<1>8. CASE FinishStop(r, l)
  BY <1>8, <1>a, <1>b, <1>c, <1>f, DeviceFieldsType DEF FinishStop
<1>9. CASE FinishOff(r, l)
  BY <1>9, <1>a, <1>b, <1>c, <1>f, DeviceFieldsType DEF FinishOff
<1>10. CASE FinishStopDrift(r, l)
  BY <1>10, <1>a, <1>b, <1>c, <1>f, DeviceFieldsType DEF FinishStopDrift
<1>11. CASE SendVT(r, l)
  <2>1. dev' \in [Lasers -> Device]
    BY <1>11, <1>a, <1>b, DeviceFieldsType DEF SendVT
  <2>2. call' \in Calls
    BY <1>11, <1>b, <1>c DEF SendVT
  <2>3. lock' \in [Lasers -> SUBSET Requests]
    BY <1>11, <1>a, <1>f DEF SendVT
  <2> QED  BY <2>1, <2>2, <2>3
<1>12. CASE VTAnswered(r, l)
  <2>1. dev' \in [Lasers -> Device] /\ call' \in Calls
    BY <1>12, <1>a, <1>b, <1>c, DeviceFieldsType DEF VTAnswered
  <2>2. lock' \in [Lasers -> SUBSET Requests]
    BY <1>12, <1>a DEF VTAnswered
  <2> QED  BY <2>1, <2>2
<1>13. CASE VTFails(r, l)
  <2>1. dev' \in [Lasers -> Device] /\ call' \in Calls
    BY <1>13, <1>b, <1>c, <1>e DEF VTFails
  <2>2. lock' \in [Lasers -> SUBSET Requests]
    BY <1>13, <1>a DEF VTFails
  <2> QED  BY <2>1, <2>2
<1>14. CASE Flow(r, l)
  BY <1>14, <1>b, <1>c, <1>e, <1>f DEF Flow
<1>15. CASE BerthingStarted(r, l)
  <2>1. call[r][l].bid \in Bids \cup {NoId}
    BY <1>a DEF Call
  <2> QED  BY <1>15, <1>a, <1>b, <1>c, <1>f, <2>1, DeviceFieldsType DEF BerthingStarted
<1>16. CASE DriftVerify(r, l)
  BY <1>16, <1>b, <1>c, <1>e, <1>f DEF DriftVerify
<1>17. CASE NoData(r, l)
  BY <1>17, <1>b, <1>c, <1>e, <1>f DEF NoData
<1>18. CASE DriftStarted(r, l)
  BY <1>18, <1>a, <1>b, <1>c, <1>f, DeviceFieldsType DEF DriftStarted
<1>19. CASE DriftNoData(r, l)
  BY <1>19, <1>b, <1>c, <1>e, <1>f DEF DriftNoData
<1>20. CASE Undo(r, l)
  <2>1. dev' \in [Lasers -> Device]
    BY <1>20, <1>a, <1>b, DeviceFieldsType DEF Undo
  <2>2. ASSUME call[r][l].inner > 1
        PROVE  [call[r][l] EXCEPT !.st = "settling", !.inner = @ - 1] \in Call
    <3>1. call[r][l].inner - 1 \in Nat
      BY <1>a, <2>2 DEF Call
    <3> QED  BY <1>a, <1>c, <3>1 DEF Call
  <2>3. call' \in Calls
    BY <1>20, <1>b, <2>2, CallTableType DEF Undo, Calls
  <2> QED  BY <1>20, <1>f, <2>1, <2>3 DEF Undo
<1> QED
  BY <1>1, <1>2, <1>3, <1>4, <1>5, <1>6, <1>7, <1>8, <1>9, <1>10, <1>11, <1>12, <1>13,
     <1>14, <1>15, <1>16, <1>17, <1>18, <1>19, <1>20 DEF CallStep

LEMMA RequestFieldsType ==
  ASSUME NEW r \in Requests, NEW q \in Request, req \in [Requests -> Request], SetReq(r, q)
  PROVE  req' \in [Requests -> Request]
BY DEF SetReq

(* A loop that is created, scheduled or ended is well typed.                *)
LEMMA LoopFieldsType ==
  ASSUME TypeOK, NEW k \in Tasks
  PROVE  /\ NoLoop \in Loop
         /\ AtHead(task[k]) \in Loop
         /\ \A rest \in SUBSET Lasers : Visited(task[k], rest) \subseteq Loop
         /\ Cancelled(task[k]) \subseteq Loop
         /\ Cancel(task[k]) \in Loop /\ Missed(task[k]) \in Loop
         /\ \A kind \in {"berthing", "drift"}, b \in Berths, id \in Bids \cup {NoId},
               S \in SUBSET Lasers : NewLoop(kind, b, id, S) \in Loop
         /\ \A t \in Loop : SetTask(k, t) => task' \in [Tasks -> Loop]
<1>1. task[k] \in Loop
  BY DEF TypeOK
<1>2. NoLoop \in Loop
  BY DEF NoLoop, Loop, NoId, NoBerth
<1>3. [task[k] EXCEPT !.st = "sleep", !.left = {}, !.cur = 0] \in Loop
  BY <1>1 DEF Loop
<1>4. AtHead(task[k]) \in Loop
  BY <1>2, <1>3 DEF AtHead
<1>5. ASSUME NEW rest \in SUBSET Lasers
      PROVE  Visited(task[k], rest) \subseteq Loop
  <2>1. ASSUME NEW l \in rest
        PROVE  [task[k] EXCEPT !.st = "fetch", !.cur = l, !.left = {x \in rest : x > l}] \in Loop
    BY <1>1, <2>1 DEF Loop
  <2> QED  BY <1>4, <2>1 DEF Visited
<1>6. Cancel(task[k]) \in Loop /\ Missed(task[k]) \in Loop
  BY <1>1 DEF Loop, Cancel, Missed
<1>7. Cancelled(task[k]) \subseteq Loop
  BY <1>6 DEF Cancelled
<1>8. ASSUME NEW kind \in {"berthing", "drift"}, NEW b \in Berths, NEW id \in Bids \cup {NoId},
             NEW S \in SUBSET Lasers
      PROVE  NewLoop(kind, b, id, S) \in Loop
  BY DEF NewLoop, Loop
<1>9. ASSUME NEW t \in Loop, SetTask(k, t) PROVE task' \in [Tasks -> Loop]
  BY <1>9 DEF SetTask, TypeOK
<1> QED  BY <1>2, <1>4, <1>5, <1>6, <1>7, <1>8, <1>9

LEMMA LaunchType ==
  ASSUME TypeOK, NEW kind \in {"berthing", "drift"}, NEW b \in Berths,
         NEW id \in Bids \cup {NoId}, NEW S \in SUBSET Lasers, LaunchLoop(kind, b, id, S)
  PROVE  /\ task' \in [Tasks -> Loop]
         /\ registered' \in [Berths -> Tasks \cup {NoTask}]
         /\ active' \in SUBSET Berths
<1>1. PICK k \in Tasks : /\ SetTask(k, NewLoop(kind, b, id, S))
                         /\ registered' = [registered EXCEPT ![b] = k]
  BY DEF LaunchLoop, FreeTasks
<1>2. task' \in [Tasks -> Loop]
  BY <1>1, LoopFieldsType
<1> QED  BY <1>1, <1>2 DEF LaunchLoop, TypeOK

(* What the stage of a request says of its other fields: the strengthening  *)
(* that type correctness needs, because EndStart and EndLasers activate the *)
(* berth of the request and NextLaser derives a coroutine from its op.      *)
RequestShape(r) ==
  /\ req[r].st = "gather" => req[r].op = "start"
  /\ req[r].st = "lasers" => req[r].op \in AllOps \ {"start"}
  /\ req[r].st = "await" => req[r].op \in {"stop", "stop_drift", "off", "shutdown"}
  /\ req[r].st # "idle" /\ req[r].op # "shutdown" => req[r].berth \in Berths
  /\ req[r].awaits # NoTask => req[r].st = "await"
  /\ req[r].op = "shutdown" => req[r].awaits = NoTask

Shaped == TypeOK /\ \A r \in Requests : RequestShape(r)

(* A step that changes one request at most is judged by that request.       *)
LEMMA ShapeOfOne ==
  ASSUME Shaped, NEW r \in Requests, NEW q \in Request, SetReq(r, q),
         /\ q.st = "gather" => q.op = "start"
         /\ q.st = "lasers" => q.op \in AllOps \ {"start"}
         /\ q.st = "await" => q.op \in {"stop", "stop_drift", "off", "shutdown"}
         /\ q.st # "idle" /\ q.op # "shutdown" => q.berth \in Berths
         /\ q.awaits # NoTask => q.st = "await"
         /\ q.op = "shutdown" => q.awaits = NoTask
  PROVE  /\ req' \in [Requests -> Request]
         /\ (\A s \in Requests : RequestShape(s))'
<1>1. req \in [Requests -> Request]
  BY DEF Shaped, TypeOK
<1>2. req' \in [Requests -> Request]
  BY <1>1, RequestFieldsType
<1>3. ASSUME NEW s \in Requests PROVE RequestShape(s)'
  <2>1. CASE s = r
    <3>1. req'[s] = q
      BY <1>1, <2>1 DEF SetReq
    <3> QED  BY <3>1 DEF RequestShape
  <2>2. CASE s # r
    <3>1. req'[s] = req[s]
      BY <1>1, <2>2 DEF SetReq
    <3> QED  BY <3>1 DEF RequestShape, Shaped
  <2> QED  BY <2>1, <2>2
<1> QED  BY <1>2, <1>3

LEMMA NoRequestShape ==
  /\ NoRequest \in Request
  /\ NoRequest.st = "idle" /\ NoRequest.op = "none" /\ NoRequest.awaits = NoTask
BY DEF NoRequest, Request, NoBerth, NoId, NoTask

(* Answering a request.                                                     *)
LEMMA AnswerShape ==
  ASSUME Shaped, NEW r \in Requests, Answer(r)
  PROVE  /\ req' \in [Requests -> Request]
         /\ (\A s \in Requests : RequestShape(s))'
BY ShapeOfOne, NoRequestShape DEF Answer

(* The part of TypeOK that request steps may change besides req and call.   *)
LoopsTyped ==
  /\ task \in [Tasks -> Loop]
  /\ registered \in [Berths -> Tasks \cup {NoTask}]
  /\ active \in SUBSET Berths

LEMMA DeactivateType ==
  ASSUME TypeOK, NEW b, Deactivate(b)
  PROVE  /\ registered' \in [Berths -> Tasks \cup {NoTask}]
         /\ active' \in SUBSET Berths
BY DEF TypeOK, Deactivate

LEMMA AcceptShaped ==
  ASSUME Shaped, NEW r \in Requests, Accept(r)
  PROVE  Shaped'
<1>a. /\ TypeOK /\ DeviceTypeOK /\ LoopsTyped
      /\ phase \in {"running", "stopping", "stopped"}
  BY DEF Shaped, TypeOK, LoopsTyped
<1>b. ASSUME DeviceTypeOK', LoopsTyped', phase' \in {"running", "stopping", "stopped"},
             NEW q \in Request, SetReq(r, q), q.st # "idle", q.st # "gather" \/ q.op = "start",
             q.st = "lasers" => q.op \in AllOps \ {"start"},
             q.st = "await" => q.op \in {"stop", "stop_drift", "off", "shutdown"},
             q.op # "shutdown" => q.berth \in Berths,
             q.awaits # NoTask => q.st = "await",
             q.op = "shutdown" => q.awaits = NoTask
      PROVE  Shaped'
  <2>1. /\ req' \in [Requests -> Request]
        /\ (\A s \in Requests : RequestShape(s))'
    BY <1>b, ShapeOfOne
  <2> QED  BY <1>b, <2>1 DEF Shaped, TypeOK, LoopsTyped
<1>1. ASSUME NEW b \in Berths, NEW id \in Bids, StartBerthing(r, b, id)
      PROVE  Shaped'
  <2> DEFINE q == [NoRequest EXCEPT !.op = "start", !.berth = b, !.bid = id,
                                    !.st = "gather", !.todo = LasersOf(b)]
  <2>1. q \in Request /\ q.op = "start" /\ q.st = "gather" /\ q.berth \in Berths
        /\ q.awaits = NoTask
    BY DEF NoRequest, Request, LasersOf, AllOps, NoTask
  <2>2. NoCall \in Call /\ NewCall("start_berthing", id, StartAttempts) \in Call
    BY LaserOpsAssumption DEF NoCall, NewCall, Call, CallOps, Starts, Stages, NoId
  <2>3. call' \in [Requests -> [Lasers -> Call]]
    BY <1>1, <1>a, <2>2 DEF StartBerthing, DeviceTypeOK
  <2>4. DeviceTypeOK' /\ LoopsTyped' /\ phase' = phase /\ SetReq(r, q)
    BY <1>1, <1>a, <2>3 DEF StartBerthing, DeviceTypeOK, LoopsTyped
  <2> QED  BY <1>a, <1>b, <2>1, <2>4
<1>2. ASSUME NEW b \in Berths, NEW op \in {"stop", "stop_drift", "off"}, BeginStop(r, op, b)
      PROVE  Shaped'
  <2> DEFINE now == [NoRequest EXCEPT !.op = op, !.berth = b, !.todo = Targets(op, b)]
  <2> DEFINE q1 == [now EXCEPT !.st = "lasers"]
  <2> DEFINE q2 == [now EXCEPT !.st = "await", !.awaits = registered[b]]
  <2>0. DeviceTypeOK' /\ phase' = phase
    BY <1>2, <1>a DEF BeginStop, DeviceTypeOK
  <2>1. CASE registered[b] = NoTask
    <3>1. q1 \in Request /\ q1.op = op /\ q1.st = "lasers" /\ q1.berth = b /\ q1.awaits = NoTask
      BY DEF NoRequest, Request, Targets, LasersOf, AllOps, NoTask
    <3>2. SetReq(r, q1) /\ Deactivate(b) /\ UNCHANGED task
      BY <1>2, <2>1 DEF BeginStop
    <3>3. LoopsTyped'
      BY <1>a, <3>2, DeactivateType DEF LoopsTyped
    <3> HIDE DEF q1
    <3> QED  BY <1>a, <1>b, <2>0, <3>1, <3>2, <3>3 DEF AllOps
  <2>2. CASE registered[b] # NoTask
    <3>1. registered[b] \in Tasks
      BY <1>a, <2>2 DEF LoopsTyped
    <3>2. q2 \in Request /\ q2.op = op /\ q2.st = "await" /\ q2.berth = b
      BY <3>1 DEF NoRequest, Request, Targets, LasersOf, AllOps
    <3>3. /\ SetReq(r, q2)
          /\ \E t \in Cancelled(task[registered[b]]) : SetTask(registered[b], t)
          /\ UNCHANGED <<registered, active>>
      BY <1>2, <2>2 DEF BeginStop
    <3>4. LoopsTyped'
      BY <1>a, <3>1, <3>3, LoopFieldsType DEF LoopsTyped
    <3> HIDE DEF q2
    <3> QED  BY <1>a, <1>b, <2>0, <3>2, <3>3, <3>4
  <2> QED  BY <2>1, <2>2
<1>3. ASSUME NEW b \in Berths, StartDrift(r, b)
      PROVE  Shaped'
  <2> DEFINE q == [NoRequest EXCEPT !.op = "drift", !.berth = b, !.st = "lasers",
                                    !.todo = LasersOf(b)]
  <2>1. q \in Request /\ q.op = "drift" /\ q.st = "lasers" /\ q.berth \in Berths
        /\ q.awaits = NoTask
    BY DEF NoRequest, Request, LasersOf, AllOps, NoTask
  <2>2. DeviceTypeOK' /\ LoopsTyped' /\ phase' = phase /\ SetReq(r, q)
    BY <1>3, <1>a DEF StartDrift, DeviceTypeOK, LoopsTyped
  <2> HIDE DEF q
  <2> QED  BY <1>a, <1>b, <2>1, <2>2 DEF AllOps
<1>4. ASSUME NEW l \in Lasers, Restart(r, l)
      PROVE  Shaped'
  <2> DEFINE q == [NoRequest EXCEPT !.op = "restart", !.berth = BerthOf[l],
                                    !.bid = dev[l].berthingId, !.st = "lasers", !.todo = {l}]
  <2>0. BerthOf[l] \in Berths /\ dev[l].berthingId \in Bids \cup {NoId}
    BY <1>a, BerthModesAssumption DEF DeviceTypeOK, Device
  <2>1. q \in Request /\ q.op = "restart" /\ q.st = "lasers" /\ q.berth \in Berths
        /\ q.awaits = NoTask
    BY <2>0 DEF NoRequest, Request, AllOps, NoTask
  <2>2. DeviceTypeOK' /\ LoopsTyped' /\ phase' = phase /\ SetReq(r, q)
    BY <1>4, <1>a DEF Restart, DeviceTypeOK, LoopsTyped
  <2> HIDE DEF q
  <2> QED  BY <1>a, <1>b, <2>1, <2>2 DEF AllOps
<1>5. ASSUME Shutdown(r)
      PROVE  Shaped'
  <2> DEFINE q == [NoRequest EXCEPT !.op = "shutdown", !.st = "await", !.todo = Lasers]
  <2>1. q \in Request /\ q.op = "shutdown" /\ q.st = "await" /\ q.awaits = NoTask
    BY DEF NoRequest, Request, AllOps, NoTask, NoBerth
  <2>2. task' \in [Tasks -> Loop]
    <3>1. ASSUME NEW k \in Tasks
          PROVE  Cancel(task[k]) \in Loop /\ Missed(task[k]) \in Loop /\ task[k] \in Loop
      BY <1>a, LoopFieldsType DEF LoopsTyped
    <3> QED  BY <1>5, <1>a, <3>1 DEF Shutdown, LoopsTyped
  <2>3. DeviceTypeOK' /\ LoopsTyped' /\ phase' = "stopping" /\ SetReq(r, q)
    BY <1>5, <1>a, <2>2 DEF Shutdown, DeviceTypeOK, LoopsTyped
  <2> HIDE DEF q
  <2> QED  BY <1>b, <2>1, <2>3
<1> QED  BY <1>1, <1>2, <1>3, <1>4, <1>5 DEF Accept

LEMMA RequestStepShaped ==
  ASSUME Shaped, NEW r \in Requests, RequestStep(r)
  PROVE  Shaped'
<1>a. /\ TypeOK /\ DeviceTypeOK /\ LoopsTyped
      /\ phase \in {"running", "stopping", "stopped"}
      /\ req[r] \in Request /\ RequestShape(r)
  BY DEF Shaped, TypeOK, LoopsTyped
<1>b. ASSUME DeviceTypeOK', LoopsTyped', phase' \in {"running", "stopping", "stopped"},
             /\ req' \in [Requests -> Request]
             /\ (\A s \in Requests : RequestShape(s))'
      PROVE  Shaped'
  BY <1>b DEF Shaped, TypeOK, LoopsTyped
<1>c. NoCall \in Call
  BY DEF NoCall, Call, CallOps, Starts, Stages, NoId
<1>1. ASSUME EndStart(r) PROVE Shaped'
  <2> DEFINE started == {l \in req[r].todo : At(r, l, "ok")}
  <2>1. /\ req' \in [Requests -> Request]
        /\ (\A s \in Requests : RequestShape(s))'
    BY <1>1, AnswerShape DEF EndStart
  <2>2. call' \in [Requests -> [Lasers -> Call]]
    BY <1>1, <1>a, <1>c DEF EndStart, DeviceTypeOK
  <2>3. DeviceTypeOK' /\ phase' = phase
    BY <1>1, <1>a, <2>2 DEF EndStart, DeviceTypeOK
  <2>4. started \in SUBSET Lasers /\ req[r].berth \in Berths /\ req[r].bid \in Bids \cup {NoId}
    BY <1>1, <1>a DEF EndStart, Request, RequestShape
  <2>5. \/ UNCHANGED <<task, registered, active>>
        \/ LaunchLoop("berthing", req[r].berth, req[r].bid, started)
    BY <1>1 DEF EndStart
  <2>6. LoopsTyped'
    BY <1>a, <2>4, <2>5, LaunchType DEF LoopsTyped
  <2> QED  BY <1>a, <1>b, <2>1, <2>3, <2>6
<1>2. ASSUME StopResumes(r) PROVE Shaped'
  <2>1. DeviceTypeOK' /\ phase' = phase /\ UNCHANGED task
    BY <1>2, <1>a DEF StopResumes, DeviceTypeOK
  <2>2. CASE registered[req[r].berth] = NoTask
    <3>1. Answer(r) /\ UNCHANGED <<registered, active>>
      BY <1>2, <2>2 DEF StopResumes
    <3>2. LoopsTyped'
      BY <1>a, <2>1, <3>1 DEF LoopsTyped
    <3> QED  BY <1>a, <1>b, <2>1, <3>1, <3>2, AnswerShape
  <2>3. CASE registered[req[r].berth] # NoTask
    <3> DEFINE q == [req[r] EXCEPT !.st = "lasers", !.awaits = NoTask]
    <3>1. /\ SetReq(r, q) /\ Deactivate(req[r].berth)
          /\ req[r].st = "await" /\ req[r].awaits # NoTask
      BY <1>2, <2>3 DEF StopResumes
    <3>2. LoopsTyped'
      BY <1>a, <2>1, <3>1, DeactivateType DEF LoopsTyped
    <3>3. /\ q \in Request /\ q.st = "lasers" /\ q.awaits = NoTask
          /\ q.op = req[r].op /\ q.berth = req[r].berth
      BY <1>a DEF Request
    <3>4. q.op \in {"stop", "stop_drift", "off"} /\ q.berth \in Berths
      BY <1>a, <3>1, <3>3 DEF RequestShape
    <3> HIDE DEF q
    <3>5. /\ req' \in [Requests -> Request]
          /\ (\A s \in Requests : RequestShape(s))'
      BY <3>1, <3>3, <3>4, ShapeOfOne DEF AllOps
    <3> QED  BY <1>a, <1>b, <2>1, <3>2, <3>5
  <2> QED  BY <2>2, <2>3
<1>3. ASSUME EndLasers(r) PROVE Shaped'
  <2>1. /\ req' \in [Requests -> Request]
        /\ (\A s \in Requests : RequestShape(s))'
    BY <1>3, AnswerShape DEF EndLasers
  <2>2. DeviceTypeOK' /\ phase' = phase
    BY <1>3, <1>a DEF EndLasers, DeviceTypeOK
  <2>3. req[r].won \in SUBSET Lasers /\ req[r].berth \in Berths /\ NoId \in Bids \cup {NoId}
    BY <1>3, <1>a DEF EndLasers, Request, RequestShape
  <2>4. \/ UNCHANGED <<task, registered, active>>
        \/ LaunchLoop("drift", req[r].berth, NoId, req[r].won)
    BY <1>3 DEF EndLasers
  <2>5. LoopsTyped'
    BY <1>a, <2>3, <2>4, LaunchType DEF LoopsTyped
  <2> QED  BY <1>a, <1>b, <2>1, <2>2, <2>5
<1>4. ASSUME ShutdownResumes(r) PROVE Shaped'
  <2> DEFINE q == [req[r] EXCEPT !.st = "lasers"]
  <2>1. SetReq(r, q) /\ req[r].op = "shutdown" /\ req[r].awaits = NoTask
    BY <1>4, <1>a DEF ShutdownResumes, RequestShape
  <2>2. /\ q \in Request /\ q.st = "lasers" /\ q.op = req[r].op /\ q.awaits = req[r].awaits
    BY <1>a DEF Request
  <2> HIDE DEF q
  <2>3. /\ req' \in [Requests -> Request]
        /\ (\A s \in Requests : RequestShape(s))'
    BY <2>1, <2>2, ShapeOfOne DEF AllOps
  <2>4. DeviceTypeOK' /\ LoopsTyped' /\ phase' = phase
    BY <1>4, <1>a DEF ShutdownResumes, DeviceTypeOK, LoopsTyped
  <2> QED  BY <1>a, <1>b, <2>3, <2>4
<1>5. ASSUME ShutdownEnds(r) PROVE Shaped'
  <2>1. /\ req' \in [Requests -> Request]
        /\ (\A s \in Requests : RequestShape(s))'
    BY <1>5, AnswerShape DEF ShutdownEnds
  <2>2. DeviceTypeOK' /\ LoopsTyped' /\ phase' = "stopped"
    BY <1>5, <1>a DEF ShutdownEnds, DeviceTypeOK, LoopsTyped
  <2> QED  BY <1>b, <2>1, <2>2
<1>6. ASSUME NEW l \in Lasers, NextLaser(r, l) PROVE Shaped'
  <2>1. req[r].op \in AllOps \ {"start"} /\ req[r].bid \in Bids \cup {NoId}
    BY <1>6, <1>a DEF NextLaser, RequestShape, Request
  <2>2. CallFor(req[r].op) \in CallOps
    BY <2>1 DEF CallFor, CallOps, AllOps, Starts, Stops
  <2>3. NewCall(CallFor(req[r].op), req[r].bid,
                IF req[r].op = "restart" THEN RestartAttempts ELSE 1) \in Call
    BY <2>1, <2>2, LaserOpsAssumption DEF NewCall, Call, Stages
  <2>4. call' \in [Requests -> [Lasers -> Call]]
    BY <1>6, <1>a, <2>3, CallTableType DEF NextLaser
  <2> QED  BY <1>6, <1>a, <2>4 DEF NextLaser, managerVars, Shaped, TypeOK, DeviceTypeOK,
                                   RequestShape
<1>7. ASSUME NEW l \in Lasers, LaserDone(r, l) PROVE Shaped'
  <2> DEFINE q == [req[r] EXCEPT !.todo = @ \ {l},
                                 !.won = IF At(r, l, "ok") THEN @ \cup {l} ELSE @]
  <2>1. SetReq(r, q) /\ req[r].st = "lasers"
    BY <1>7 DEF LaserDone
  <2>2. /\ q \in Request /\ q.st = req[r].st /\ q.op = req[r].op /\ q.awaits = req[r].awaits
        /\ q.berth = req[r].berth
    BY <1>a DEF Request
  <2> HIDE DEF q
  <2>3. /\ req' \in [Requests -> Request]
        /\ (\A s \in Requests : RequestShape(s))'
    BY <1>a, <2>1, <2>2, ShapeOfOne DEF RequestShape
  <2>4. call' \in [Requests -> [Lasers -> Call]]
    BY <1>7, <1>a, <1>c, CallTableType DEF LaserDone
  <2>5. dev' \in [Lasers -> Device]
    <3>1. dev[l] \in Device
      BY <1>a DEF DeviceTypeOK
    <3>2. Disconnected(dev[l]) \in Device
      BY <3>1, DeviceFieldsType
    <3> QED  BY <1>7, <1>a, <3>2, SetDevType DEF LaserDone, DeviceTypeOK
  <2>6. DeviceTypeOK' /\ LoopsTyped' /\ phase' = phase
    BY <1>7, <1>a, <2>4, <2>5 DEF LaserDone, DeviceTypeOK, LoopsTyped
  <2> QED  BY <1>a, <1>b, <2>3, <2>6
<1> QED  BY <1>1, <1>2, <1>3, <1>4, <1>5, <1>6, <1>7 DEF RequestStep

LEMMA LoopStepTyped ==
  ASSUME TypeOK, NEW k \in Tasks, LoopStep(k)
  PROVE  /\ task' \in [Tasks -> Loop]
         /\ UNCHANGED <<deviceVars, req, registered, active, phase>>
<1>1. task[k] \in Loop /\ task[k].lasers \in SUBSET Lasers /\ task[k].left \in SUBSET Lasers
  BY DEF TypeOK, Loop
<1>2. \E t \in Loop : SetTask(k, t)
  BY <1>1, LoopFieldsType DEF LoopStep, LoopBegins, LoopWakes, LoopFetched, LoopCancelled
<1>3. UNCHANGED <<deviceVars, req, registered, active, phase>>
  BY DEF LoopStep, LoopBegins, LoopWakes, LoopFetched, LoopCancelled
<1> QED  BY <1>2, <1>3, LoopFieldsType

LEMMA ShapedStep == Shaped /\ [Next]_vars => Shaped'
<1> SUFFICES ASSUME Shaped, [Next]_vars PROVE Shaped'
  OBVIOUS
<1>a. TypeOK /\ DeviceTypeOK
  BY DEF Shaped, TypeOK
<1>1. ASSUME NEW r \in Requests, NEW l \in Lasers, CallStep(r, l) /\ UNCHANGED managerVars
      PROVE  Shaped'
  <2>1. DeviceTypeOK'
    BY <1>1, <1>a, CallStepType
  <2> QED  BY <1>1, <2>1 DEF managerVars, Shaped, TypeOK, RequestShape
<1>2. ASSUME NEW l \in Lasers, LinkBreaks(l) /\ UNCHANGED managerVars
      PROVE  Shaped'
  <2>1. dev[l] \in Device
    BY <1>a DEF DeviceTypeOK
  <2>2. dev' \in [Lasers -> Device]
    BY <1>2, <1>a, <2>1, DeviceFieldsType, SetDevType DEF LinkBreaks
  <2> QED  BY <1>2, <1>a, <2>2 DEF LinkBreaks, managerVars, Shaped, TypeOK, DeviceTypeOK,
                                   RequestShape
<1>3. ASSUME NEW k \in Tasks, LoopStep(k)
      PROVE  Shaped'
  BY <1>3, <1>a, LoopStepTyped DEF deviceVars, Shaped, TypeOK, DeviceTypeOK, RequestShape
<1>4. CASE UNCHANGED vars
  BY <1>4 DEF vars, Shaped, TypeOK, DeviceTypeOK, RequestShape
<1> QED  BY <1>1, <1>2, <1>3, <1>4, AcceptShaped, RequestStepShaped DEF Next

LEMMA ShapedInit == Init => Shaped
<1> SUFFICES ASSUME Init PROVE Shaped
  OBVIOUS
<1>1. FreshDevice \in Device /\ NoCall \in Call
  BY DEF FreshDevice, Device, NoCall, Call, CallOps, Starts, Stages, NoId
<1>2. NoLoop \in Loop
  BY DEF NoLoop, Loop, NoId, NoBerth
<1> QED  BY <1>1, <1>2, NoRequestShape
         DEF Init, DeviceInit, Shaped, TypeOK, DeviceTypeOK, RequestShape

(* The fields of the manager, of its requests and loops and of its lasers   *)
(* keep the values the code can store there, in every reachable state.      *)
THEOREM TypeCorrect == Spec => []TypeOK
<1>1. Spec => []Shaped
  BY ShapedInit, ShapedStep, PTL DEF Spec
<1>2. Shaped => TypeOK
  BY DEF Shaped
<1> QED  BY <1>1, <1>2, PTL

-----------------------------------------------------------------------------
(* The task dictionary.                                                     *)

(* RegistryRuns is not inductive: a loop is replaced, cancelled or dropped   *)
(* through the entry of one berth, so no other berth may share its task, and *)
(* a request that waits for a task may only be answered because no berth but *)
(* its own can still point at that task.                                     *)
EntriesDiffer ==
  \A b, c \in Berths :
    registered[b] = registered[c] /\ registered[b] # NoTask => b = c

AwaitsOwnBerth ==
  \A r \in Requests, b \in Berths :
    req[r].awaits # NoTask /\ registered[b] = req[r].awaits => b = req[r].berth

Served(b) ==
  \/ Live(registered[b]) /\ task[registered[b]].berth = b
  \/ \E r \in Requests : req[r].awaits = registered[b]

RegistryInv ==
  /\ Shaped
  /\ RegisteredIffActive
  /\ EntriesDiffer
  /\ AwaitsOwnBerth
  /\ RegistryRuns

(* Steps that keep the dictionary, the loops and who waits for whom.        *)
LEMMA RegistryFrame ==
  ASSUME RegistryInv, Shaped', UNCHANGED <<task, registered, active>>,
         phase' = "running" => phase = "running",
         \A r \in Requests : req'[r].awaits = req[r].awaits,
         \A r \in Requests : req[r].awaits # NoTask => req'[r].berth = req[r].berth
  PROVE  RegistryInv'
<1>1. RegisteredIffActive' /\ EntriesDiffer'
  BY DEF RegistryInv, RegisteredIffActive, EntriesDiffer
<1>2. AwaitsOwnBerth'
  BY DEF RegistryInv, AwaitsOwnBerth
<1>3. RegistryRuns'
  BY DEF RegistryInv, RegistryRuns, Live
<1> QED  BY <1>1, <1>2, <1>3 DEF RegistryInv

(* Starting a loop for the berth of a request that is answered.             *)
LEMMA RegistryLaunch ==
  ASSUME RegistryInv, Shaped', NEW r \in Requests, req[r].awaits = NoTask, Answer(r),
         req[r].berth \in Berths, phase' = phase,
         NEW kind, NEW id, NEW S, LaunchLoop(kind, req[r].berth, id, S)
  PROVE  RegistryInv'
<1> DEFINE b == req[r].berth
<1>a. /\ TypeOK /\ RegisteredIffActive /\ EntriesDiffer /\ AwaitsOwnBerth /\ RegistryRuns
      /\ registered \in [Berths -> Tasks \cup {NoTask}] /\ task \in [Tasks -> Loop]
      /\ req \in [Requests -> Request]
  BY DEF RegistryInv, Shaped, TypeOK
<1>1. PICK k \in FreeTasks : /\ task' = [task EXCEPT ![k] = NewLoop(kind, b, id, S)]
                             /\ registered' = [registered EXCEPT ![b] = k]
  BY DEF LaunchLoop, SetTask
<1>2. /\ k \in Tasks /\ k # NoTask
      /\ \A c \in Berths : registered[c] # k
      /\ \A s \in Requests : req[s].awaits # k
  BY BerthModesAssumption DEF FreeTasks, NoTask
<1>3. active' = active \cup {b}
  BY DEF LaunchLoop
<1>4. /\ registered'[b] = k
      /\ \A c \in Berths \ {b} : registered'[c] = registered[c]
  BY <1>1, <1>a
<1>5. \A s \in Requests : req'[s].awaits = req[s].awaits
                          /\ (req[s].awaits # NoTask => req'[s].berth = req[s].berth)
  BY <1>a, NoRequestShape DEF Answer, SetReq
<1>6. RegisteredIffActive'
  BY <1>a, <1>2, <1>3, <1>4 DEF RegisteredIffActive
<1>7. EntriesDiffer'
  BY <1>a, <1>2, <1>4 DEF EntriesDiffer
<1>8. AwaitsOwnBerth'
  BY <1>a, <1>2, <1>4, <1>5 DEF AwaitsOwnBerth
<1>9. RegistryRuns'
  <2> SUFFICES ASSUME phase' = "running", NEW c \in Berths, registered'[c] # NoTask
               PROVE  Served(c)'
    BY DEF RegistryRuns, Served
  <2>1. CASE c = b
    <3>1. task'[k] = NewLoop(kind, b, id, S)
      BY <1>1, <1>2, <1>a
    <3> QED  BY <2>1, <3>1, <1>4 DEF Served, Live, NewLoop
  <2>2. CASE c # b
    <3>1. registered'[c] = registered[c] /\ registered[c] # k /\ registered[c] \in Tasks
      BY <1>2, <1>4, <1>a, <2>2
    <3>2. Served(c)
      BY <1>a, <3>1 DEF RegistryRuns, Served
    <3>3. task'[registered[c]] = task[registered[c]]
      BY <1>1, <1>a, <3>1
    <3> QED  BY <1>5, <3>1, <3>2, <3>3 DEF Served, Live
  <2> QED  BY <2>1, <2>2
<1> QED  BY <1>6, <1>7, <1>8, <1>9 DEF RegistryInv

(* Dropping the entry of the berth of a request that stops waiting, or that *)
(* found nothing to wait for.                                               *)
LEMMA RegistryDeactivate ==
  ASSUME RegistryInv, Shaped', NEW r \in Requests, NEW b \in Berths, Deactivate(b),
         UNCHANGED task, phase' = phase,
         \A s \in Requests \ {r} : req'[s] = req[s],
         req'[r].awaits = NoTask,
         req[r].awaits # NoTask => req[r].berth = b
  PROVE  RegistryInv'
<1>a. /\ RegisteredIffActive /\ EntriesDiffer /\ AwaitsOwnBerth /\ RegistryRuns
      /\ registered \in [Berths -> Tasks \cup {NoTask}]
  BY DEF RegistryInv, Shaped, TypeOK
<1>1. /\ registered'[b] = NoTask
      /\ \A c \in Berths \ {b} : registered'[c] = registered[c]
      /\ active' = active \ {b}
  BY <1>a DEF Deactivate
<1>2. RegisteredIffActive' /\ EntriesDiffer'
  BY <1>a, <1>1 DEF RegisteredIffActive, EntriesDiffer
<1>3. AwaitsOwnBerth'
  BY <1>a, <1>1 DEF AwaitsOwnBerth
<1>4. RegistryRuns'
  <2> SUFFICES ASSUME phase' = "running", NEW c \in Berths, registered'[c] # NoTask
               PROVE  Served(c)'
    BY DEF RegistryRuns, Served
  <2>1. c # b /\ registered'[c] = registered[c]
    BY <1>1
  <2>2. Served(c)
    BY <1>a, <2>1 DEF RegistryRuns, Served
  <2>3. req[r].awaits # registered[c]
    BY <1>a, <2>1 DEF AwaitsOwnBerth
  <2> QED  BY <2>1, <2>2, <2>3 DEF Served, Live
<1> QED  BY <1>2, <1>3, <1>4 DEF RegistryInv

LEMMA RegistryAccept ==
  ASSUME RegistryInv, Shaped', NEW r \in Requests, Accept(r)
  PROVE  RegistryInv'
<1>a. /\ TypeOK /\ RegisteredIffActive /\ EntriesDiffer /\ AwaitsOwnBerth /\ RegistryRuns
      /\ registered \in [Berths -> Tasks \cup {NoTask}] /\ task \in [Tasks -> Loop]
      /\ req \in [Requests -> Request] /\ \A s \in Requests : RequestShape(s)
  BY DEF RegistryInv, Shaped, TypeOK
<1>b. ASSUME NEW q \in Request, SetReq(r, q), Idle(r), q.awaits = NoTask
      PROVE  /\ \A s \in Requests : req'[s].awaits = req[s].awaits
             /\ \A s \in Requests : req[s].awaits # NoTask => req'[s].berth = req[s].berth
             /\ \A s \in Requests \ {r} : req'[s] = req[s]
             /\ req'[r].awaits = NoTask /\ req[r].awaits = NoTask
  <2>1. req[r].awaits = NoTask
    BY <1>a, <1>b DEF Idle, RequestShape
  <2> QED  BY <1>a, <1>b, <2>1 DEF SetReq
<1>1. ASSUME NEW b \in Berths, NEW id \in Bids, StartBerthing(r, b, id)
      PROVE  RegistryInv'
  <2>1. PICK q \in Request : SetReq(r, q) /\ q.awaits = NoTask
    <3> DEFINE q == [NoRequest EXCEPT !.op = "start", !.berth = b, !.bid = id,
                                      !.st = "gather", !.todo = LasersOf(b)]
    <3>1. q \in Request /\ q.awaits = NoTask
      BY DEF NoRequest, Request, LasersOf, AllOps, NoTask
    <3> QED  BY <1>1, <3>1 DEF StartBerthing
  <2> QED  BY <1>1, <1>b, <2>1, RegistryFrame DEF StartBerthing
<1>2. ASSUME NEW b \in Berths, NEW op \in {"stop", "stop_drift", "off"}, BeginStop(r, op, b)
      PROVE  RegistryInv'
  <2> DEFINE now == [NoRequest EXCEPT !.op = op, !.berth = b, !.todo = Targets(op, b)]
  <2>1. CASE registered[b] = NoTask
    <3> DEFINE q == [now EXCEPT !.st = "lasers"]
    <3>1. q \in Request /\ q.awaits = NoTask
      BY DEF NoRequest, Request, Targets, LasersOf, AllOps, NoTask
    <3>2. SetReq(r, q) /\ Deactivate(b) /\ UNCHANGED task /\ phase' = phase /\ Idle(r)
      BY <1>2, <2>1 DEF BeginStop
    <3> HIDE DEF q
    <3> QED  BY <1>b, <3>1, <3>2, RegistryDeactivate
  <2>2. CASE registered[b] # NoTask
    <3> DEFINE k == registered[b]
    <3> DEFINE q == [now EXCEPT !.st = "await", !.awaits = k]
    <3>1. k \in Tasks /\ k # NoTask
      BY <1>a, <2>2
    <3>2. q.berth = b /\ q.awaits = k
      BY DEF NoRequest
    <3>3. /\ SetReq(r, q) /\ Idle(r) /\ UNCHANGED <<registered, active, phase>>
          /\ \E t : SetTask(k, t)
      BY <1>2, <2>2 DEF BeginStop
    <3> HIDE DEF q, k
    <3>4. /\ \A s \in Requests \ {r} : req'[s] = req[s]
          /\ req'[r] = q /\ req[r].awaits = NoTask
      BY <1>a, <3>3 DEF SetReq, Idle, RequestShape
    <3>5. RegisteredIffActive' /\ EntriesDiffer'
      BY <1>a, <3>3 DEF RegisteredIffActive, EntriesDiffer
    <3>6. AwaitsOwnBerth'
      <4> SUFFICES ASSUME NEW s \in Requests, NEW c \in Berths,
                          req'[s].awaits # NoTask, registered'[c] = req'[s].awaits
                   PROVE  c = req'[s].berth
        BY DEF AwaitsOwnBerth
      <4>1. CASE s = r
        BY <1>a, <2>2, <3>2, <3>3, <3>4, <4>1 DEF EntriesDiffer, k
      <4>2. CASE s # r
        BY <1>a, <3>3, <3>4, <4>2 DEF AwaitsOwnBerth
      <4> QED  BY <4>1, <4>2
    <3>7. RegistryRuns'
      <4> SUFFICES ASSUME phase' = "running", NEW c \in Berths, registered'[c] # NoTask
                   PROVE  Served(c)'
        BY DEF RegistryRuns, Served
      <4>1. CASE registered[c] = k
        BY <3>2, <3>3, <3>4, <4>1 DEF Served
      <4>2. CASE registered[c] # k
        <5>1. Served(c) /\ registered'[c] = registered[c]
          BY <1>a, <3>3 DEF RegistryRuns, Served
        <5>2. registered[c] \in Tasks
          BY <1>a, <3>3
        <5>3. task'[registered[c]] = task[registered[c]]
          BY <1>a, <3>3, <4>2, <5>2 DEF SetTask
        <5>4. ASSUME NEW s \in Requests, req[s].awaits = registered[c]
              PROVE  req'[s].awaits = registered[c]
          BY <3>3, <3>4, <5>4
        <5> QED  BY <5>1, <5>3, <5>4 DEF Served, Live
      <4> QED  BY <4>1, <4>2
    <3> QED  BY <3>5, <3>6, <3>7 DEF RegistryInv
  <2> QED  BY <2>1, <2>2
<1>3. ASSUME NEW b \in Berths, StartDrift(r, b)
      PROVE  RegistryInv'
  <2>1. PICK q \in Request : SetReq(r, q) /\ q.awaits = NoTask
    <3> DEFINE q == [NoRequest EXCEPT !.op = "drift", !.berth = b, !.st = "lasers",
                                      !.todo = LasersOf(b)]
    <3>1. q \in Request /\ q.awaits = NoTask
      BY DEF NoRequest, Request, LasersOf, AllOps, NoTask
    <3> QED  BY <1>3, <3>1 DEF StartDrift
  <2> QED  BY <1>3, <1>b, <2>1, RegistryFrame DEF StartDrift
<1>4. ASSUME NEW l \in Lasers, Restart(r, l)
      PROVE  RegistryInv'
  <2>0. BerthOf[l] \in Berths /\ dev[l].berthingId \in Bids \cup {NoId}
    BY <1>a, BerthModesAssumption DEF TypeOK, DeviceTypeOK, Device
  <2>1. PICK q \in Request : SetReq(r, q) /\ q.awaits = NoTask
    <3> DEFINE q == [NoRequest EXCEPT !.op = "restart", !.berth = BerthOf[l],
                                      !.bid = dev[l].berthingId, !.st = "lasers",
                                      !.todo = {l}]
    <3>1. q \in Request /\ q.awaits = NoTask
      BY <2>0 DEF NoRequest, Request, AllOps, NoTask
    <3> QED  BY <1>4, <3>1 DEF Restart
  <2> QED  BY <1>4, <1>b, <2>1, RegistryFrame DEF Restart
<1>5. ASSUME Shutdown(r)
      PROVE  RegistryInv'
  <2> DEFINE q == [NoRequest EXCEPT !.op = "shutdown", !.st = "await", !.todo = Lasers]
  <2>1. SetReq(r, q) /\ Idle(r) /\ UNCHANGED <<registered, active>> /\ phase' = "stopping"
    BY <1>5 DEF Shutdown, Quiet
  <2>2. q \in Request /\ q.awaits = NoTask
    BY DEF NoRequest, Request, AllOps, NoTask, NoBerth
  <2>3. RegisteredIffActive' /\ EntriesDiffer' /\ RegistryRuns'
    BY <1>a, <2>1 DEF RegisteredIffActive, EntriesDiffer, RegistryRuns
  <2> HIDE DEF q
  <2>4. AwaitsOwnBerth'
    BY <1>a, <1>b, <2>1, <2>2 DEF AwaitsOwnBerth
  <2> QED  BY <2>3, <2>4 DEF RegistryInv
<1> QED  BY <1>1, <1>2, <1>3, <1>4, <1>5 DEF Accept

LEMMA RegistryRequestStep ==
  ASSUME RegistryInv, Shaped', NEW r \in Requests, RequestStep(r)
  PROVE  RegistryInv'
<1>a. /\ TypeOK /\ RegisteredIffActive /\ EntriesDiffer /\ AwaitsOwnBerth /\ RegistryRuns
      /\ registered \in [Berths -> Tasks \cup {NoTask}] /\ task \in [Tasks -> Loop]
      /\ req \in [Requests -> Request] /\ req[r] \in Request /\ RequestShape(r)
  BY DEF RegistryInv, Shaped, TypeOK
<1>b. ASSUME NEW q, SetReq(r, q), q.awaits = req[r].awaits, q.berth = req[r].berth
      PROVE  /\ \A s \in Requests : req'[s].awaits = req[s].awaits
             /\ \A s \in Requests : req[s].awaits # NoTask => req'[s].berth = req[s].berth
  BY <1>a, <1>b DEF SetReq
<1>c. ASSUME Answer(r), req[r].awaits = NoTask
      PROVE  /\ \A s \in Requests : req'[s].awaits = req[s].awaits
             /\ \A s \in Requests : req[s].awaits # NoTask => req'[s].berth = req[s].berth
  BY <1>a, <1>c, NoRequestShape DEF Answer, SetReq
<1>1. CASE EndStart(r)
  <2> DEFINE started == {l \in req[r].todo : At(r, l, "ok")}
  <2>1. /\ Answer(r) /\ phase' = phase /\ req[r].awaits = NoTask /\ req[r].berth \in Berths
        /\ \/ UNCHANGED <<task, registered, active>>
           \/ LaunchLoop("berthing", req[r].berth, req[r].bid, started)
    BY <1>1, <1>a DEF EndStart, RequestShape
  <2>2. CASE UNCHANGED <<task, registered, active>>
    BY <2>1, <2>2, <1>c, RegistryFrame
  <2>3. CASE LaunchLoop("berthing", req[r].berth, req[r].bid, started)
    BY <2>1, <2>3, RegistryLaunch
  <2> QED  BY <2>1, <2>2, <2>3
<1>2. CASE StopResumes(r)
  <2> DEFINE b == req[r].berth
  <2>1. /\ req[r].st = "await" /\ req[r].awaits # NoTask /\ task[req[r].awaits].st = "done"
        /\ UNCHANGED task /\ phase' = phase
    BY <1>2 DEF StopResumes
  <2>2. b \in Berths
    BY <1>a, <2>1 DEF RequestShape
  <2>3. CASE registered[b] = NoTask
    <3>1. Answer(r) /\ UNCHANGED <<registered, active>>
      BY <1>2, <2>3 DEF StopResumes
    <3>2. /\ \A s \in Requests \ {r} : req'[s] = req[s]
          /\ req'[r].awaits = NoTask
      BY <1>a, <3>1, NoRequestShape DEF Answer, SetReq
    <3>3. registered = [registered EXCEPT ![b] = NoTask] /\ active = active \ {b}
      BY <1>a, <2>2, <2>3 DEF RegisteredIffActive
    <3>4. Deactivate(b)
      BY <3>1, <3>3 DEF Deactivate
    <3> QED  BY <2>1, <2>2, <3>2, <3>4, RegistryDeactivate
  <2>4. CASE registered[b] # NoTask
    <3> DEFINE q == [req[r] EXCEPT !.st = "lasers", !.awaits = NoTask]
    <3>1. SetReq(r, q) /\ Deactivate(b)
      BY <1>2, <2>4 DEF StopResumes
    <3>2. q.awaits = NoTask
      BY <1>a DEF Request
    <3> HIDE DEF q
    <3>3. /\ \A s \in Requests \ {r} : req'[s] = req[s]
          /\ req'[r].awaits = NoTask
      BY <1>a, <3>1, <3>2 DEF SetReq
    <3> QED  BY <2>1, <2>2, <3>1, <3>3, RegistryDeactivate
  <2> QED  BY <2>3, <2>4
<1>3. CASE EndLasers(r)
  <2>1. /\ Answer(r) /\ phase' = phase /\ req[r].awaits = NoTask /\ req[r].berth \in Berths
        /\ \/ UNCHANGED <<task, registered, active>>
           \/ LaunchLoop("drift", req[r].berth, NoId, req[r].won)
    BY <1>3, <1>a DEF EndLasers, RequestShape
  <2>2. CASE UNCHANGED <<task, registered, active>>
    BY <2>1, <2>2, <1>c, RegistryFrame
  <2>3. CASE LaunchLoop("drift", req[r].berth, NoId, req[r].won)
    BY <2>1, <2>3, RegistryLaunch
  <2> QED  BY <2>1, <2>2, <2>3
<1>4. CASE ShutdownResumes(r)
  <2> DEFINE q == [req[r] EXCEPT !.st = "lasers"]
  <2>1. /\ SetReq(r, q) /\ q.awaits = req[r].awaits /\ q.berth = req[r].berth
    BY <1>4, <1>a DEF ShutdownResumes, Request
  <2> HIDE DEF q
  <2> QED  BY <1>4, <1>b, <2>1, RegistryFrame DEF ShutdownResumes
<1>5. CASE ShutdownEnds(r)
  <2>1. /\ Answer(r) /\ phase' = "stopped" /\ active' = {}
        /\ registered' = [b \in Berths |-> NoTask]
    BY <1>5 DEF ShutdownEnds
  <2>2. RegisteredIffActive' /\ EntriesDiffer' /\ RegistryRuns'
    BY <2>1 DEF RegisteredIffActive, EntriesDiffer, RegistryRuns
  <2>3. AwaitsOwnBerth'
    BY <2>1 DEF AwaitsOwnBerth
  <2> QED  BY <2>2, <2>3 DEF RegistryInv
<1>6. ASSUME NEW l \in Lasers, NextLaser(r, l) PROVE RegistryInv'
  BY <1>6, RegistryFrame DEF NextLaser, managerVars
<1>7. ASSUME NEW l \in Lasers, LaserDone(r, l) PROVE RegistryInv'
  <2> DEFINE q == [req[r] EXCEPT !.todo = @ \ {l},
                                 !.won = IF At(r, l, "ok") THEN @ \cup {l} ELSE @]
  <2>1. /\ SetReq(r, q) /\ q.awaits = req[r].awaits /\ q.berth = req[r].berth
    BY <1>7, <1>a DEF LaserDone, Request
  <2> HIDE DEF q
  <2> QED  BY <1>7, <1>b, <2>1, RegistryFrame DEF LaserDone
<1> QED  BY <1>1, <1>2, <1>3, <1>4, <1>5, <1>6, <1>7 DEF RequestStep

(* A live loop of an active berth stays live and keeps its berth while the  *)
(* service runs.                                                            *)
LEMMA LoopStaysLive ==
  ASSUME TypeOK, NEW k \in Tasks, LoopStep(k), Live(k), phase = "running",
         task[k].berth \in active
  PROVE  Live(k)' /\ task'[k].berth = task[k].berth
<1> DEFINE Good(t) == t.st \in {"new", "sleep", "fetch"} /\ t.berth = task[k].berth
<1>1. task[k] \in Loop /\ task \in [Tasks -> Loop]
  BY DEF TypeOK
<1>2. Good(AtHead(task[k]))
  BY <1>1 DEF AtHead, Loop
<1>3. ASSUME NEW rest, NEW t \in Visited(task[k], rest)
      PROVE  Good(t)
  <2> DEFINE S == {l \in rest : InMode(task[k].kind, l)}
  <2>1. CASE S = {}
    BY <1>2, <1>3, <2>1 DEF Visited
  <2>2. CASE S # {}
    <3>1. PICK l : t = [task[k] EXCEPT !.st = "fetch", !.cur = l, !.left = {x \in rest : x > l}]
      BY <1>3, <2>2 DEF Visited
    <3> QED  BY <1>1, <3>1 DEF Loop
  <2> QED  BY <2>1, <2>2
<1>4. \E t : SetTask(k, t) /\ Good(t)
  BY <1>2, <1>3 DEF LoopStep, LoopBegins, LoopWakes, LoopFetched, LoopCancelled, Live
<1> QED  BY <1>1, <1>4 DEF SetTask, Live

LEMMA RegistryLoopStep ==
  ASSUME RegistryInv, Shaped', NEW k \in Tasks, LoopStep(k)
  PROVE  RegistryInv'
<1>a. /\ TypeOK /\ RegisteredIffActive /\ EntriesDiffer /\ AwaitsOwnBerth /\ RegistryRuns
      /\ task \in [Tasks -> Loop]
  BY DEF RegistryInv, Shaped, TypeOK
<1>1. UNCHANGED <<req, registered, active, phase>>
  BY <1>a, LoopStepTyped
<1>2. RegisteredIffActive' /\ EntriesDiffer' /\ AwaitsOwnBerth'
  BY <1>a, <1>1 DEF RegisteredIffActive, EntriesDiffer, AwaitsOwnBerth
<1>3. \E t : SetTask(k, t)
  BY DEF LoopStep, LoopBegins, LoopWakes, LoopFetched, LoopCancelled
<1>4. \A j \in Tasks \ {k} : task'[j] = task[j]
  BY <1>a, <1>3 DEF SetTask
<1>5. RegistryRuns'
  <2> SUFFICES ASSUME phase' = "running", NEW b \in Berths, registered'[b] # NoTask
               PROVE  Served(b)'
    BY DEF RegistryRuns, Served
  <2>1. Served(b) /\ registered'[b] = registered[b] /\ b \in active /\ registered[b] \in Tasks
    BY <1>a, <1>1 DEF RegistryRuns, Served, RegisteredIffActive, TypeOK
  <2>2. CASE \E r \in Requests : req[r].awaits = registered[b]
    BY <1>1, <2>1, <2>2 DEF Served
  <2>3. CASE Live(registered[b]) /\ task[registered[b]].berth = b
    <3>1. CASE registered[b] = k
      BY <1>a, <1>1, <2>1, <2>3, <3>1, LoopStaysLive DEF Served
    <3>2. CASE registered[b] # k
      BY <1>4, <2>1, <2>3, <3>2 DEF Served, Live
    <3> QED  BY <3>1, <3>2
  <2> QED  BY <2>1, <2>2, <2>3 DEF Served
<1> QED  BY <1>2, <1>5 DEF RegistryInv

LEMMA RegistryInit == Init => RegistryInv
<1> SUFFICES ASSUME Init PROVE RegistryInv
  OBVIOUS
<1>1. Shaped
  BY ShapedInit
<1>2. \A b \in Berths : registered[b] = NoTask
  BY DEF Init
<1>3. active = {} /\ \A r \in Requests : req[r].awaits = NoTask
  BY NoRequestShape DEF Init
<1> QED  BY <1>1, <1>2, <1>3
         DEF RegistryInv, RegisteredIffActive, EntriesDiffer, AwaitsOwnBerth, RegistryRuns

LEMMA RegistryStep == RegistryInv /\ [Next]_vars => RegistryInv'
<1> SUFFICES ASSUME RegistryInv, [Next]_vars PROVE RegistryInv'
  OBVIOUS
<1>1. Shaped'
  BY ShapedStep DEF RegistryInv
<1>2. ASSUME UNCHANGED managerVars PROVE RegistryInv'
  BY <1>1, <1>2, RegistryFrame DEF managerVars
<1>3. ASSUME UNCHANGED vars PROVE RegistryInv'
  BY <1>2, <1>3 DEF vars, managerVars
<1> QED  BY <1>1, <1>2, <1>3, RegistryAccept, RegistryRequestStep, RegistryLoopStep DEF Next

(* berth_sync_tasks and active_berths name the same berths at every await of *)
(* every handler.                                                           *)
THEOREM RegistryAgrees == Spec => []RegisteredIffActive
<1>1. Spec => []RegistryInv
  BY RegistryInit, RegistryStep, PTL DEF Spec
<1>2. RegistryInv => RegisteredIffActive
  BY DEF RegistryInv
<1> QED  BY <1>1, <1>2, PTL

(* While the service runs, the dictionary never points at a dead loop, or at *)
(* the loop of another berth, unless a request is waiting to remove it.      *)
THEOREM RegistryNeverStale == Spec => []RegistryRuns
<1>1. Spec => []RegistryInv
  BY RegistryInit, RegistryStep, PTL DEF Spec
<1>2. RegistryInv => RegistryRuns
  BY DEF RegistryInv
<1> QED  BY <1>1, <1>2, PTL

-----------------------------------------------------------------------------
(* The device lock.                                                         *)

(* What a step of a laser coroutine does to its call and to the lock: it    *)
(* moves the call from one await to another, and takes or gives back the    *)
(* lock exactly when it enters or leaves the wait for the VT answer.        *)
LEMMA CallStepEffect ==
  ASSUME TypeOK, NEW r \in Requests, NEW l \in Lasers, CallStep(r, l)
  PROVE  /\ call[r][l].st # "idle"
         /\ \E c \in Call :
              /\ SetCall(r, l, c)
              /\ c.st # "idle"
              /\ c.op \in {call[r][l].op, "none"}
              /\ c.op # "none" => c.bid = call[r][l].bid
              /\ \/ UNCHANGED lock /\ call[r][l].st # "vt" /\ c.st # "vt"
                 \/ /\ call[r][l].st # "vt" /\ c.st = "vt" /\ lock[l] = {}
                    /\ lock' = [lock EXCEPT ![l] = @ \cup {r}]
                 \/ /\ call[r][l].st = "vt" /\ c.st # "vt"
                    /\ lock' = [lock EXCEPT ![l] = @ \ {r}]
<1> DEFINE a == call[r][l]
<1> DEFINE Moved(st) == [a EXCEPT !.st = st]
<1> DEFINE Ended(st) == [NoCall EXCEPT !.st = st]
<1> DEFINE Kept(c) == /\ c \in Call /\ c.st \notin {"idle", "vt"} /\ c.op \in {a.op, "none"}
                      /\ c.op # "none" => c.bid = a.bid
<1> DEFINE Retried == [a EXCEPT !.st = "begin", !.outer = @ - 1, !.inner = ModeAttempts]
<1> DEFINE Again == [a EXCEPT !.st = "settling", !.inner = @ - 1]
<1>a. a \in Call
  BY DEF TypeOK, DeviceTypeOK
<1>b. \A st \in Stages \ {"idle", "vt"} : Kept(Moved(st)) /\ Kept(Ended(st))
  BY <1>a DEF Call, NoCall, NoId, CallOps
<1>c. Moved("vt") \in Call /\ Moved("vt").st = "vt" /\ Moved("vt").op = a.op
      /\ Moved("vt").bid = a.bid
  BY <1>a DEF Call, Stages
<1>d. a.outer > 1 => Kept(Retried)
  <2> SUFFICES ASSUME a.outer > 1 PROVE Kept(Retried)
    OBVIOUS
  <2>1. a.outer - 1 \in Nat
    BY <1>a DEF Call
  <2> QED  BY <1>a, <2>1, LaserOpsAssumption DEF Call, Stages
<1>e. a.inner > 1 => Kept(Again)
  <2> SUFFICES ASSUME a.inner > 1 PROVE Kept(Again)
    OBVIOUS
  <2>1. a.inner - 1 \in Nat
    BY <1>a DEF Call
  <2> QED  BY <1>a, <2>1 DEF Call, Stages
<1>f. RetryOrFail(r, l) => \E c \in Call : SetCall(r, l, c) /\ Kept(c)
  BY <1>b, <1>d DEF RetryOrFail, Return, Stages
<1>g. \A st \in Stages \ {"idle", "vt"} :
        Go(r, l, st) \/ Return(r, l, st) => \E c \in Call : SetCall(r, l, c) /\ Kept(c)
  BY <1>b DEF Go, Return
<1>h. Stages = {"idle", "begin", "connecting", "ready", "escaping", "settling",
                "vt", "flow", "verify", "drift_verify", "undo", "ok", "failed"}
  BY DEF Stages
<1> HIDE DEF Kept, Moved, Ended, Retried, Again
<1>1. CASE \/ Connect(r, l)      \/ ConnectFails(r, l)    \/ CheckContinuous(r, l)
           \/ SkipEscape(r, l)   \/ EscapeSent(r, l)      \/ EscapeBreaks(r, l)
           \/ EscapeRaises(r, l) \/ FinishStop(r, l)      \/ FinishOff(r, l)
           \/ FinishStopDrift(r, l)
           \/ Flow(r, l)         \/ BerthingStarted(r, l) \/ DriftVerify(r, l)
           \/ NoData(r, l)       \/ DriftStarted(r, l)    \/ DriftNoData(r, l)
  <2>1. a.st \notin {"idle", "vt"} /\ UNCHANGED lock
    BY <1>1 DEF At, Ready, AtEscape, Connect, ConnectFails, CheckContinuous, SkipEscape,
                EscapeSent, EscapeBreaks, EscapeRaises, FinishStop, FinishOff,
                FinishStopDrift, Flow, BerthingStarted, DriftVerify, NoData, DriftStarted,
                DriftNoData
  <2>2. \/ RetryOrFail(r, l)
        \/ \E st \in Stages \ {"idle", "vt"} : Go(r, l, st) \/ Return(r, l, st)
    BY <1>1, <1>h DEF Connect, ConnectFails, CheckContinuous, SkipEscape,
                EscapeSent, EscapeBreaks, EscapeRaises, FinishStop, FinishOff,
                FinishStopDrift, Flow, BerthingStarted, DriftVerify, NoData, DriftStarted,
                DriftNoData
  <2>3. PICK c \in Call : SetCall(r, l, c) /\ Kept(c)
    BY <1>f, <1>g, <2>2
  <2> QED  BY <2>1, <2>3 DEF Kept
<1>2. CASE SendVT(r, l)
  <2>1. a.st = "settling" /\ lock[l] = {}
    BY <1>2 DEF SendVT, At, Free
  <2>2. CASE Go(r, l, "vt") /\ lock' = [lock EXCEPT ![l] = @ \cup {r}]
    BY <2>1, <2>2, <1>c DEF Go, Moved
  <2>3. CASE Go(r, l, "undo") /\ UNCHANGED lock
    <3>1. PICK c \in Call : SetCall(r, l, c) /\ Kept(c)
      BY <2>3, <1>g, <1>h
    <3> QED  BY <2>1, <2>3, <3>1 DEF Kept
  <2> QED  BY <1>2, <2>2, <2>3 DEF SendVT
<1>3. CASE VTAnswered(r, l) \/ VTFails(r, l)
  <2>1. /\ a.st = "vt" /\ lock' = [lock EXCEPT ![l] = @ \ {r}]
        /\ Go(r, l, "flow") \/ Go(r, l, "undo")
    BY <1>3 DEF VTAnswered, VTFails, At
  <2>2. PICK c \in Call : SetCall(r, l, c) /\ Kept(c)
    BY <2>1, <1>g, <1>h
  <2> QED  BY <2>1, <2>2 DEF Kept
<1>4. CASE Undo(r, l)
  <2>1. a.st = "undo" /\ UNCHANGED lock
    BY <1>4 DEF Undo, At
  <2>2. PICK c \in Call : SetCall(r, l, c) /\ Kept(c)
    <3>1. CASE a.inner > 1
      BY <1>4, <1>e, <3>1 DEF Undo, Kept, Again
    <3>2. CASE ~(a.inner > 1)
      BY <1>4, <1>f, <3>2 DEF Undo
    <3> QED  BY <3>1, <3>2
  <2> QED  BY <2>1, <2>2 DEF Kept
<1> QED  BY <1>1, <1>2, <1>3, <1>4 DEF CallStep

(* OneCommandPerDevice needs to know which calls a request can still have:   *)
(* a request that forgot a call waiting for its answer would forget a lock.  *)
CallsOwned(r) ==
  /\ req[r].st \in {"idle", "await"} => \A l \in Lasers : call[r][l].st = "idle"
  /\ req[r].st = "gather" => \A l \in Lasers \ req[r].todo : call[r][l].st = "idle"
  /\ req[r].st = "lasers" =>
       \A l \in Lasers : call[r][l].st # "idle" => IsFirst(l, req[r].todo)

LockInv ==
  /\ Shaped
  /\ \A r \in Requests : CallsOwned(r)
  /\ OneCommandPerDevice

(* Steps that touch no call and no lock, and of the requests at most one    *)
(* that has no call running.                                                *)
LEMMA LockFrame ==
  ASSUME LockInv, Shaped', NEW r \in Requests, UNCHANGED <<call, lock>>,
         \A s \in Requests \ {r} : req'[s] = req[s],
         req'[r] # req[r] => \A l \in Lasers : call[r][l].st = "idle"
  PROVE  LockInv'
<1>1. OneCommandPerDevice'
  BY DEF LockInv, OneCommandPerDevice, At
<1>2. ASSUME NEW s \in Requests PROVE CallsOwned(s)'
  BY DEF LockInv, CallsOwned, IsFirst
<1> QED  BY <1>1, <1>2 DEF LockInv

(* Steps that end or begin calls of one request, none of them at "vt".      *)
LEMMA LockCalls ==
  ASSUME LockInv, Shaped', NEW r \in Requests, UNCHANGED lock,
         \A s \in Requests \ {r} : call'[s] = call[s] /\ req'[s] = req[s],
         \A l \in Lasers : call[r][l].st # "vt" /\ call'[r][l].st # "vt",
         CallsOwned(r)'
  PROVE  LockInv'
<1>1. OneCommandPerDevice'
  <2> SUFFICES ASSUME NEW l \in Lasers, NEW s \in Requests
               PROVE  s \in lock[l] <=> call'[s][l].st = "vt"
    BY DEF LockInv, OneCommandPerDevice, At
  <2>1. s \in lock[l] <=> call[s][l].st = "vt"
    BY DEF LockInv, OneCommandPerDevice, At
  <2>2. CASE s = r
    BY <2>1, <2>2
  <2>3. CASE s # r
    BY <2>1, <2>3
  <2> QED  BY <2>2, <2>3
<1>2. ASSUME NEW s \in Requests PROVE CallsOwned(s)'
  <2>1. CASE s = r
    BY <2>1
  <2>2. CASE s # r
    BY <2>2 DEF LockInv, CallsOwned, IsFirst
  <2> QED  BY <2>1, <2>2
<1> QED  BY <1>1, <1>2 DEF LockInv

LEMMA LockCallStep ==
  ASSUME LockInv, Shaped', NEW r \in Requests, NEW l \in Lasers, CallStep(r, l),
         UNCHANGED managerVars
  PROVE  LockInv'
<1>a. TypeOK /\ call \in [Requests -> [Lasers -> Call]] /\ lock \in [Lasers -> SUBSET Requests]
  BY DEF LockInv, Shaped, TypeOK, DeviceTypeOK
<1>1. call[r][l].st # "idle"
  BY <1>a, CallStepEffect
<1>2. PICK c \in Call :
        /\ SetCall(r, l, c) /\ c.st # "idle"
        /\ \/ UNCHANGED lock /\ call[r][l].st # "vt" /\ c.st # "vt"
           \/ /\ call[r][l].st # "vt" /\ c.st = "vt" /\ lock[l] = {}
              /\ lock' = [lock EXCEPT ![l] = @ \cup {r}]
           \/ /\ call[r][l].st = "vt" /\ c.st # "vt"
              /\ lock' = [lock EXCEPT ![l] = @ \ {r}]
  BY <1>a, CallStepEffect
<1>3. /\ call'[r][l] = c
      /\ \A s \in Requests, m \in Lasers : s # r \/ m # l => call'[s][m] = call[s][m]
  BY <1>a, <1>2 DEF SetCall
<1>4. ASSUME NEW s \in Requests PROVE CallsOwned(s)'
  <2>1. req' = req /\ CallsOwned(s)
    BY DEF managerVars, LockInv
  <2>2. \A m \in Lasers : call[s][m].st = "idle" <=> call'[s][m].st = "idle"
    BY <1>1, <1>2, <1>3
  <2> QED  BY <2>1, <2>2 DEF CallsOwned, IsFirst
<1>5. OneCommandPerDevice'
  <2>0. \A m \in Lasers, s \in Requests : s \in lock[m] <=> call[s][m].st = "vt"
    BY DEF LockInv, OneCommandPerDevice, At
  <2>1. \A m \in Lasers : \A s1, s2 \in lock[m] : s1 = s2
    BY DEF LockInv, OneCommandPerDevice
  <2>2. \A m \in Lasers, s \in Requests : s \in lock'[m] <=> call'[s][m].st = "vt"
    BY <1>a, <1>2, <1>3, <2>0
  <2>3. \A m \in Lasers : \A s1, s2 \in lock'[m] : s1 = s2
    BY <1>a, <1>2, <2>1
  <2> QED  BY <2>2, <2>3 DEF OneCommandPerDevice, At
<1> QED  BY <1>4, <1>5 DEF LockInv

LEMMA LockRequest ==
  ASSUME LockInv, Shaped', NEW r \in Requests, Accept(r) \/ RequestStep(r)
  PROVE  LockInv'
<1>a. /\ TypeOK /\ call \in [Requests -> [Lasers -> Call]]
      /\ req \in [Requests -> Request] /\ req[r] \in Request /\ RequestShape(r)
      /\ CallsOwned(r)
  BY DEF LockInv, Shaped, TypeOK, DeviceTypeOK
<1>b. Idle(r) => \A l \in Lasers : call[r][l].st = "idle"
  BY <1>a DEF Idle, CallsOwned
<1>c. ASSUME NEW q, SetReq(r, q)
      PROVE  req'[r] = q /\ \A s \in Requests \ {r} : req'[s] = req[s]
  BY <1>a, <1>c DEF SetReq
<1>1. ASSUME NEW b \in Berths, NEW id \in Bids, StartBerthing(r, b, id)
      PROVE  LockInv'
  <2>1. /\ req'[r].st = "gather" /\ req'[r].todo = LasersOf(b)
        /\ \A s \in Requests \ {r} : req'[s] = req[s]
    BY <1>1, <1>a DEF StartBerthing, SetReq, NoRequest
  <2>2. /\ UNCHANGED lock /\ \A s \in Requests \ {r} : call'[s] = call[s]
        /\ \A l \in Lasers : call'[r][l] = IF l \in LasersOf(b)
                                           THEN NewCall("start_berthing", id, StartAttempts)
                                           ELSE NoCall
    BY <1>1, <1>a DEF StartBerthing
  <2>3. \A l \in Lasers : /\ call[r][l].st # "vt" /\ call'[r][l].st # "vt"
                          /\ l \notin LasersOf(b) => call'[r][l].st = "idle"
    BY <1>1, <1>b, <2>2 DEF StartBerthing, NewCall, NoCall
  <2>4. CallsOwned(r)'
    BY <2>1, <2>3 DEF CallsOwned
  <2> QED  BY <2>1, <2>2, <2>3, <2>4, LockCalls
<1>2. ASSUME NEW b \in Berths, NEW op \in {"stop", "stop_drift", "off"}, BeginStop(r, op, b)
      PROVE  LockInv'
  <2>1. Idle(r) /\ UNCHANGED <<call, lock>> /\ \E q : SetReq(r, q)
    BY <1>2 DEF BeginStop
  <2> QED  BY <1>b, <1>c, <2>1, LockFrame
<1>3. ASSUME NEW b \in Berths, StartDrift(r, b)
      PROVE  LockInv'
  BY <1>3, <1>b, <1>c, LockFrame DEF StartDrift
<1>4. ASSUME NEW l \in Lasers, Restart(r, l)
      PROVE  LockInv'
  BY <1>4, <1>b, <1>c, LockFrame DEF Restart
<1>5. ASSUME Shutdown(r)
      PROVE  LockInv'
  BY <1>5, <1>b, <1>c, LockFrame DEF Shutdown, Quiet
<1>6. ASSUME EndStart(r)
      PROVE  LockInv'
  <2>1. \A l \in Lasers : call[r][l].st # "vt"
    BY <1>6, <1>a DEF EndStart, CallsOwned, Returned
  <2>2. /\ \A l \in Lasers : call'[r][l] = NoCall
        /\ \A s \in Requests \ {r} : call'[s] = call[s]
    BY <1>6, <1>a DEF EndStart
  <2>3. UNCHANGED lock /\ Answer(r)
    BY <1>6 DEF EndStart
  <2>4. req'[r] = NoRequest /\ \A s \in Requests \ {r} : req'[s] = req[s]
    BY <1>c, <2>3 DEF Answer
  <2>5. CallsOwned(r)'
    BY <2>2, <2>4, NoRequestShape DEF CallsOwned, NoCall
  <2> QED  BY <2>1, <2>2, <2>3, <2>4, <2>5, LockCalls DEF NoCall
<1>7. ASSUME StopResumes(r)
      PROVE  LockInv'
  <2>1. /\ req[r].st = "await" /\ UNCHANGED <<call, lock>>
        /\ \E q : SetReq(r, q)
    BY <1>7 DEF StopResumes, Answer
  <2>2. \A l \in Lasers : call[r][l].st = "idle"
    BY <1>a, <2>1 DEF CallsOwned
  <2> QED  BY <1>c, <2>1, <2>2, LockFrame
<1>8. ASSUME EndLasers(r) \/ ShutdownEnds(r)
      PROVE  LockInv'
  <2>1. /\ req[r].st = "lasers" /\ req[r].todo = {} /\ UNCHANGED <<call, lock>>
        /\ \E q : SetReq(r, q)
    BY <1>8 DEF EndLasers, ShutdownEnds, Answer
  <2>2. \A l \in Lasers : call[r][l].st = "idle"
    BY <1>a, <2>1 DEF CallsOwned, IsFirst
  <2> QED  BY <1>c, <2>1, <2>2, LockFrame
<1>9. ASSUME ShutdownResumes(r)
      PROVE  LockInv'
  <2>1. /\ req[r].st = "await" /\ UNCHANGED <<call, lock>>
        /\ \E q : SetReq(r, q)
    BY <1>9 DEF ShutdownResumes
  <2>2. \A l \in Lasers : call[r][l].st = "idle"
    BY <1>a, <2>1 DEF CallsOwned
  <2> QED  BY <1>c, <2>1, <2>2, LockFrame
<1>10. ASSUME NEW l \in Lasers, NextLaser(r, l)
       PROVE  LockInv'
  <2>1. /\ req[r].st = "lasers" /\ IsFirst(l, req[r].todo) /\ req' = req /\ UNCHANGED lock
        /\ call[r][l].st = "idle"
    BY <1>10 DEF NextLaser, managerVars, At
  <2>2. PICK c : SetCall(r, l, c) /\ c.st = "begin"
    BY <1>10 DEF NextLaser, NewCall
  <2>3. /\ call'[r][l] = c
        /\ \A m \in Lasers \ {l} : call'[r][m] = call[r][m]
        /\ \A s \in Requests \ {r} : call'[s] = call[s]
    BY <1>a, <2>2 DEF SetCall
  <2>4. \A m \in Lasers \ {l} : call[r][m].st = "idle"
    <3> SUFFICES ASSUME NEW m \in Lasers \ {l}, call[r][m].st # "idle" PROVE FALSE
      OBVIOUS
    <3>1. IsFirst(m, req[r].todo)
      BY <1>a, <2>1 DEF CallsOwned
    <3> QED  BY <2>1, <3>1, LaserOpsAssumption DEF IsFirst
  <2>5. CallsOwned(r)'
    BY <2>1, <2>3, <2>4 DEF CallsOwned, IsFirst
  <2> QED  BY <2>1, <2>2, <2>3, <2>4, <2>5, LockCalls
<1>11. ASSUME NEW l \in Lasers, LaserDone(r, l)
       PROVE  LockInv'
  <2>1. /\ req[r].st = "lasers" /\ IsFirst(l, req[r].todo) /\ UNCHANGED lock
        /\ call[r][l].st \in {"idle", "ok", "failed"}
        /\ SetCall(r, l, NoCall)
    BY <1>11 DEF LaserDone, Returned, At
  <2>2. /\ call'[r][l] = NoCall
        /\ \A m \in Lasers \ {l} : call'[r][m] = call[r][m]
        /\ \A s \in Requests \ {r} : call'[s] = call[s]
    BY <1>a, <2>1 DEF SetCall
  <2>3. \A m \in Lasers \ {l} : call[r][m].st = "idle"
    <3> SUFFICES ASSUME NEW m \in Lasers \ {l}, call[r][m].st # "idle" PROVE FALSE
      OBVIOUS
    <3>1. IsFirst(m, req[r].todo)
      BY <1>a, <2>1 DEF CallsOwned
    <3> QED  BY <2>1, <3>1, LaserOpsAssumption DEF IsFirst
  <2>4. \A s \in Requests \ {r} : req'[s] = req[s]
    BY <1>11, <1>c DEF LaserDone
  <2>5. \A m \in Lasers : call'[r][m].st = "idle"
    BY <2>2, <2>3 DEF NoCall
  <2>6. CallsOwned(r)'
    BY <2>5 DEF CallsOwned
  <2> QED  BY <2>1, <2>2, <2>3, <2>4, <2>5, <2>6, LockCalls
<1> QED  BY <1>1, <1>2, <1>3, <1>4, <1>5, <1>6, <1>7, <1>8, <1>9, <1>10, <1>11
         DEF Accept, RequestStep

LEMMA LockStep == LockInv /\ [Next]_vars => LockInv'
<1> SUFFICES ASSUME LockInv, [Next]_vars PROVE LockInv'
  OBVIOUS
<1>1. Shaped' /\ TypeOK
  BY ShapedStep DEF LockInv, Shaped
<1>2. ASSUME UNCHANGED <<call, lock, req>> PROVE LockInv'
  BY <1>1, <1>2 DEF LockInv, CallsOwned, IsFirst, OneCommandPerDevice, At
<1>3. ASSUME NEW k \in Tasks, LoopStep(k) PROVE LockInv'
  BY <1>1, <1>2, <1>3, LoopStepTyped DEF deviceVars
<1>4. ASSUME NEW l \in Lasers, LinkBreaks(l) /\ UNCHANGED managerVars PROVE LockInv'
  BY <1>2, <1>4 DEF LinkBreaks, managerVars
<1>5. ASSUME UNCHANGED vars PROVE LockInv'
  BY <1>2, <1>5 DEF vars
<1> QED  BY <1>1, <1>3, <1>4, <1>5, LockCallStep, LockRequest DEF Next

LEMMA LockInit == Init => LockInv
BY ShapedInit, NoRequestShape
   DEF Init, DeviceInit, LockInv, CallsOwned, OneCommandPerDevice, At, NoCall

(* At most one VT command at a time waits for its answer on a device, and    *)
(* the device lock is held by exactly the call that waits: asyncio.Lock in   *)
(* send_command is enough, and no path leaks it.                             *)
THEOREM DeviceLockExcludes == Spec => []OneCommandPerDevice
<1>1. Spec => []LockInv
  BY LockInit, LockStep, PTL DEF Spec
<1>2. LockInv => OneCommandPerDevice
  BY DEF LockInv
<1> QED  BY <1>1, <1>2, PTL

-----------------------------------------------------------------------------
(* Modes, flags and session ids.                                            *)

Backed(d) ==
  /\ d.mode = "BERTHING" => d.berthing
  /\ d.mode = "DRIFT" => d.drift
  /\ d.berthing <=> d.berthingId # NoId

(* The session id travels from the request, or from the laser that is       *)
(* restarted, to the coroutine that stores it.                              *)
ModeInv ==
  /\ Shaped
  /\ \A r \in Requests : req[r].op \in {"start", "restart"} => req[r].bid \in Bids
  /\ \A r \in Requests, l \in Lasers :
       call[r][l].op = "start_berthing" => call[r][l].bid \in Bids
  /\ ModeBacked

LEMMA ModeBackedIsBacked == ModeBacked <=> \A l \in Lasers : Backed(dev[l])
BY DEF ModeBacked, Backed

LEMMA SettersBacked ==
  ASSUME NEW d \in Device, Backed(d)
  PROVE  /\ Backed(Unlinked(d))
         /\ Backed(Quieted(d))
         /\ Backed(BerthingCleared(d))
         /\ Backed(AllModesCleared(d))
         /\ Backed(DriftCleared(d))
         /\ Backed(DriftSet(d))
         /\ Backed(Disconnected(d))
         /\ \A id \in Bids : Backed(BerthingSet(d, id))
         /\ Backed([d EXCEPT !.status = "CONNECTED", !.socket = "open"])
         /\ Backed([d EXCEPT !.status = "ERROR", !.socket = "dead"])
         /\ Backed([d EXCEPT !.continuous = TRUE])
         /\ Backed([d EXCEPT !.socket = "dead"])
<1>1. 0 \notin Bids
  BY LaserOpsAssumption
<1> QED
  BY <1>1 DEF Device, Backed, Unlinked, Quieted, BerthingCleared, AllModesCleared,
              DriftCleared, DriftSet, Disconnected, BerthingSet, NoId

LEMMA SetDevBacked ==
  ASSUME dev \in [Lasers -> Device], \A m \in Lasers : Backed(dev[m]),
         NEW l \in Lasers, NEW d, Backed(d), SetDev(l, d)
  PROVE  \A m \in Lasers : Backed(dev'[m])
BY DEF SetDev

(* Every step of a laser coroutine keeps the fields of its laser in accord. *)
LEMMA CallStepBacked ==
  ASSUME ModeInv, NEW r \in Requests, NEW l \in Lasers, CallStep(r, l)
  PROVE  \A m \in Lasers : Backed(dev'[m])
<1> DEFINE Fine == \A m \in Lasers : Backed(dev'[m])
<1>a. /\ TypeOK /\ dev \in [Lasers -> Device] /\ dev[l] \in Device /\ call[r][l] \in Call
      /\ \A m \in Lasers : Backed(dev[m])
  BY ModeBackedIsBacked DEF ModeInv, Shaped, TypeOK, DeviceTypeOK
<1>b. \A d : SetDev(l, d) /\ Backed(d) => Fine
  BY <1>a, SetDevBacked
<1>c. UNCHANGED dev => Fine
  BY <1>a
<1>d. /\ Backed(dev[l])
      /\ Backed(Unlinked(dev[l])) /\ Backed(Quieted(dev[l])) /\ Backed(BerthingCleared(dev[l]))
      /\ Backed(AllModesCleared(dev[l])) /\ Backed(DriftCleared(dev[l]))
      /\ Backed(DriftSet(dev[l]))
      /\ \A id \in Bids : Backed(BerthingSet(dev[l], id))
      /\ Backed([dev[l] EXCEPT !.status = "CONNECTED", !.socket = "open"])
      /\ Backed([dev[l] EXCEPT !.status = "ERROR", !.socket = "dead"])
      /\ Backed([dev[l] EXCEPT !.continuous = TRUE])
  BY <1>a, SettersBacked
<1>e. Backed(BerthingCleared(Quieted(dev[l])))
  BY <1>a, <1>d, SettersBacked, DeviceFieldsType
<1> SUFFICES Fine
  OBVIOUS
<1> HIDE DEF Fine
<1>2. CASE Connect(r, l) \/ ConnectFails(r, l)
  BY <1>2, <1>b, <1>d DEF Connect, ConnectFails
<1>3. CASE CheckContinuous(r, l)
  BY <1>3, <1>b, <1>c, <1>d DEF CheckContinuous
<1>4. CASE EscapeBreaks(r, l)
  BY <1>4, <1>b, <1>d DEF EscapeBreaks
<1>5. CASE EscapeRaises(r, l)
  BY <1>5, <1>b, <1>c, <1>d DEF EscapeRaises
<1>6. CASE FinishStop(r, l)
  BY <1>6, <1>b, <1>e DEF FinishStop
<1>7. CASE FinishOff(r, l)
  BY <1>7, <1>b, <1>d DEF FinishOff
<1>8. CASE FinishStopDrift(r, l)
  BY <1>8, <1>b, <1>d DEF FinishStopDrift
<1>9. CASE SendVT(r, l)
  BY <1>9, <1>b, <1>d DEF SendVT
<1>10. CASE VTAnswered(r, l)
  BY <1>10, <1>b, <1>d DEF VTAnswered
<1>11. CASE BerthingStarted(r, l)
  <2>1. call[r][l].bid \in Bids /\ SetDev(l, BerthingSet(dev[l], call[r][l].bid))
    BY <1>11 DEF BerthingStarted, ModeInv
  <2> QED  BY <2>1, <1>b, <1>d
<1>12. CASE DriftStarted(r, l)
  BY <1>12, <1>b, <1>d DEF DriftStarted
<1>13. CASE Undo(r, l)
  BY <1>13, <1>b, <1>d DEF Undo
<1>14. CASE \/ SkipEscape(r, l) \/ EscapeSent(r, l) \/ VTFails(r, l) \/ Flow(r, l)
            \/ DriftVerify(r, l) \/ NoData(r, l) \/ DriftNoData(r, l)
  BY <1>14, <1>c DEF SkipEscape, EscapeSent, VTFails, Flow, DriftVerify, NoData, DriftNoData
<1> QED
  BY <1>2, <1>3, <1>4, <1>5, <1>6, <1>7, <1>8, <1>9, <1>10, <1>11, <1>12, <1>13, <1>14
     DEF CallStep

(* Steps that store no session id in a request or a call.                   *)
LEMMA ModeFrame ==
  ASSUME ModeInv, Shaped', \A m \in Lasers : Backed(dev'[m]),
         \A r \in Requests : \/ req'[r].op = req[r].op /\ req'[r].bid = req[r].bid
                             \/ req'[r].op \notin {"start", "restart"}
                             \/ req'[r].bid \in Bids,
         \A r \in Requests, l \in Lasers :
            \/ call'[r][l].op = call[r][l].op /\ call'[r][l].bid = call[r][l].bid
            \/ call'[r][l].op # "start_berthing"
            \/ call'[r][l].bid \in Bids
  PROVE  ModeInv'
<1>1. ModeBacked'
  BY DEF ModeBacked, Backed
<1> QED  BY <1>1 DEF ModeInv

LEMMA ModeAccept ==
  ASSUME ModeInv, Shaped', NEW r \in Requests, Accept(r)
  PROVE  ModeInv'
<1>a. /\ req \in [Requests -> Request] /\ call \in [Requests -> [Lasers -> Call]]
      /\ \A m \in Lasers : Backed(dev[m])
  BY ModeBackedIsBacked DEF ModeInv, Shaped, TypeOK, DeviceTypeOK
<1>b. ASSUME NEW q, SetReq(r, q)
      PROVE  req'[r] = q /\ \A s \in Requests \ {r} : req'[s] = req[s]
  BY <1>a, <1>b DEF SetReq
<1>c. ASSUME NEW q, SetReq(r, q), q.op \notin {"start", "restart"} \/ q.bid \in Bids,
             UNCHANGED <<dev, call>>
      PROVE  ModeInv'
  BY <1>a, <1>b, <1>c, ModeFrame
<1>1. ASSUME NEW b \in Berths, NEW id \in Bids, StartBerthing(r, b, id)
      PROVE  ModeInv'
  <2>1. /\ req'[r].bid = id
        /\ \A s \in Requests \ {r} : req'[s] = req[s]
    BY <1>1, <1>a DEF StartBerthing, SetReq, NoRequest
  <2>2. /\ \A s \in Requests \ {r} : call'[s] = call[s]
        /\ \A l \in Lasers : \/ call'[r][l] = NewCall("start_berthing", id, StartAttempts)
                             \/ call'[r][l] = NoCall
    BY <1>1, <1>a DEF StartBerthing
  <2>3. \A l \in Lasers : call'[r][l].bid = id \/ call'[r][l].op = "none"
    BY <2>2 DEF NewCall, NoCall
  <2> QED  BY <1>1, <1>a, <2>1, <2>2, <2>3, ModeFrame DEF StartBerthing
<1>2. ASSUME NEW b \in Berths, NEW op \in {"stop", "stop_drift", "off"}, BeginStop(r, op, b)
      PROVE  ModeInv'
  <2> DEFINE now == [NoRequest EXCEPT !.op = op, !.berth = b, !.todo = Targets(op, b)]
  <2> DEFINE p1 == [now EXCEPT !.st = "lasers"]
  <2> DEFINE p2 == [now EXCEPT !.st = "await", !.awaits = registered[b]]
  <2>1. p1.op = op /\ p2.op = op
    BY DEF NoRequest
  <2>2. (SetReq(r, p1) \/ SetReq(r, p2)) /\ UNCHANGED <<dev, call>>
    BY <1>2 DEF BeginStop
  <2> HIDE DEF p1, p2
  <2> QED  BY <1>c, <2>1, <2>2
<1>3. ASSUME NEW b \in Berths, StartDrift(r, b)
      PROVE  ModeInv'
  <2> DEFINE p == [NoRequest EXCEPT !.op = "drift", !.berth = b, !.st = "lasers",
                                    !.todo = LasersOf(b)]
  <2>1. p.op = "drift"
    BY DEF NoRequest
  <2>2. SetReq(r, p) /\ UNCHANGED <<dev, call>>
    BY <1>3 DEF StartDrift
  <2> HIDE DEF p
  <2> QED  BY <1>c, <2>1, <2>2
<1>4. ASSUME NEW l \in Lasers, Restart(r, l)
      PROVE  ModeInv'
  <2> DEFINE p == [NoRequest EXCEPT !.op = "restart", !.berth = BerthOf[l],
                                    !.bid = dev[l].berthingId, !.st = "lasers", !.todo = {l}]
  <2>1. dev[l].berthing /\ dev[l].berthingId \in Bids \cup {NoId}
    BY <1>4 DEF Restart, ModeInv, Shaped, TypeOK, DeviceTypeOK, Device
  <2>2. dev[l].berthingId \in Bids
    BY <1>a, <2>1 DEF Backed
  <2>3. p.bid = dev[l].berthingId
    BY DEF NoRequest
  <2>4. SetReq(r, p) /\ UNCHANGED <<dev, call>>
    BY <1>4 DEF Restart
  <2> HIDE DEF p
  <2> QED  BY <1>c, <2>2, <2>3, <2>4
<1>5. ASSUME Shutdown(r)
      PROVE  ModeInv'
  <2> DEFINE p == [NoRequest EXCEPT !.op = "shutdown", !.st = "await", !.todo = Lasers]
  <2>1. p.op = "shutdown"
    BY DEF NoRequest
  <2>2. SetReq(r, p) /\ UNCHANGED <<dev, call>>
    BY <1>5 DEF Shutdown
  <2> HIDE DEF p
  <2> QED  BY <1>c, <2>1, <2>2
<1> QED  BY <1>1, <1>2, <1>3, <1>4, <1>5 DEF Accept

LEMMA ModeRequestStep ==
  ASSUME ModeInv, Shaped', NEW r \in Requests, RequestStep(r)
  PROVE  ModeInv'
<1>a. /\ req \in [Requests -> Request] /\ call \in [Requests -> [Lasers -> Call]]
      /\ dev \in [Lasers -> Device] /\ req[r] \in Request /\ RequestShape(r)
      /\ \A m \in Lasers : Backed(dev[m])
  BY ModeBackedIsBacked DEF ModeInv, Shaped, TypeOK, DeviceTypeOK
<1>b. ASSUME NEW q, SetReq(r, q)
      PROVE  req'[r] = q /\ \A s \in Requests \ {r} : req'[s] = req[s]
  BY <1>a, <1>b DEF SetReq
<1>c. ASSUME NEW q, SetReq(r, q), q.op = "none" \/ (q.op = req[r].op /\ q.bid = req[r].bid)
      PROVE  \A s \in Requests : \/ req'[s].op = req[s].op /\ req'[s].bid = req[s].bid
                                 \/ req'[s].op \notin {"start", "restart"}
  BY <1>b, <1>c
<1>d. Answer(r) => \E q : SetReq(r, q) /\ q.op = "none"
  BY NoRequestShape DEF Answer
<1>1. ASSUME EndStart(r) PROVE ModeInv'
  <2>1. \A s \in Requests, l \in Lasers : call'[s][l] = call[s][l] \/ call'[s][l].op = "none"
    BY <1>1, <1>a DEF EndStart, NoCall
  <2> QED  BY <1>1, <1>a, <1>c, <1>d, <2>1, ModeFrame DEF EndStart
<1>2. ASSUME StopResumes(r) PROVE ModeInv'
  <2> DEFINE p == [req[r] EXCEPT !.st = "lasers", !.awaits = NoTask]
  <2>1. p.op = req[r].op /\ p.bid = req[r].bid
    BY <1>a DEF Request
  <2>2. Answer(r) \/ SetReq(r, p)
    BY <1>2 DEF StopResumes
  <2> HIDE DEF p
  <2>3. PICK q : SetReq(r, q) /\ (q.op = "none" \/ (q.op = req[r].op /\ q.bid = req[r].bid))
    BY <1>d, <2>1, <2>2
  <2> QED  BY <1>2, <1>a, <1>c, <2>3, ModeFrame DEF StopResumes
<1>3. ASSUME EndLasers(r) \/ ShutdownEnds(r) PROVE ModeInv'
  <2>1. Answer(r) /\ UNCHANGED <<dev, call>>
    BY <1>3 DEF EndLasers, ShutdownEnds
  <2> QED  BY <1>a, <1>c, <1>d, <2>1, ModeFrame
<1>4. ASSUME ShutdownResumes(r) PROVE ModeInv'
  <2>1. PICK q : SetReq(r, q) /\ q.op = req[r].op /\ q.bid = req[r].bid
    BY <1>4, <1>a DEF ShutdownResumes, Request
  <2> QED  BY <1>4, <1>a, <1>c, <2>1, ModeFrame DEF ShutdownResumes
<1>5. ASSUME NEW l \in Lasers, NextLaser(r, l) PROVE ModeInv'
  <2> DEFINE c == NewCall(CallFor(req[r].op), req[r].bid,
                          IF req[r].op = "restart" THEN RestartAttempts ELSE 1)
  <2>1. req[r].op \in AllOps \ {"start"}
    BY <1>5, <1>a DEF NextLaser, RequestShape
  <2>2. c.op = "start_berthing" => req[r].op = "restart"
    BY <2>1 DEF NewCall, CallFor, AllOps
  <2>3. c.bid = req[r].bid
    BY DEF NewCall
  <2>4. c.op # "start_berthing" \/ c.bid \in Bids
    BY <2>2, <2>3 DEF ModeInv
  <2>5. SetCall(r, l, c) /\ UNCHANGED <<dev, req>>
    BY <1>5 DEF NextLaser, managerVars
  <2> HIDE DEF c
  <2>6. \A s \in Requests, m \in Lasers : call'[s][m] = call[s][m] \/ call'[s][m] = c
    BY <1>a, <2>5 DEF SetCall
  <2> QED  BY <1>a, <2>4, <2>5, <2>6, ModeFrame
<1>6. ASSUME NEW l \in Lasers, LaserDone(r, l) PROVE ModeInv'
  <2> DEFINE p == [req[r] EXCEPT !.todo = @ \ {l},
                                 !.won = IF At(r, l, "ok") THEN @ \cup {l} ELSE @]
  <2>1. SetReq(r, p) /\ p.op = req[r].op /\ p.bid = req[r].bid
    BY <1>6, <1>a DEF LaserDone, Request
  <2> HIDE DEF p
  <2>2. \A s \in Requests, m \in Lasers : call'[s][m] = call[s][m] \/ call'[s][m].op = "none"
    BY <1>6, <1>a DEF LaserDone, SetCall, NoCall
  <2>3. \A m \in Lasers : Backed(dev'[m])
    <3>1. Backed(Disconnected(dev[l]))
      BY <1>a, SettersBacked
    <3> QED  BY <1>6, <1>a, <3>1, SetDevBacked DEF LaserDone
  <2> QED  BY <1>c, <2>1, <2>2, <2>3, ModeFrame
<1> QED  BY <1>1, <1>2, <1>3, <1>4, <1>5, <1>6 DEF RequestStep

LEMMA ModeStep == ModeInv /\ [Next]_vars => ModeInv'
<1> SUFFICES ASSUME ModeInv, [Next]_vars PROVE ModeInv'
  OBVIOUS
<1>a. /\ Shaped' /\ TypeOK /\ call \in [Requests -> [Lasers -> Call]]
      /\ dev \in [Lasers -> Device]
      /\ \A m \in Lasers : Backed(dev[m])
  BY ShapedStep, ModeBackedIsBacked DEF ModeInv, Shaped, TypeOK, DeviceTypeOK
<1>1. ASSUME UNCHANGED <<dev, call, req>> PROVE ModeInv'
  BY <1>1, <1>a DEF ModeInv, ModeBacked
<1>2. ASSUME NEW r \in Requests, NEW l \in Lasers, CallStep(r, l) /\ UNCHANGED managerVars
      PROVE  ModeInv'
  <2>1. PICK c \in Call : /\ SetCall(r, l, c)
                          /\ c.op \in {call[r][l].op, "none"}
                          /\ c.op # "none" => c.bid = call[r][l].bid
    BY <1>2, <1>a, CallStepEffect
  <2>2. /\ call'[r][l] = c
        /\ \A s \in Requests, m \in Lasers : s # r \/ m # l => call'[s][m] = call[s][m]
    BY <1>a, <2>1 DEF SetCall
  <2>3. \A m \in Lasers : Backed(dev'[m])
    BY <1>2, CallStepBacked
  <2>4. req' = req
    BY <1>2 DEF managerVars
  <2> QED  BY <1>a, <2>1, <2>2, <2>3, <2>4, ModeFrame
<1>3. ASSUME NEW l \in Lasers, LinkBreaks(l) /\ UNCHANGED managerVars PROVE ModeInv'
  <2>1. \A m \in Lasers : Backed(dev'[m])
    BY <1>3, <1>a, SettersBacked, SetDevBacked DEF LinkBreaks
  <2> QED  BY <1>3, <1>a, <2>1, ModeFrame DEF LinkBreaks, managerVars
<1>4. ASSUME NEW k \in Tasks, LoopStep(k) PROVE ModeInv'
  BY <1>a, <1>1, <1>4, LoopStepTyped DEF deviceVars
<1>5. ASSUME UNCHANGED vars PROVE ModeInv'
  BY <1>1, <1>5 DEF vars
<1> QED  BY <1>a, <1>2, <1>3, <1>4, <1>5, ModeAccept, ModeRequestStep DEF Next

LEMMA ModeInit == Init => ModeInv
<1> SUFFICES ASSUME Init PROVE ModeInv
  OBVIOUS
<1>1. ModeBacked
  BY DEF Init, DeviceInit, FreshDevice, ModeBacked, NoId
<1> QED  BY <1>1, ShapedInit, NoRequestShape DEF Init, DeviceInit, ModeInv, NoCall

(* The mode that /status reports is never ahead of the flags that the data   *)
(* loops read, and a laser in berthing mode has the session id that a        *)
(* restart reuses, whichever coroutines write these fields at their awaits.  *)
THEOREM ModeNeverAhead == Spec => []ModeBacked
<1>1. Spec => []ModeInv
  BY ModeInit, ModeStep, PTL DEF Spec
<1>2. ModeInv => ModeBacked
  BY DEF ModeInv
<1> QED  BY <1>1, <1>2, PTL

-----------------------------------------------------------------------------
(* A client that waits for each answer.                                     *)

(* One request at a time, and none that concerns drift or switches off: off *)
(* leaves a laser that it cannot reach in berthing mode.                    *)
Serial ==
  /\ \A r, s \in Requests : r = s
  /\ Ops \subseteq {"start", "stop", "restart", "shutdown"}

(* A laser that the start in progress has started and no loop serves yet,   *)
(* and one that the stop in progress has still to stop.                     *)
Pending(r, l) ==
  /\ req[r].op = "start" /\ l \in req[r].todo
  /\ At(r, l, "ok") /\ dev[l].berthingId = req[r].bid

Leaving(r, l) == req[r].op = "stop" /\ l \in req[r].todo /\ ~Returned(r, l)

Covered ==
  \A l \in Lasers : dev[l].berthing =>
    \/ BerthOf[l] \in active /\ \E k \in Tasks : Serves(k, l)
    \/ \E r \in Requests : Pending(r, l) \/ Leaving(r, l)

(* An active berth has a laser in berthing mode, unless a stop waits for    *)
(* its loop, having stopped no laser yet.                                   *)
ActiveBerths ==
  \A b \in active :
    \/ \E l \in LasersOf(b) : dev[l].berthing
    \/ \E r \in Requests : req[r].op = "stop" /\ req[r].st = "await" /\ req[r].berth = b

(* What a request works on, and what the calls it has under way are.        *)
Working(r) ==
  /\ req[r].op \in {"none", "start", "stop", "restart"}
  /\ req[r].op = "none" <=> Idle(r)
  /\ req[r].op = "start" => req[r].st = "gather" /\ req[r].todo = LasersOf(req[r].berth)
  /\ req[r].op = "stop" => /\ req[r].todo \subseteq LasersOf(req[r].berth)
                           /\ \A l \in LasersOf(req[r].berth) :
                                dev[l].berthing => l \in req[r].todo
                           /\ req[r].st = "await" <=> req[r].berth \in active
  /\ req[r].op = "restart" =>
       \A l \in req[r].todo : dev[l].berthing /\ dev[l].berthingId = req[r].bid

OnTheWay(c) ==
  /\ c.st \notin {"idle", "ok", "failed", "drift_verify"}
  /\ c.op = "stop_berthing" => c.st \in {"begin", "connecting", "ready", "escaping", "settling"}

Calling(r, l) ==
  /\ call[r][l].st \notin {"idle", "ok", "failed"} =>
       /\ OnTheWay(call[r][l])
       /\ call[r][l].op = IF req[r].op = "stop" THEN "stop_berthing" ELSE "start_berthing"
       /\ call[r][l].bid = req[r].bid
  /\ At(r, l, "ok") /\ req[r].op # "stop" => dev[l].berthing /\ dev[l].berthingId = req[r].bid

Agreement ==
  /\ Covered
  /\ ActiveBerths
  /\ \A r \in Requests : Working(r)
  /\ \A r \in Requests, l \in Lasers : Calling(r, l)

AgreeInv == RegistryInv /\ LockInv /\ (phase = "running" => Agreement)

(* The berthing mode and session id of every laser stay as they are.        *)
SameModes ==
  \A m \in Lasers : dev'[m].berthing = dev[m].berthing /\ dev'[m].berthingId = dev[m].berthingId

LEMMA SettersSame ==
  ASSUME TypeOK, NEW l \in Lasers
  PROVE  /\ UNCHANGED dev => SameModes
         /\ \A d \in {Unlinked(dev[l]), Quieted(dev[l]),
                      [dev[l] EXCEPT !.status = "CONNECTED", !.socket = "open"],
                      [dev[l] EXCEPT !.status = "ERROR", !.socket = "dead"],
                      [dev[l] EXCEPT !.continuous = TRUE],
                      [dev[l] EXCEPT !.socket = "dead"]} : SetDev(l, d) => SameModes
<1>1. dev[l] \in Device /\ dev \in [Lasers -> Device]
  BY DEF TypeOK, DeviceTypeOK
<1>2. \A d \in {Unlinked(dev[l]), Quieted(dev[l]),
                [dev[l] EXCEPT !.status = "CONNECTED", !.socket = "open"],
                [dev[l] EXCEPT !.status = "ERROR", !.socket = "dead"],
                [dev[l] EXCEPT !.continuous = TRUE],
                [dev[l] EXCEPT !.socket = "dead"]} :
        d.berthing = dev[l].berthing /\ d.berthingId = dev[l].berthingId
  BY <1>1 DEF Device, Unlinked, Quieted
<1>3. ASSUME NEW d, SetDev(l, d), d.berthing = dev[l].berthing, d.berthingId = dev[l].berthingId
      PROVE  SameModes
  BY <1>1, <1>3 DEF SetDev, SameModes
<1> QED  BY <1>2, <1>3 DEF SameModes

(* A start that returns ok has set mode and session id, a stop that returns *)
(* has cleared the mode, and no other step of theirs changes either.        *)
LEMMA CallStepModes ==
  ASSUME TypeOK, NEW r \in Requests, NEW l \in Lasers, CallStep(r, l),
         call[r][l].op \in {"start_berthing", "stop_berthing"}, OnTheWay(call[r][l])
  PROVE  \E c : /\ SetCall(r, l, c)
                /\ \/ /\ SameModes
                      /\ OnTheWay(c)
                      /\ c.op = call[r][l].op /\ c.bid = call[r][l].bid
                   \/ SameModes /\ c.st = "failed" /\ call[r][l].op = "start_berthing"
                   \/ /\ c.st = "ok" /\ call[r][l].op = "start_berthing"
                      /\ SetDev(l, BerthingSet(dev[l], call[r][l].bid))
                   \/ /\ c.st \in {"ok", "failed"} /\ call[r][l].op = "stop_berthing"
                      /\ \E d \in Device : SetDev(l, d) /\ ~d.berthing
<1> DEFINE a == call[r][l]
<1> DEFINE Goes(c) == SameModes /\ OnTheWay(c) /\ c.op = a.op /\ c.bid = a.bid
<1> DEFINE Fails(c) == SameModes /\ c.st = "failed" /\ a.op = "start_berthing"
<1> DEFINE Begun(c) == /\ c.st = "ok" /\ a.op = "start_berthing"
                       /\ SetDev(l, BerthingSet(dev[l], a.bid))
<1> DEFINE Stopped(c) == /\ c.st \in {"ok", "failed"} /\ a.op = "stop_berthing"
                         /\ \E d \in Device : SetDev(l, d) /\ ~d.berthing
<1> SUFFICES \E c : SetCall(r, l, c) /\ (Goes(c) \/ Fails(c) \/ Begun(c) \/ Stopped(c))
  BY Zenon
<1>a. a \in Call /\ dev[l] \in Device
  BY DEF TypeOK, DeviceTypeOK
<1>b. ASSUME SameModes, NEW st \in Stages \ {"idle", "ok", "failed", "drift_verify"},
             Go(r, l, st),
             a.op = "start_berthing" \/ st \in {"connecting", "ready", "escaping", "settling"}
      PROVE  \E c : SetCall(r, l, c) /\ Goes(c)
  <2> DEFINE c == [a EXCEPT !.st = st]
  <2>1. c.st = st /\ c.op = a.op /\ c.bid = a.bid
    BY <1>a DEF Call
  <2>2. OnTheWay(c)
    BY <1>b, <2>1 DEF OnTheWay
  <2>3. SetCall(r, l, c)
    BY <1>b DEF Go
  <2> HIDE DEF c
  <2> QED  BY <1>b, <2>1, <2>2, <2>3
<1>c. ASSUME SameModes, a.op = "start_berthing", RetryOrFail(r, l)
      PROVE  \E c : SetCall(r, l, c) /\ (Goes(c) \/ Fails(c))
  <2>1. CASE a.outer > 1
    <3> DEFINE c == [a EXCEPT !.st = "begin", !.outer = @ - 1, !.inner = ModeAttempts]
    <3>1. c.st = "begin" /\ c.op = a.op /\ c.bid = a.bid
      BY <1>a DEF Call
    <3>2. SetCall(r, l, c)
      BY <1>c, <2>1 DEF RetryOrFail
    <3> HIDE DEF c
    <3> QED  BY <1>c, <3>1, <3>2 DEF OnTheWay
  <2>2. CASE ~(a.outer > 1)
    <3>1. SetCall(r, l, [NoCall EXCEPT !.st = "failed"])
      BY <1>c, <2>2 DEF RetryOrFail, Return
    <3>2. [NoCall EXCEPT !.st = "failed"].st = "failed"
      BY DEF NoCall
    <3> QED  BY <1>c, <3>1, <3>2
  <2> QED  BY <2>1, <2>2
<1>d. ASSUME NEW st \in {"ok", "failed"}, Return(r, l, st), a.op = "stop_berthing",
             NEW d \in Device, SetDev(l, d), ~d.berthing
      PROVE  \E c : SetCall(r, l, c) /\ Stopped(c)
  <2>1. SetCall(r, l, [NoCall EXCEPT !.st = st])
    BY <1>d DEF Return
  <2>2. [NoCall EXCEPT !.st = st].st = st
    BY DEF NoCall
  <2> QED  BY <1>d, <2>1, <2>2
<1>e. /\ UNCHANGED dev => SameModes
      /\ SetDev(l, Unlinked(dev[l])) => SameModes
      /\ SetDev(l, Quieted(dev[l])) => SameModes
      /\ SetDev(l, [dev[l] EXCEPT !.status = "CONNECTED", !.socket = "open"]) => SameModes
      /\ SetDev(l, [dev[l] EXCEPT !.status = "ERROR", !.socket = "dead"]) => SameModes
      /\ SetDev(l, [dev[l] EXCEPT !.continuous = TRUE]) => SameModes
  BY SettersSame
<1>f. /\ BerthingCleared(dev[l]) \in Device /\ ~BerthingCleared(dev[l]).berthing
      /\ BerthingCleared(Quieted(dev[l])) \in Device
      /\ ~BerthingCleared(Quieted(dev[l])).berthing
  <2>1. \A d \in Device : BerthingCleared(d) \in Device /\ ~BerthingCleared(d).berthing
    BY DEF Device, BerthingCleared, NoId
  <2> QED  BY <1>a, <2>1, DeviceFieldsType
<1>g. Stages = {"idle", "begin", "connecting", "ready", "escaping", "settling",
                "vt", "flow", "verify", "drift_verify", "undo", "ok", "failed"}
  BY DEF Stages
<1> HIDE DEF Goes, Fails, Begun, Stopped
<1>1. CASE Connect(r, l) \/ CheckContinuous(r, l)
  BY <1>1, <1>b, <1>e, <1>g DEF Connect, CheckContinuous
<1>2. CASE ConnectFails(r, l)
  BY <1>2, <1>b, <1>c, <1>e, <1>g DEF ConnectFails
<1>3. CASE SkipEscape(r, l) \/ EscapeSent(r, l) \/ EscapeBreaks(r, l)
  BY <1>3, <1>b, <1>e, <1>g DEF SkipEscape, EscapeSent, EscapeBreaks
<1>4. CASE EscapeRaises(r, l)
  BY <1>4, <1>c, <1>d, <1>e, <1>f DEF EscapeRaises, Stops
<1>5. CASE FinishStop(r, l)
  BY <1>5, <1>d, <1>f DEF FinishStop, Stops
<1>6. CASE SendVT(r, l) \/ VTAnswered(r, l) \/ VTFails(r, l) \/ Flow(r, l) \/ NoData(r, l)
  <2>1. a.op = "start_berthing"
    BY <1>6 DEF SendVT, VTAnswered, VTFails, Flow, NoData, At, OnTheWay, Starts
  <2> QED  BY <1>6, <1>b, <1>e, <1>g, <2>1 DEF SendVT, VTAnswered, VTFails, Flow, NoData
<1>7. CASE BerthingStarted(r, l)
  <2>1. [NoCall EXCEPT !.st = "ok"].st = "ok"
    BY DEF NoCall
  <2> QED  BY <1>7, <2>1 DEF BerthingStarted, Return, Begun
<1>8. CASE Undo(r, l)
  <2>1. SameModes /\ a.op = "start_berthing"
    BY <1>8, <1>e DEF Undo, At, OnTheWay
  <2>2. CASE a.inner > 1
    <3> DEFINE c == [a EXCEPT !.st = "settling", !.inner = @ - 1]
    <3>1. c.st = "settling" /\ c.op = a.op /\ c.bid = a.bid
      BY <1>a DEF Call
    <3>2. SetCall(r, l, c)
      BY <1>8, <2>2 DEF Undo
    <3> HIDE DEF c
    <3> QED  BY <2>1, <3>1, <3>2 DEF Goes, OnTheWay
  <2>3. CASE ~(a.inner > 1)
    <3>1. RetryOrFail(r, l)
      BY <1>8, <2>3 DEF Undo
    <3> QED  BY <1>c, <2>1, <3>1
  <2> QED  BY <2>2, <2>3
<1>9. CASE FinishOff(r, l) \/ FinishStopDrift(r, l) \/ DriftVerify(r, l)
  BY <1>9 DEF FinishOff, FinishStopDrift, DriftVerify
<1>10. CASE DriftStarted(r, l) \/ DriftNoData(r, l)
  BY <1>10 DEF DriftStarted, DriftNoData, At, OnTheWay
<1> QED
  BY <1>1, <1>2, <1>3, <1>4, <1>5, <1>6, <1>7, <1>8, <1>9, <1>10 DEF CallStep

LEMMA CallStepUnderway ==
  ASSUME NEW r \in Requests, NEW l \in Lasers, CallStep(r, l)
  PROVE  call[r][l].st \notin {"idle", "ok", "failed"}
BY DEF CallStep, At, Ready, AtEscape, Connect, ConnectFails, CheckContinuous, SkipEscape,
       EscapeSent, EscapeBreaks, EscapeRaises, FinishStop, FinishOff, FinishStopDrift, SendVT,
       VTAnswered, VTFails, Flow, BerthingStarted, DriftVerify, NoData, DriftStarted,
       DriftNoData, Undo

(* The tables that every step of the proof looks up.                        *)
LEMMA AgreeTypes ==
  ASSUME RegistryInv, LockInv
  PROVE  /\ TypeOK
         /\ dev \in [Lasers -> Device] /\ call \in [Requests -> [Lasers -> Call]]
         /\ req \in [Requests -> Request] /\ task \in [Tasks -> Loop]
         /\ registered \in [Berths -> Tasks \cup {NoTask}] /\ active \in SUBSET Berths
         /\ \A l \in Lasers : BerthOf[l] \in Berths
         /\ \A r \in Requests : RequestShape(r) /\ CallsOwned(r)
BY BerthModesAssumption DEF RegistryInv, LockInv, Shaped, TypeOK, DeviceTypeOK

LEMMA AgreeCall ==
  ASSUME Serial, RegistryInv, LockInv, Agreement, NEW r \in Requests, NEW l \in Lasers,
         CallStep(r, l), UNCHANGED managerVars
  PROVE  Agreement'
<1>t. /\ TypeOK /\ call \in [Requests -> [Lasers -> Call]] /\ dev \in [Lasers -> Device]
      /\ req \in [Requests -> Request] /\ active \in SUBSET Berths
      /\ RequestShape(r) /\ CallsOwned(r) /\ Working(r) /\ Calling(r, l)
      /\ \A s \in Requests : s = r
      /\ UNCHANGED <<req, task, active>>
  BY AgreeTypes DEF Agreement, Serial, managerVars
<1>1. /\ call[r][l].st \notin {"idle", "ok", "failed"}
      /\ OnTheWay(call[r][l])
      /\ call[r][l].op = IF req[r].op = "stop" THEN "stop_berthing" ELSE "start_berthing"
      /\ call[r][l].bid = req[r].bid
  BY <1>t, CallStepUnderway DEF Calling
<1>2. req[r].st \in {"gather", "lasers"} /\ l \in req[r].todo /\ req[r].op # "none"
  BY <1>t, <1>1 DEF CallsOwned, IsFirst, Working, Idle, Request
<1>3. PICK c : /\ SetCall(r, l, c)
               /\ \/ /\ SameModes
                     /\ OnTheWay(c)
                     /\ c.op = call[r][l].op /\ c.bid = call[r][l].bid
                  \/ SameModes /\ c.st = "failed" /\ call[r][l].op = "start_berthing"
                  \/ /\ c.st = "ok" /\ call[r][l].op = "start_berthing"
                     /\ SetDev(l, BerthingSet(dev[l], call[r][l].bid))
                  \/ /\ c.st \in {"ok", "failed"} /\ call[r][l].op = "stop_berthing"
                     /\ \E d \in Device : SetDev(l, d) /\ ~d.berthing
  BY <1>t, <1>1, CallStepModes
<1>4. call'[r][l] = c /\ \A m \in Lasers \ {l} : call'[r][m] = call[r][m]
  BY <1>t, <1>3 DEF SetCall
<1>5. ASSUME SameModes,
             \/ OnTheWay(c) /\ c.op = call[r][l].op /\ c.bid = call[r][l].bid
             \/ c.st = "failed" /\ req[r].op # "stop"
      PROVE  Agreement'
  <2>1. \A m \in Lasers : (Pending(r, m) => Pending(r, m)') /\ (Leaving(r, m) => Leaving(r, m)')
    BY <1>t, <1>1, <1>4, <1>5 DEF Pending, Leaving, At, Returned, SameModes, OnTheWay
  <2>2. \A k \in Tasks, m \in Lasers : Serves(k, m) => Serves(k, m)'
    BY <1>t, <1>5 DEF Serves, Live, SameModes
  <2>3. Covered'
    BY <1>t, <1>5, <2>1, <2>2 DEF Agreement, Covered, SameModes
  <2>4. ActiveBerths'
    BY <1>t, <1>5 DEF Agreement, ActiveBerths, SameModes, LasersOf
  <2>5. \A s \in Requests : Working(s)'
    BY <1>t, <1>5 DEF Working, Idle, SameModes, LasersOf, Request
  <2>6. \A m \in Lasers : Calling(r, m)'
    BY <1>t, <1>1, <1>4, <1>5 DEF Agreement, Calling, At, SameModes, OnTheWay
  <2> QED  BY <1>t, <2>3, <2>4, <2>5, <2>6 DEF Agreement
<1>6. ASSUME c.st = "ok", req[r].op # "stop", SetDev(l, BerthingSet(dev[l], req[r].bid))
      PROVE  Agreement'
  <2>1. /\ dev'[l].berthing /\ dev'[l].berthingId = req[r].bid
        /\ \A m \in Lasers \ {l} : dev'[m] = dev[m]
    BY <1>t, <1>6 DEF SetDev, BerthingSet, Device
  <2>2. \A m \in Lasers \ {l} : (Pending(r, m) => Pending(r, m)') /\ ~Leaving(r, m)
    BY <1>t, <1>4, <1>6, <2>1 DEF Pending, Leaving, At
  <2>3. \A k \in Tasks, m \in Lasers \ {l} : Serves(k, m) => Serves(k, m)'
    BY <1>t, <2>1 DEF Serves, Live
  <2>4. CASE req[r].op = "start"
    <3>1. Pending(r, l)'
      BY <1>t, <1>2, <1>4, <1>6, <2>1, <2>4 DEF Pending, At
    <3> QED
      <4>1. Covered'
        BY <1>t, <2>1, <2>2, <2>3, <3>1 DEF Agreement, Covered
      <4>2. ActiveBerths'
        BY <1>t, <2>1 DEF Agreement, ActiveBerths, LasersOf
      <4>3. Working(r)'
        <5>1. req'[r] = req[r]
          BY <1>t
        <5>2. req[r].todo = LasersOf(req[r].berth) /\ req[r].st = "gather"
          BY <1>t, <2>4 DEF Working
        <5> QED  BY <2>4, <5>1, <5>2 DEF Working, Idle, LasersOf
      <4>4. \A m \in Lasers : Calling(r, m)'
        BY <1>t, <1>4, <1>6, <2>1 DEF Agreement, Calling, At
      <4> QED  BY <1>t, <4>1, <4>2, <4>3, <4>4 DEF Agreement
  <2>5. CASE req[r].op = "restart"
    <3>1. dev[l].berthing /\ dev[l].berthingId = req[r].bid
      BY <1>t, <1>2, <2>5 DEF Working
    <3>2. \A k \in Tasks : Serves(k, l) => Serves(k, l)'
      BY <1>t, <2>1, <3>1 DEF Serves, Live
    <3>3. ~Pending(r, l) /\ ~Leaving(r, l)
      BY <2>5 DEF Pending, Leaving
    <3>4. Covered'
      BY <1>t, <2>1, <2>2, <2>3, <3>1, <3>2, <3>3 DEF Agreement, Covered
    <3>5. ActiveBerths'
      BY <1>t, <2>1 DEF Agreement, ActiveBerths, LasersOf
    <3>6. Working(r)'
      <4>1. req'[r] = req[r]
        BY <1>t
      <4>2. \A m \in req[r].todo : dev'[m].berthing /\ dev'[m].berthingId = req[r].bid
        <5>1. req[r].todo \subseteq Lasers
          BY <1>t DEF Request
        <5> QED  BY <1>t, <2>1, <2>5, <5>1 DEF Working
      <4> QED  BY <1>t, <2>5, <4>1, <4>2 DEF Working, Idle
    <3>7. \A m \in Lasers : Calling(r, m)'
      BY <1>t, <1>4, <1>6, <2>1 DEF Agreement, Calling, At
    <3> QED  BY <1>t, <3>4, <3>5, <3>6, <3>7 DEF Agreement
  <2> QED  BY <1>t, <1>2, <1>6, <2>4, <2>5 DEF Working
<1>7. ASSUME c.st \in {"ok", "failed"}, req[r].op = "stop",
             NEW d \in Device, SetDev(l, d), ~d.berthing
      PROVE  Agreement'
  <2>1. ~dev'[l].berthing /\ \A m \in Lasers \ {l} : dev'[m] = dev[m]
    BY <1>t, <1>7 DEF SetDev
  <2>2. /\ req[r].st = "lasers" /\ req[r].berth \notin active
        /\ l \in LasersOf(req[r].berth)
    BY <1>t, <1>2, <1>7 DEF Working, RequestShape
  <2>3. \A m \in Lasers \ {l} : ~Pending(r, m) /\ (Leaving(r, m) => Leaving(r, m)')
    BY <1>t, <1>4, <1>7 DEF Pending, Leaving, Returned
  <2>4. \A k \in Tasks, m \in Lasers \ {l} : Serves(k, m) => Serves(k, m)'
    BY <1>t, <2>1 DEF Serves, Live
  <2>5. Covered'
    BY <1>t, <2>1, <2>3, <2>4 DEF Agreement, Covered
  <2>6. ActiveBerths'
    BY <1>t, <2>1, <2>2 DEF Agreement, ActiveBerths, LasersOf
  <2>7. Working(r)'
    <3>1. \A m \in LasersOf(req[r].berth) : dev'[m].berthing => m \in req[r].todo
      BY <1>t, <1>7, <2>1 DEF Working, LasersOf
    <3>2. req' = req /\ active' = active
      BY <1>t
    <3>3. (\A m \in LasersOf(req[r].berth) : dev[m].berthing => m \in req[r].todo)'
      BY <3>1, <3>2 DEF LasersOf
    <3> QED  BY <1>t, <1>7, <3>2, <3>3 DEF Working, Idle
  <2>8. \A m \in Lasers : Calling(r, m)'
    BY <1>t, <1>4, <1>7 DEF Agreement, Calling, At
  <2> QED  BY <1>t, <2>5, <2>6, <2>7, <2>8 DEF Agreement
<1>8. call[r][l].op = "start_berthing" <=> req[r].op # "stop"
  BY <1>1
<1> QED  BY <1>1, <1>3, <1>5, <1>6, <1>7, <1>8

LEMMA AgreeLink ==
  ASSUME Serial, RegistryInv, LockInv, Agreement, NEW l \in Lasers, LinkBreaks(l),
         UNCHANGED managerVars
  PROVE  Agreement'
<1>1. SameModes
  BY AgreeTypes, SettersSame DEF LinkBreaks
<1>2. UNCHANGED <<call, req, task, active>>
  BY DEF LinkBreaks, managerVars
<1>3. \A k \in Tasks, m \in Lasers : Serves(k, m) => Serves(k, m)'
  BY <1>1, <1>2 DEF Serves, Live, SameModes
<1>4. \A r \in Requests, m \in Lasers :
        (Pending(r, m) => Pending(r, m)') /\ (Leaving(r, m) => Leaving(r, m)')
  BY <1>1, <1>2 DEF Pending, Leaving, At, Returned, SameModes
<1>5. Covered'
  BY <1>1, <1>2, <1>3, <1>4 DEF Agreement, Covered, SameModes
<1>6. ActiveBerths'
  BY <1>1, <1>2 DEF Agreement, ActiveBerths, SameModes, LasersOf
<1>7. \A r \in Requests : Working(r)'
  <2>t. req \in [Requests -> Request]
    BY AgreeTypes
  <2> QED  BY <1>1, <1>2, <2>t DEF Agreement, Working, Idle, SameModes, LasersOf, Request
<1>8. \A r \in Requests, m \in Lasers : Calling(r, m)'
  BY <1>1, <1>2 DEF Agreement, Calling, At, SameModes
<1> QED  BY <1>5, <1>6, <1>7, <1>8 DEF Agreement

(* A live loop of an active berth goes on serving the same lasers.          *)
LEMMA LoopServesOn ==
  ASSUME TypeOK, NEW k \in Tasks, LoopStep(k), Live(k), phase = "running",
         task[k].berth \in active
  PROVE  /\ Live(k)'
         /\ task'[k].kind = task[k].kind /\ task'[k].berth = task[k].berth
         /\ task'[k].bid = task[k].bid /\ task'[k].lasers = task[k].lasers
         /\ \A j \in Tasks \ {k} : task'[j] = task[j]
<1> DEFINE Good(t) == /\ t.st \in {"new", "sleep", "fetch"} /\ t.kind = task[k].kind
                      /\ t.berth = task[k].berth
                      /\ t.bid = task[k].bid /\ t.lasers = task[k].lasers
<1>1. task[k] \in Loop /\ task \in [Tasks -> Loop]
  BY DEF TypeOK
<1>2. Good(AtHead(task[k]))
  BY <1>1 DEF AtHead, Loop
<1>3. ASSUME NEW rest, NEW t \in Visited(task[k], rest)
      PROVE  Good(t)
  <2> DEFINE S == {l \in rest : InMode(task[k].kind, l)}
  <2>1. CASE S = {}
    BY <1>2, <1>3, <2>1 DEF Visited
  <2>2. CASE S # {}
    <3>1. PICK l : t = [task[k] EXCEPT !.st = "fetch", !.cur = l, !.left = {x \in rest : x > l}]
      BY <1>3, <2>2 DEF Visited
    <3> QED  BY <1>1, <3>1 DEF Loop
  <2> QED  BY <2>1, <2>2
<1>4. \E t : SetTask(k, t) /\ Good(t)
  BY <1>2, <1>3 DEF LoopStep, LoopBegins, LoopWakes, LoopFetched, LoopCancelled, Live
<1> QED  BY <1>1, <1>4 DEF SetTask, Live

LEMMA AgreeLoop ==
  ASSUME Serial, RegistryInv, LockInv, Agreement, NEW k \in Tasks, LoopStep(k),
         phase = "running"
  PROVE  Agreement'
<1>t. TypeOK /\ task \in [Tasks -> Loop]
  BY AgreeTypes
<1>1. UNCHANGED <<deviceVars, req, registered, active, phase>>
  BY <1>t, LoopStepTyped
<1>2. ASSUME NEW j \in Tasks, NEW l \in Lasers, BerthOf[l] \in active, Serves(j, l)
      PROVE  Serves(j, l)'
  <2>1. CASE j = k
    BY <1>t, <1>1, <1>2, <2>1, LoopServesOn DEF Serves, deviceVars
  <2>2. CASE j # k
    <3>1. \E t : SetTask(k, t)
      BY DEF LoopStep, LoopBegins, LoopWakes, LoopFetched, LoopCancelled
    <3>2. task'[j] = task[j]
      BY <1>t, <2>2, <3>1 DEF SetTask
    <3> QED  BY <1>1, <1>2, <3>2 DEF Serves, Live, deviceVars
  <2> QED  BY <2>1, <2>2
<1>3. Covered'
  BY <1>1, <1>2 DEF Agreement, Covered, deviceVars, Pending, Leaving, At, Returned
<1>4. ActiveBerths' /\ (\A r \in Requests : Working(r)')
      /\ (\A r \in Requests, l \in Lasers : Calling(r, l)')
  BY <1>1 DEF Agreement, ActiveBerths, Working, Calling, deviceVars, Idle, LasersOf, At
<1> QED  BY <1>3, <1>4 DEF Agreement

(* With the one request idle, every laser in berthing mode has its loop.    *)
LEMMA IdleServed ==
  ASSUME Serial, RegistryInv, LockInv, Agreement, NEW r \in Requests, Idle(r)
  PROVE  /\ \A l \in Lasers : call[r][l].st = "idle"
         /\ \A l \in Lasers : dev[l].berthing =>
              BerthOf[l] \in active /\ \E k \in Tasks : Serves(k, l)
         /\ \A b \in active : \E l \in LasersOf(b) : dev[l].berthing
         /\ req[r].awaits = NoTask
<1>1. CallsOwned(r) /\ RequestShape(r) /\ Working(r) /\ \A s \in Requests : s = r
  BY AgreeTypes DEF Agreement, Serial
<1>2. req[r].op = "none" /\ req[r].st = "idle"
  BY <1>1 DEF Working, Idle
<1>3. \A l \in Lasers : ~Pending(r, l) /\ ~Leaving(r, l)
  BY <1>2 DEF Pending, Leaving
<1> QED  BY <1>1, <1>2, <1>3 DEF CallsOwned, RequestShape, Agreement, Covered, ActiveBerths

LEMMA AgreeAccept ==
  ASSUME Serial, RegistryInv, LockInv, Agreement, NEW r \in Requests, Accept(r),
         phase' = "running"
  PROVE  Agreement'
<1>t. /\ TypeOK /\ call \in [Requests -> [Lasers -> Call]] /\ dev \in [Lasers -> Device]
      /\ req \in [Requests -> Request] /\ active \in SUBSET Berths
      /\ registered \in [Berths -> Tasks \cup {NoTask}] /\ task \in [Tasks -> Loop]
      /\ \A s \in Requests : s = r
  BY AgreeTypes DEF Serial
<1>a. ASSUME Idle(r)
      PROVE  /\ \A l \in Lasers : call[r][l].st = "idle"
             /\ \A l \in Lasers : dev[l].berthing =>
                  BerthOf[l] \in active /\ \E k \in Tasks : Serves(k, l)
             /\ \A b \in active : \E l \in LasersOf(b) : dev[l].berthing
             /\ req[r].awaits = NoTask
  BY <1>a, IdleServed
<1>b. /\ NoRequest.op = "none" /\ NoRequest.st = "idle" /\ NoRequest.awaits = NoTask
      /\ NoRequest \in Request
  BY NoRequestShape
<1>1. ASSUME NEW b \in Berths, NEW id \in Bids, StartBerthing(r, b, id)
      PROVE  Agreement'
  <2> DEFINE q == [NoRequest EXCEPT !.op = "start", !.berth = b, !.bid = id,
                                    !.st = "gather", !.todo = LasersOf(b)]
  <2>1. q.op = "start" /\ q.berth = b /\ q.bid = id /\ q.st = "gather" /\ q.todo = LasersOf(b)
    BY DEF NoRequest
  <2>2. Idle(r) /\ SetReq(r, q) /\ UNCHANGED <<dev, task, active>>
    BY <1>1 DEF StartBerthing
  <2> HIDE DEF q
  <2>3. req'[r] = q
    BY <1>t, <2>2 DEF SetReq
  <2>4. \A l \in Lasers : call'[r][l] \in {NewCall("start_berthing", id, StartAttempts), NoCall}
    BY <1>1, <1>t DEF StartBerthing
  <2>5. Covered'
    BY <1>a, <2>2 DEF Covered, Serves, Live
  <2>6. ActiveBerths'
    BY <1>a, <2>2 DEF ActiveBerths, LasersOf
  <2>7. Working(r)'
    BY <2>1, <2>3 DEF Working, Idle, LasersOf
  <2>8. \A l \in Lasers : Calling(r, l)'
    BY <2>1, <2>3, <2>4 DEF Calling, OnTheWay, NewCall, NoCall, At
  <2> QED  BY <1>t, <2>5, <2>6, <2>7, <2>8 DEF Agreement
<1>2. ASSUME NEW b \in Berths, NEW op, BeginStop(r, op, b)
      PROVE  Agreement'
  <2>1. op = "stop" /\ Idle(r) /\ phase = "running" /\ Targets(op, b) # {}
    BY <1>2 DEF BeginStop, Serial
  <2>2. Targets(op, b) = {l \in LasersOf(b) : dev[l].berthing}
    BY <2>1 DEF Targets
  <2> DEFINE now == [NoRequest EXCEPT !.op = op, !.berth = b, !.todo = Targets(op, b)]
  <2>3. now.op = "stop" /\ now.berth = b /\ now.todo = Targets(op, b) /\ now \in Request
    BY <2>1, <2>2, <1>b DEF NoRequest, Request, LasersOf, AllOps
  <2>4. UNCHANGED <<dev, call>>
    BY <1>2 DEF BeginStop
  <2>5. PICK q : /\ SetReq(r, q)
                 /\ q.op = "stop" /\ q.berth = b /\ q.todo = Targets(op, b)
                 /\ \/ /\ q.st = "lasers" /\ active' = active \ {b} /\ UNCHANGED task
                    \/ /\ q.st = "await" /\ registered[b] # NoTask /\ UNCHANGED active
                       /\ \E t : SetTask(registered[b], t)
    <3> HIDE DEF now
    <3>1. CASE registered[b] = NoTask
      <4> DEFINE q == [now EXCEPT !.st = "lasers"]
      <4>1. /\ q.op = "stop" /\ q.berth = b /\ q.todo = Targets(op, b) /\ q.st = "lasers"
        BY <2>3 DEF Request
      <4>2. SetReq(r, q) /\ Deactivate(b) /\ UNCHANGED task
        BY <1>2, <3>1 DEF BeginStop, now
      <4> HIDE DEF q
      <4> QED  BY <4>1, <4>2 DEF Deactivate
    <3>2. CASE registered[b] # NoTask
      <4> DEFINE q == [now EXCEPT !.st = "await", !.awaits = registered[b]]
      <4>1. /\ q.op = "stop" /\ q.berth = b /\ q.todo = Targets(op, b) /\ q.st = "await"
        BY <2>3 DEF Request
      <4>2. SetReq(r, q) /\ UNCHANGED active /\ \E t : SetTask(registered[b], t)
        BY <1>2, <3>2 DEF BeginStop, now
      <4> HIDE DEF q
      <4> QED  BY <3>2, <4>1, <4>2
    <3> QED  BY <3>1, <3>2
  <2>6. req'[r] = q
    BY <1>t, <2>5 DEF SetReq
  <2>7. \A l \in LasersOf(b) : dev[l].berthing => Leaving(r, l)'
    BY <1>a, <2>1, <2>2, <2>4, <2>5, <2>6 DEF Leaving, Returned, LasersOf
  <2>8. ASSUME NEW l \in Lasers, BerthOf[l] # b, NEW k \in Tasks, Serves(k, l)
        PROVE  Serves(k, l)'
    <3>1. CASE UNCHANGED task
      BY <2>4, <2>8, <3>1 DEF Serves, Live
    <3>2. CASE registered[b] # NoTask /\ \E t : SetTask(registered[b], t)
      <4>1. Live(registered[b]) /\ task[registered[b]].berth = b
        <5>1. ~(\E s \in Requests : req[s].awaits = registered[b])
          BY <1>a, <1>t, <2>1, <3>2
        <5> QED  BY <2>1, <3>2, <5>1 DEF RegistryInv, RegistryRuns
      <4>2. k # registered[b]
        BY <2>8, <4>1 DEF Serves
      <4>3. task'[k] = task[k]
        BY <1>t, <3>2, <4>2 DEF SetTask
      <4> QED  BY <2>4, <2>8, <4>3 DEF Serves, Live
    <3> QED  BY <2>5, <3>1, <3>2
  <2>9. Covered'
    <3> SUFFICES ASSUME NEW l \in Lasers, dev'[l].berthing
                 PROVE  \/ BerthOf[l] \in active' /\ \E k \in Tasks : Serves(k, l)'
                        \/ \E s \in Requests : Pending(s, l)' \/ Leaving(s, l)'
      BY DEF Covered
    <3>1. CASE BerthOf[l] = b
      BY <2>4, <2>7, <3>1 DEF LasersOf
    <3>2. CASE BerthOf[l] # b
      <4>1. BerthOf[l] \in active'
        BY <1>a, <2>1, <2>4, <2>5, <3>2
      <4> QED  BY <1>a, <2>1, <2>4, <2>8, <3>2, <4>1
    <3> QED  BY <3>1, <3>2
  <2>10. ActiveBerths'
    BY <1>a, <2>1, <2>4, <2>5, <2>6 DEF ActiveBerths, LasersOf
  <2>11. Working(r)'
    <3>1. q.st = "await" => b \in active'
      BY <2>5 DEF RegistryInv, RegisteredIffActive
    <3>2. Targets(op, b) \subseteq LasersOf(b)
      BY <2>2
    <3>3. (\A l \in LasersOf(b) : dev[l].berthing => l \in q.todo)'
      <4>1. \A l \in LasersOf(b) : dev[l].berthing => l \in q.todo
        BY <2>2, <2>5
      <4> QED  BY <2>4, <4>1 DEF LasersOf
    <3>4. q.st = "await" <=> b \in active'
      BY <2>5, <3>1
    <3>5. LasersOf(b)' = LasersOf(b)
      BY DEF LasersOf
    <3> QED  BY <2>2, <2>5, <2>6, <3>2, <3>3, <3>4, <3>5 DEF Working, Idle
  <2>12. \A l \in Lasers : Calling(r, l)'
    BY <1>a, <2>1, <2>4 DEF Calling, At
  <2> QED  BY <1>t, <2>9, <2>10, <2>11, <2>12 DEF Agreement
<1>3. ASSUME NEW l \in Lasers, Restart(r, l)
      PROVE  Agreement'
  <2> DEFINE q == [NoRequest EXCEPT !.op = "restart", !.berth = BerthOf[l],
                                    !.bid = dev[l].berthingId, !.st = "lasers", !.todo = {l}]
  <2>1. q.op = "restart" /\ q.bid = dev[l].berthingId /\ q.st = "lasers" /\ q.todo = {l}
    BY DEF NoRequest
  <2>2. Idle(r) /\ dev[l].berthing /\ SetReq(r, q) /\ UNCHANGED <<dev, call, task, active>>
    BY <1>3 DEF Restart
  <2> HIDE DEF q
  <2>3. req'[r] = q
    BY <1>t, <2>2 DEF SetReq
  <2>4. Covered'
    BY <1>a, <2>2 DEF Covered, Serves, Live
  <2>5. ActiveBerths'
    BY <1>a, <2>2 DEF ActiveBerths, LasersOf
  <2>6. Working(r)'
    BY <2>1, <2>2, <2>3 DEF Working, Idle
  <2>7. \A m \in Lasers : Calling(r, m)'
    BY <1>a, <2>2 DEF Calling, At
  <2> QED  BY <1>t, <2>4, <2>5, <2>6, <2>7 DEF Agreement
<1>4. ~Shutdown(r) /\ \A b \in Berths : ~StartDrift(r, b)
  BY DEF Shutdown, StartDrift, Serial
<1> QED  BY <1>1, <1>2, <1>3, <1>4 DEF Accept

LEMMA AgreeRequestStep ==
  ASSUME Serial, RegistryInv, LockInv, Agreement, NEW r \in Requests, RequestStep(r)
  PROVE  Agreement'
<1>t. /\ TypeOK /\ call \in [Requests -> [Lasers -> Call]] /\ dev \in [Lasers -> Device]
      /\ req \in [Requests -> Request] /\ active \in SUBSET Berths
      /\ registered \in [Berths -> Tasks \cup {NoTask}] /\ task \in [Tasks -> Loop]
      /\ \A s \in Requests : s = r
      /\ RequestShape(r) /\ CallsOwned(r) /\ Working(r) /\ \A l \in Lasers : Calling(r, l)
      /\ req[r] \in Request
  BY AgreeTypes DEF Serial, Agreement
<1>b. ASSUME Answer(r)
      PROVE  req'[r] = NoRequest /\ Working(r)'
  <2>1. req'[r] = NoRequest
    BY <1>b, <1>t DEF Answer, SetReq
  <2> QED  BY <2>1, NoRequestShape DEF Working, Idle
<1>c. req[r].op # "shutdown" /\ req[r].op # "drift"
  BY <1>t DEF Working
<1>1. CASE EndStart(r)
  <2> DEFINE b == req[r].berth
  <2> DEFINE started == {l \in req[r].todo : At(r, l, "ok")}
  <2>1. /\ req[r].op = "start" /\ b \in Berths /\ req[r].todo = LasersOf(b)
        /\ Answer(r) /\ UNCHANGED dev
        /\ \A l \in Lasers : call'[r][l] = NoCall
    BY <1>1, <1>t DEF EndStart, RequestShape, Working
  <2>2. \A l \in Lasers : Calling(r, l)'
    BY <2>1 DEF Calling, NoCall, At, OnTheWay
  <2>3. \A l \in Lasers : ~Leaving(r, l)
    BY <2>1 DEF Leaving
  <2>4. \A c \in active : \E l \in LasersOf(c) : dev[l].berthing
    BY <1>t, <2>1 DEF Agreement, ActiveBerths
  <2>5. CASE started = {}
    <3>1. \A l \in Lasers : ~Pending(r, l)
      BY <2>5 DEF Pending
    <3>2. UNCHANGED <<task, active>>
      BY <1>1, <2>5 DEF EndStart
    <3>3. Covered'
      BY <1>t, <2>1, <2>3, <3>1, <3>2 DEF Agreement, Covered, Serves, Live
    <3>4. ActiveBerths'
      BY <2>1, <2>4, <3>2 DEF ActiveBerths, LasersOf
    <3> QED  BY <1>b, <1>t, <2>1, <2>2, <3>3, <3>4 DEF Agreement
  <2>6. CASE started # {}
    <3>1. LaunchLoop("berthing", b, req[r].bid, started)
      BY <1>1, <2>6 DEF EndStart
    <3>2. PICK k \in FreeTasks : SetTask(k, NewLoop("berthing", b, req[r].bid, started))
      BY <3>1 DEF LaunchLoop
    <3>3. k \in Tasks /\ task[k].st = "done" /\ active' = active \cup {b}
      BY <3>1 DEF LaunchLoop, FreeTasks
    <3>4. /\ task'[k] = NewLoop("berthing", b, req[r].bid, started)
          /\ \A j \in Tasks \ {k} : task'[j] = task[j]
      BY <1>t, <3>2, <3>3 DEF SetTask
    <3>5. ASSUME NEW l \in Lasers, NEW j \in Tasks, Serves(j, l)
          PROVE  Serves(j, l)'
      <4>1. j # k
        BY <3>3, <3>5 DEF Serves, Live
      <4> QED  BY <2>1, <3>4, <3>5, <4>1 DEF Serves, Live
    <3>6. ASSUME NEW l \in Lasers, Pending(r, l)
          PROVE  Serves(k, l)' /\ BerthOf[l] \in active'
      <4>1. l \in started /\ BerthOf[l] = b /\ dev[l].berthingId = req[r].bid
        BY <2>1, <3>6 DEF Pending, LasersOf
      <4> HIDE DEF started
      <4> QED  BY <2>1, <3>3, <3>4, <4>1 DEF Serves, Live, NewLoop
    <3>7. Covered'
      BY <1>t, <2>1, <2>3, <3>3, <3>5, <3>6 DEF Agreement, Covered
    <3>8. \E l \in LasersOf(b) : dev[l].berthing
      <4>1. PICK l \in started : TRUE
        BY <2>6
      <4> QED  BY <1>t, <2>1, <4>1 DEF Calling, LasersOf
    <3>9. ActiveBerths'
      BY <2>1, <2>4, <3>3, <3>8 DEF ActiveBerths, LasersOf
    <3> QED  BY <1>b, <1>t, <2>1, <2>2, <3>7, <3>9 DEF Agreement
  <2> QED  BY <2>5, <2>6
<1>2. CASE StopResumes(r)
  <2> DEFINE b == req[r].berth
  <2> DEFINE q == [req[r] EXCEPT !.st = "lasers", !.awaits = NoTask]
  <2>1. /\ req[r].st = "await" /\ req[r].op = "stop" /\ b \in active
        /\ UNCHANGED <<dev, call, task>>
    BY <1>2, <1>c, <1>t DEF StopResumes, RequestShape, Working
  <2>2. SetReq(r, q) /\ active' = active \ {b}
    BY <1>2, <1>t, <2>1 DEF StopResumes, Deactivate, RegistryInv, RegisteredIffActive
  <2>3. q.st = "lasers" /\ q.op = "stop" /\ q.todo = req[r].todo /\ q.berth = b
    BY <1>t, <2>1 DEF Request
  <2> HIDE DEF q
  <2>4. req'[r] = q
    BY <1>t, <2>2 DEF SetReq
  <2>5. \A l \in LasersOf(b) : dev[l].berthing => Leaving(r, l)'
    <3>1. \A l \in Lasers : call[r][l].st = "idle"
      BY <1>t, <2>1 DEF CallsOwned
    <3> QED  BY <1>t, <2>1, <2>3, <2>4, <3>1 DEF Working, Leaving, Returned, LasersOf
  <2>6. \A l \in Lasers, k \in Tasks : Serves(k, l) => Serves(k, l)'
    BY <2>1 DEF Serves, Live
  <2>7. \A l \in Lasers : ~Pending(r, l) /\ (Leaving(r, l) => BerthOf[l] = b)
    BY <1>t, <2>1 DEF Working, Pending, Leaving, LasersOf
  <2>8. Covered'
    <3> SUFFICES ASSUME NEW l \in Lasers, dev'[l].berthing
                 PROVE  \/ BerthOf[l] \in active' /\ \E k \in Tasks : Serves(k, l)'
                        \/ \E s \in Requests : Pending(s, l)' \/ Leaving(s, l)'
      BY DEF Covered
    <3>1. CASE BerthOf[l] = b
      BY <2>1, <2>5, <3>1 DEF LasersOf
    <3>2. CASE BerthOf[l] # b
      BY <1>t, <2>1, <2>2, <2>6, <2>7, <3>2 DEF Agreement, Covered
    <3> QED  BY <3>1, <3>2
  <2>9. ActiveBerths'
    BY <1>t, <2>1, <2>2 DEF Agreement, ActiveBerths, LasersOf
  <2>10. Working(r)'
    BY <1>t, <2>1, <2>2, <2>3, <2>4 DEF Working, Idle, LasersOf
  <2>11. \A l \in Lasers : Calling(r, l)'
    BY <1>t, <2>1, <2>3, <2>4 DEF Calling, CallsOwned, At
  <2> QED  BY <1>t, <2>8, <2>9, <2>10, <2>11 DEF Agreement
<1>3. CASE EndLasers(r)
  <2>1. /\ req[r].st = "lasers" /\ req[r].todo = {} /\ Answer(r)
        /\ UNCHANGED <<dev, call, task, active>>
    BY <1>3, <1>c DEF EndLasers
  <2>2. \A l \in Lasers : ~Pending(r, l) /\ ~Leaving(r, l)
    BY <2>1 DEF Pending, Leaving
  <2>3. Covered'
    BY <1>t, <2>1, <2>2 DEF Agreement, Covered, Serves, Live
  <2>4. ActiveBerths'
    BY <1>t, <2>1 DEF Agreement, ActiveBerths, LasersOf
  <2>5. \A l \in Lasers : Calling(r, l)'
    BY <1>t, <2>1 DEF Calling, CallsOwned, IsFirst, At
  <2> QED  BY <1>b, <1>t, <2>1, <2>3, <2>4, <2>5 DEF Agreement
<1>4. ASSUME NEW l \in Lasers, NextLaser(r, l)
      PROVE  Agreement'
  <2> DEFINE c == NewCall(CallFor(req[r].op), req[r].bid,
                          IF req[r].op = "restart" THEN RestartAttempts ELSE 1)
  <2>1. /\ req[r].st = "lasers" /\ call[r][l].st = "idle" /\ SetCall(r, l, c)
        /\ UNCHANGED <<dev, req, task, active>>
    BY <1>4 DEF NextLaser, At, managerVars
  <2>2. req[r].op \in {"stop", "restart"}
    BY <1>t, <2>1 DEF Working, Idle
  <2>3. /\ c.st = "begin" /\ c.bid = req[r].bid
        /\ c.op = IF req[r].op = "stop" THEN "stop_berthing" ELSE "start_berthing"
    BY <2>2 DEF NewCall, CallFor
  <2> HIDE DEF c
  <2>4. call'[r][l] = c /\ \A m \in Lasers \ {l} : call'[r][m] = call[r][m]
    BY <1>t, <2>1 DEF SetCall
  <2>5. \A m \in Lasers : ~Pending(r, m) /\ (Leaving(r, m) => Leaving(r, m)')
    BY <2>1, <2>2, <2>3, <2>4 DEF Pending, Leaving, Returned
  <2>6. Covered'
    BY <1>t, <2>1, <2>5 DEF Agreement, Covered, Serves, Live
  <2>7. ActiveBerths'
    BY <1>t, <2>1 DEF Agreement, ActiveBerths, LasersOf
  <2>8. Working(r)'
    <3>1. req'[r] = req[r]
      BY <2>1
    <3> QED  BY <1>t, <2>1, <3>1 DEF Working, Idle, LasersOf
  <2>9. \A m \in Lasers : Calling(r, m)'
    BY <1>t, <2>1, <2>3, <2>4 DEF Calling, OnTheWay, At
  <2> QED  BY <1>t, <2>6, <2>7, <2>8, <2>9 DEF Agreement
<1>5. ASSUME NEW l \in Lasers, LaserDone(r, l)
      PROVE  Agreement'
  <2> DEFINE q == [req[r] EXCEPT !.todo = @ \ {l},
                                 !.won = IF At(r, l, "ok") THEN @ \cup {l} ELSE @]
  <2>1. /\ req[r].st = "lasers" /\ Returned(r, l) /\ SetCall(r, l, NoCall) /\ SetReq(r, q)
        /\ UNCHANGED <<dev, task, active>>
    BY <1>5, <1>c DEF LaserDone
  <2>2. req[r].op \in {"stop", "restart"}
    BY <1>t, <2>1 DEF Working, Idle
  <2>3. /\ q.st = "lasers" /\ q.op = req[r].op /\ q.todo = req[r].todo \ {l}
        /\ q.berth = req[r].berth /\ q.bid = req[r].bid
    BY <1>t, <2>1 DEF Request
  <2> HIDE DEF q
  <2>4. /\ req'[r] = q
        /\ call'[r][l] = NoCall /\ \A m \in Lasers \ {l} : call'[r][m] = call[r][m]
    BY <1>t, <2>1 DEF SetReq, SetCall
  <2>5. \A m \in Lasers : ~Pending(r, m)
    BY <2>2 DEF Pending
  <2>6. \A m \in Lasers : Leaving(r, m) => Leaving(r, m)'
    BY <2>1, <2>3, <2>4 DEF Leaving, Returned
  <2>7. Covered'
    BY <1>t, <2>1, <2>5, <2>6 DEF Agreement, Covered, Serves, Live
  <2>8. ActiveBerths'
    BY <1>t, <2>1 DEF Agreement, ActiveBerths, LasersOf
  <2>9. req[r].op = "stop" /\ l \in LasersOf(req[r].berth) => ~dev[l].berthing
    BY <1>t, <2>1, <2>5 DEF Agreement, Covered, Working, Leaving, LasersOf
  <2>10. Working(r)'
    BY <1>t, <2>1, <2>2, <2>3, <2>4, <2>9 DEF Working, Idle, LasersOf
  <2>11. \A m \in Lasers : Calling(r, m)'
    BY <1>t, <2>1, <2>3, <2>4 DEF Calling, OnTheWay, NoCall, At
  <2> QED  BY <1>t, <2>7, <2>8, <2>10, <2>11 DEF Agreement
<1>6. ~ShutdownResumes(r) /\ ~ShutdownEnds(r)
  BY <1>c DEF ShutdownResumes, ShutdownEnds
<1> QED  BY <1>1, <1>2, <1>3, <1>4, <1>5, <1>6 DEF RequestStep

(* The service does not come back from its shutdown.                        *)
LEMMA StaysStopped ==
  ASSUME Next, phase' = "running"
  PROVE  phase = "running"
<1>1. ASSUME NEW r \in Requests, Accept(r) PROVE phase = "running"
  BY <1>1 DEF Accept, StartBerthing, BeginStop, StartDrift, Restart, Shutdown
<1>2. ASSUME NEW r \in Requests, RequestStep(r) PROVE phase = "running"
  BY <1>2 DEF RequestStep, EndStart, StopResumes, EndLasers, ShutdownResumes, ShutdownEnds,
              NextLaser, LaserDone, managerVars
<1>3. ASSUME NEW k \in Tasks, LoopStep(k) PROVE phase = "running"
  BY <1>3 DEF LoopStep, LoopBegins, LoopWakes, LoopFetched, LoopCancelled
<1> QED  BY <1>1, <1>2, <1>3 DEF Next, managerVars

LEMMA AgreeInit == Init => AgreeInv
<1> SUFFICES ASSUME Init PROVE AgreeInv
  OBVIOUS
<1>1. RegistryInv /\ LockInv
  BY RegistryInit, LockInit
<1>2. \A l \in Lasers : ~dev[l].berthing
  BY DEF Init, DeviceInit, FreshDevice
<1>3. \A r \in Requests : req[r].op = "none" /\ req[r].st = "idle"
  BY NoRequestShape DEF Init
<1>4. \A r \in Requests, l \in Lasers : call[r][l].st = "idle"
  BY DEF Init, DeviceInit, NoCall
<1>5. Covered /\ ActiveBerths
  BY <1>2 DEF Init, Covered, ActiveBerths
<1>6. \A r \in Requests : Working(r)
  BY <1>3 DEF Working, Idle
<1>7. \A r \in Requests, l \in Lasers : Calling(r, l)
  BY <1>4 DEF Calling, At
<1> QED  BY <1>1, <1>5, <1>6, <1>7 DEF AgreeInv, Agreement

LEMMA AgreeStep == Serial /\ AgreeInv /\ [Next]_vars => AgreeInv'
<1> SUFFICES ASSUME Serial, AgreeInv, [Next]_vars PROVE AgreeInv'
  OBVIOUS
<1>1. RegistryInv' /\ LockInv'
  BY RegistryStep, LockStep DEF AgreeInv
<1>2. ASSUME phase' = "running" PROVE Agreement'
  <2>1. CASE Next
    <3>1. phase = "running" /\ RegistryInv /\ LockInv /\ Agreement
      BY <1>2, <2>1, StaysStopped DEF AgreeInv
    <3> QED  BY <1>2, <2>1, <3>1, AgreeAccept, AgreeRequestStep, AgreeCall, AgreeLink, AgreeLoop
             DEF Next
  <2>2. CASE UNCHANGED vars
    BY <1>2, <2>2 DEF vars, AgreeInv, Agreement, Covered, ActiveBerths, Working, Calling,
                      Pending, Leaving, Serves, Live, At, Returned, Idle, LasersOf
  <2> QED  BY <2>1, <2>2
<1> QED  BY <1>1, <1>2 DEF AgreeInv

(* For a client that waits for each answer, and whatever the links do: when *)
(* no request is in progress, a berth is active exactly when one of its     *)
(* lasers is in berthing mode, and each such laser has a running loop that  *)
(* stores its rows under its session id.                                    *)
THEOREM SerialAgreement == Serial /\ Spec => []QuietAgreement
<1>1. AgreeInv => QuietAgreement
  <2> SUFFICES ASSUME AgreeInv, Quiet, phase = "running"
               PROVE  /\ \A b \in Berths : b \in active <=> \E l \in LasersOf(b) : dev[l].berthing
                      /\ \A l \in Lasers : dev[l].berthing => \E k \in Tasks : Serves(k, l)
    BY DEF QuietAgreement
  <2>1. \A r \in Requests : req[r].op = "none" /\ req[r].st = "idle"
    BY DEF AgreeInv, Agreement, Working, Quiet, Idle
  <2>2. \A r \in Requests, l \in Lasers : ~Pending(r, l) /\ ~Leaving(r, l)
    BY <2>1 DEF Pending, Leaving
  <2>3. \A l \in Lasers : dev[l].berthing =>
          BerthOf[l] \in active /\ \E k \in Tasks : Serves(k, l)
    BY <2>2 DEF AgreeInv, Agreement, Covered
  <2>4. \A b \in active : \E l \in LasersOf(b) : dev[l].berthing
    BY <2>1 DEF AgreeInv, Agreement, ActiveBerths
  <2> QED  BY <2>3, <2>4 DEF LasersOf
<1>2. ASSUME Serial PROVE AgreeInv /\ [Next]_vars => AgreeInv'
  BY <1>2, AgreeStep
<1>3. CASE Serial
  BY <1>1, <1>2, <1>3, AgreeInit, PTL DEF Spec
<1>4. CASE ~Serial
  BY <1>4
<1> QED  BY <1>3, <1>4
=============================================================================
