----------------------------- MODULE BerthModes -----------------------------
(***************************************************************************)
(* MultiLaserManager (laser-service/core/multi_laser_manager.py) and the   *)
(* berthing routes that drive it: the requests that change the mode of a   *)
(* berth, the per-berth loops that collect data, and shutdown.  The work   *)
(* on one laser is LaserOps.                                               *)
(*                                                                         *)
(* A request is a coroutine of its own: up to Cardinality(Requests) of     *)
(* them interleave at their awaits, and with a single element the client   *)
(* waits for each answer before it asks again.                             *)
(***************************************************************************)
EXTENDS LaserOps

CONSTANTS
  Berths,           (* berth ids                                             *)
  BerthOf,          (* BerthOf[l]: the berth that laser l is configured for  *)
  Tasks,            (* identities of asyncio tasks that run a data loop      *)
  Ops,              (* the operations that clients use                       *)
  CancelCanBeLost   (* asyncio.wait_for of Python 3.11 may swallow a cancel  *)

AllOps == {"start", "stop", "restart", "drift", "stop_drift", "off", "shutdown"}

ASSUME BerthModesAssumption ==
  /\ Berths \subseteq Nat \ {0}
  /\ BerthOf \in [Lasers -> Berths]
  /\ Tasks \subseteq Nat \ {0}
  /\ Ops \subseteq AllOps
  /\ CancelCanBeLost \in BOOLEAN

VARIABLES
  req,         (* req[r]: the request that runs in slot r                    *)
  task,        (* task[k]: a data loop                                       *)
  registered,  (* registered[b]: berth_sync_tasks.get(b)                     *)
  active,      (* active_berths                                              *)
  phase        (* "running", "stopping" (the shutdown event is set), "stopped" *)

managerVars == <<req, task, registered, active, phase>>
vars == <<dev, lock, call, req, task, registered, active, phase>>

NoTask  == 0
NoBerth == 0

Request ==
  [op: AllOps \cup {"none"}, berth: Berths \cup {NoBerth}, bid: Bids \cup {NoId},
   st: {"idle", "gather", "await", "lasers"},
   todo: SUBSET Lasers,               \* lasers not dealt with yet
   won: SUBSET Lasers,                \* lasers whose coroutine returned True
   awaits: Tasks \cup {NoTask}]       \* the cancelled loop it waits for

NoRequest ==
  [op |-> "none", berth |-> NoBerth, bid |-> NoId, st |-> "idle",
   todo |-> {}, won |-> {}, awaits |-> NoTask]

(* A loop is suspended in its one second sleep, in get_continuous_data for  *)
(* laser cur with the lasers of left still to visit, or has been cancelled  *)
(* and not run since.                                                       *)
Loop ==
  [kind: {"berthing", "drift"}, berth: Berths \cup {NoBerth}, bid: Bids \cup {NoId},
   lasers: SUBSET Lasers, st: {"new", "sleep", "fetch", "cancelled", "done"},
   left: SUBSET Lasers, cur: Lasers \cup {0},
   missed: BOOLEAN]                   \* a cancel of it was lost

NewLoop(kind, b, id, lasers) ==
  [kind |-> kind, berth |-> b, bid |-> id, lasers |-> lasers,
   st |-> "new", left |-> {}, cur |-> 0, missed |-> FALSE]

NoLoop ==
  [kind |-> "drift", berth |-> NoBerth, bid |-> NoId, lasers |-> {},
   st |-> "done", left |-> {}, cur |-> 0, missed |-> FALSE]

Init ==
  /\ DeviceInit
  /\ req = [r \in Requests |-> NoRequest]
  /\ task = [k \in Tasks |-> NoLoop]
  /\ registered = [b \in Berths |-> NoTask]
  /\ active = {}
  /\ phase = "running"

-----------------------------------------------------------------------------
(* Helpers.                                                                 *)

LasersOf(b) == {l \in Lasers : BerthOf[l] = b}
IsFirst(x, S) == x \in S /\ \A y \in S : x <= y

Idle(r) == req[r].st = "idle"
Quiet   == \A r \in Requests : Idle(r)

Live(k) == task[k].st \in {"new", "sleep", "fetch"}

(* A slot of Tasks that no dictionary entry and no waiter refers to.        *)
FreeTasks ==
  {k \in Tasks : /\ task[k].st = "done"
                 /\ \A b \in Berths : registered[b] # k
                 /\ \A r \in Requests : req[r].awaits # k}

(* Bound: a request that will create a loop is accepted only when a slot is *)
(* left for it.                                                             *)
RoomForLoop ==
  Cardinality(FreeTasks) > Cardinality({r \in Requests : req[r].op \in {"start", "drift"}})

(* What the request with these fields works on.                             *)
Targets(op, b) ==
  {l \in LasersOf(b) : \/ op = "stop" /\ dev[l].berthing
                       \/ op = "stop_drift" /\ dev[l].drift
                       \/ op = "off"}

CallFor(op) == CASE op = "stop" -> "stop_berthing"
                 [] op = "off" -> "off"
                 [] op = "drift" -> "start_drift"
                 [] op = "stop_drift" -> "stop_drift"
                 [] op = "restart" -> "start_berthing"
                 [] op = "shutdown" -> "shutdown"

SetReq(r, q) == req' = [req EXCEPT ![r] = q]
Answer(r)    == SetReq(r, NoRequest)
SetTask(k, t) == task' = [task EXCEPT ![k] = t]

(* Mutant: the loop is awaited without being cancelled.                     *)
NotCancelled(t) == {t}

(* task.cancel(): the CancelledError is raised at the await of the loop.    *)
(* wait_for of Python 3.11, which the Dockerfile installs, returns the      *)
(* result of a queue.get() that had finished before the cancel arrived, and *)
(* the cancel is lost.                                                      *)
CanMiss(t) == CancelCanBeLost /\ t.st = "fetch"
Cancel(t)  == [t EXCEPT !.st = IF @ = "done" THEN "done" ELSE "cancelled"]
Missed(t)  == [t EXCEPT !.missed = TRUE]
Cancelled(t) == {Cancel(t)} \cup (IF CanMiss(t) THEN {Missed(t)} ELSE {})

-----------------------------------------------------------------------------
(* start_berthing_mode(b, id): the lasers are started concurrently, then    *)
(* one loop serves those that started.                                      *)

StartBerthing(r, b, id) ==
  /\ "start" \in Ops
  /\ Idle(r) /\ phase = "running" /\ RoomForLoop
  /\ LasersOf(b) # {}
  /\ SetReq(r, [NoRequest EXCEPT !.op = "start", !.berth = b, !.bid = id,
                                  !.st = "gather", !.todo = LasersOf(b)])
  /\ call' = [call EXCEPT ![r] =
                [l \in Lasers |-> IF l \in LasersOf(b)
                                  THEN NewCall("start_berthing", id, StartAttempts)
                                  ELSE NoCall]]
  /\ UNCHANGED <<dev, lock, task, registered, active, phase>>

(* Mutant: a loop that already serves the berth is kept.                    *)
LaunchUnlessRegistered(kind, b, id, lasers) ==
  /\ active' = active \cup {b}
  /\ IF registered[b] # NoTask
     THEN UNCHANGED <<task, registered>>
     ELSE \E k \in FreeTasks :
            /\ SetTask(k, NewLoop(kind, b, id, lasers))
            /\ registered' = [registered EXCEPT ![b] = k]

(* active_berths.add, create_task, and the dictionary entry overwritten.    *)
LaunchLoop(kind, b, id, lasers) ==
  /\ active' = active \cup {b}
  /\ \E k \in FreeTasks :
       /\ IsFirst(k, FreeTasks)
       /\ SetTask(k, NewLoop(kind, b, id, lasers))
       /\ registered' = [registered EXCEPT ![b] = k]

EndStart(r) ==
  /\ req[r].st = "gather"
  /\ \A l \in req[r].todo : Returned(r, l)
  /\ LET started == {l \in req[r].todo : At(r, l, "ok")} IN
       IF started = {}
       THEN UNCHANGED <<task, registered, active>>
       ELSE LaunchLoop("berthing", req[r].berth, req[r].bid, started)
  /\ call' = [call EXCEPT ![r] = [l \in Lasers |-> NoCall]]
  /\ Answer(r)
  /\ UNCHANGED <<dev, lock, phase>>

-----------------------------------------------------------------------------
(* stop_berthing_mode(b), stop_drift_mode(b) and set_berth_mode_off(b):     *)
(* cancel the registered loop and wait for it, drop it, deactivate the      *)
(* berth, then one laser after the other.  With no target the first two     *)
(* return at once and change nothing.                                       *)

(* Mutant: the active berth is left behind.                                 *)
DeactivateKeepsActive(b) ==
  /\ registered' = [registered EXCEPT ![b] = NoTask]
  /\ UNCHANGED active

Deactivate(b) ==
  /\ registered' = [registered EXCEPT ![b] = NoTask]
  /\ active' = active \ {b}

BeginStop(r, op, b) ==
  /\ op \in Ops \cap {"stop", "stop_drift", "off"}
  /\ Idle(r) /\ phase = "running"
  /\ Targets(op, b) # {}
  /\ LET now == [NoRequest EXCEPT !.op = op, !.berth = b, !.todo = Targets(op, b)] IN
       IF registered[b] = NoTask
       THEN /\ SetReq(r, [now EXCEPT !.st = "lasers"])
            /\ Deactivate(b)
            /\ UNCHANGED task
       ELSE /\ SetReq(r, [now EXCEPT !.st = "await", !.awaits = registered[b]])
            /\ \E t \in Cancelled(task[registered[b]]) : SetTask(registered[b], t)
            /\ UNCHANGED <<registered, active>>
  /\ UNCHANGED <<dev, lock, call, phase>>

(* "del self.berth_sync_tasks[b]" after the await: whatever is registered   *)
(* by now goes; with nothing there the KeyError ends the request.           *)
StopResumes(r) ==
  /\ req[r].st = "await"
  /\ req[r].awaits # NoTask
  /\ task[req[r].awaits].st = "done"
  /\ IF registered[req[r].berth] = NoTask
     THEN Answer(r) /\ UNCHANGED <<registered, active>>
     ELSE /\ SetReq(r, [req[r] EXCEPT !.st = "lasers", !.awaits = NoTask])
          /\ Deactivate(req[r].berth)
  /\ UNCHANGED <<dev, lock, call, task, phase>>

-----------------------------------------------------------------------------
(* start_drift_mode(b), and POST /restart/{laser}, which runs               *)
(* start_berthing_mode on one laser past the manager.                       *)

StartDrift(r, b) ==
  /\ "drift" \in Ops
  /\ Idle(r) /\ phase = "running" /\ RoomForLoop
  /\ LasersOf(b) # {}
  /\ SetReq(r, [NoRequest EXCEPT !.op = "drift", !.berth = b, !.st = "lasers",
                                  !.todo = LasersOf(b)])
  /\ UNCHANGED <<dev, lock, call, task, registered, active, phase>>

Restart(r, l) ==
  /\ "restart" \in Ops
  /\ Idle(r) /\ phase = "running"
  /\ dev[l].berthing
  /\ SetReq(r, [NoRequest EXCEPT !.op = "restart", !.berth = BerthOf[l],
                                  !.bid = dev[l].berthingId, !.st = "lasers", !.todo = {l}])
  /\ UNCHANGED <<dev, lock, call, task, registered, active, phase>>

-----------------------------------------------------------------------------
(* One laser after the other, for every request but start.                  *)

NextLaser(r, l) ==
  /\ req[r].st = "lasers"
  /\ IsFirst(l, req[r].todo)
  /\ At(r, l, "idle")
  /\ req[r].op = "shutdown" => dev[l].berthing
  /\ SetCall(r, l, NewCall(CallFor(req[r].op), req[r].bid,
                           IF req[r].op = "restart" THEN RestartAttempts ELSE 1))
  /\ UNCHANGED <<dev, lock, managerVars>>

(* disconnect(): the flag goes, the socket is closed and its object kept.   *)
Disconnected(d) ==
  [d EXCEPT !.continuous = FALSE, !.status = "DISCONNECTED",
            !.socket = IF @ = "none" THEN "none" ELSE "dead"]

LaserDone(r, l) ==
  /\ req[r].st = "lasers"
  /\ IsFirst(l, req[r].todo)
  /\ \/ Returned(r, l)
     \/ req[r].op = "shutdown" /\ At(r, l, "idle") /\ ~dev[l].berthing
  /\ SetReq(r, [req[r] EXCEPT !.todo = @ \ {l},
                              !.won = IF At(r, l, "ok") THEN @ \cup {l} ELSE @])
  /\ SetCall(r, l, NoCall)
  /\ IF req[r].op = "shutdown" THEN SetDev(l, Disconnected(dev[l])) ELSE UNCHANGED dev
  /\ UNCHANGED <<lock, task, registered, active, phase>>

EndLasers(r) ==
  /\ req[r].st = "lasers" /\ req[r].op # "shutdown"
  /\ req[r].todo = {}
  /\ IF req[r].op = "drift" /\ req[r].won # {}
     THEN LaunchLoop("drift", req[r].berth, NoId, req[r].won)
     ELSE UNCHANGED <<task, registered, active>>
  /\ Answer(r)
  /\ UNCHANGED <<dev, lock, call, phase>>

-----------------------------------------------------------------------------
(* shutdown(): the server runs it when no request is left and takes no      *)
(* request afterwards.                                                      *)

Shutdown(r) ==
  /\ "shutdown" \in Ops
  /\ Quiet /\ phase = "running"
  /\ phase' = "stopping"
  /\ \E deaf \in SUBSET {k \in Tasks : CanMiss(task[k])} :
       task' = [k \in Tasks |->
                  IF \E b \in Berths : registered[b] = k
                  THEN IF k \in deaf THEN Missed(task[k]) ELSE Cancel(task[k])
                  ELSE task[k]]
  /\ SetReq(r, [NoRequest EXCEPT !.op = "shutdown", !.st = "await", !.todo = Lasers])
  /\ UNCHANGED <<dev, lock, call, registered, active>>

ShutdownResumes(r) ==
  /\ req[r].st = "await" /\ req[r].op = "shutdown"
  /\ \A b \in Berths : registered[b] # NoTask => task[registered[b]].st = "done"
  /\ SetReq(r, [req[r] EXCEPT !.st = "lasers"])
  /\ UNCHANGED <<dev, lock, call, task, registered, active, phase>>

ShutdownEnds(r) ==
  /\ req[r].st = "lasers" /\ req[r].op = "shutdown"
  /\ req[r].todo = {}
  /\ registered' = [b \in Berths |-> NoTask]
  /\ active' = {}
  /\ phase' = "stopped"
  /\ Answer(r)
  /\ UNCHANGED <<dev, lock, call, task>>

-----------------------------------------------------------------------------
(* _synchronized_berth_data_loop and _drift_stream_loop.                    *)

InMode(kind, l) == IF kind = "berthing" THEN dev[l].berthing ELSE dev[l].drift

(* Mutants: the loop does not look at active_berths; it ends when no laser  *)
(* is in its mode.                                                          *)
AtHeadOfAny(t) ==
  IF phase = "running"
  THEN [t EXCEPT !.st = "sleep", !.left = {}, !.cur = 0]
  ELSE NoLoop

(* The head of the while loop.                                              *)
AtHead(t) ==
  IF t.berth \in active /\ phase = "running"
  THEN [t EXCEPT !.st = "sleep", !.left = {}, !.cur = 0]
  ELSE NoLoop

VisitedOrEnds(t, rest) ==
  LET S == {l \in rest : InMode(t.kind, l)} IN
    IF S = {} THEN {NoLoop}
    ELSE {[t EXCEPT !.st = "fetch", !.cur = l, !.left = {x \in rest : x > l}]
            : l \in {x \in S : IsFirst(x, S)}}

(* Visit the next laser of rest that is in the mode of the loop; after the  *)
(* last one go back to the head.                                            *)
Visited(t, rest) ==
  LET S == {l \in rest : InMode(t.kind, l)} IN
    IF S = {} THEN {AtHead(t)}
    ELSE {[t EXCEPT !.st = "fetch", !.cur = l, !.left = {x \in rest : x > l}]
            : l \in {x \in S : IsFirst(x, S)}}

LoopBegins(k) ==
  /\ task[k].st = "new"
  /\ SetTask(k, AtHead(task[k]))
  /\ UNCHANGED <<deviceVars, req, registered, active, phase>>

LoopWakes(k) ==
  /\ task[k].st = "sleep"
  /\ \E t \in Visited(task[k], task[k].lasers) : SetTask(k, t)
  /\ UNCHANGED <<deviceVars, req, registered, active, phase>>

(* get_continuous_data returns, with a measurement or without: a berthing   *)
(* loop inserts a row for cur either way (a task nobody waits for), a drift *)
(* loop broadcasts; neither looks at the mode of cur again.                 *)
LoopFetched(k) ==
  /\ task[k].st = "fetch"
  /\ \E t \in Visited(task[k], task[k].left) : SetTask(k, t)
  /\ UNCHANGED <<deviceVars, req, registered, active, phase>>

LoopCancelled(k) ==
  /\ task[k].st = "cancelled"
  /\ SetTask(k, NoLoop)
  /\ UNCHANGED <<deviceVars, req, registered, active, phase>>

-----------------------------------------------------------------------------

RequestStep(r) ==
  \/ EndStart(r) \/ StopResumes(r) \/ EndLasers(r)
  \/ ShutdownResumes(r) \/ ShutdownEnds(r)
  \/ \E l \in Lasers : NextLaser(r, l) \/ LaserDone(r, l)

LoopStep(k) == LoopBegins(k) \/ LoopWakes(k) \/ LoopFetched(k) \/ LoopCancelled(k)

Accept(r) ==
  \/ \E b \in Berths, id \in Bids : StartBerthing(r, b, id)
  \/ \E b \in Berths, op \in {"stop", "stop_drift", "off"} : BeginStop(r, op, b)
  \/ \E b \in Berths : StartDrift(r, b)
  \/ \E l \in Lasers : Restart(r, l)
  \/ Shutdown(r)

Next ==
  \/ \E r \in Requests : Accept(r) \/ RequestStep(r)
  \/ \E r \in Requests, l \in Lasers : CallStep(r, l) /\ UNCHANGED managerVars
  \/ \E l \in Lasers : LinkBreaks(l) /\ UNCHANGED managerVars
  \/ \E k \in Tasks : LoopStep(k)

Spec == Init /\ [][Next]_vars

(* The event loop runs every coroutine that can go on: weak fairness; the   *)
(* device lock is an asyncio.Lock, whose waiters are served in order, hence *)
(* strong fairness for the calls.  Clients and links are not fair.          *)
Fairness ==
  /\ \A r \in Requests : WF_vars(RequestStep(r))
  /\ \A r \in Requests, l \in Lasers : SF_vars(CallStep(r, l) /\ UNCHANGED managerVars)
  /\ \A k \in Tasks : WF_vars(LoopStep(k))

FairSpec == Spec /\ Fairness

-----------------------------------------------------------------------------

(* Type invariant: every field of the manager and of its lasers keeps the   *)
(* values the code can store there.                                         *)
TypeOK ==
  /\ DeviceTypeOK
  /\ req \in [Requests -> Request]
  /\ task \in [Tasks -> Loop]
  /\ registered \in [Berths -> Tasks \cup {NoTask}]
  /\ active \in SUBSET Berths
  /\ phase \in {"running", "stopping", "stopped"}

(* berth_sync_tasks and active_berths are changed by five handlers with     *)
(* awaits between their steps, and they still name the same berths at every *)
(* await, however the requests interleave.                                  *)
RegisteredIffActive ==
  \A b \in Berths : registered[b] # NoTask <=> b \in active

(* While the service runs, the registered task of a berth is a loop of that *)
(* berth that still runs, unless a stop, stop_drift or off request is       *)
(* waiting for its end: the dictionary never points at a dead loop that     *)
(* nobody is going to remove.                                               *)
RegistryRuns ==
  phase = "running" =>
    \A b \in Berths : registered[b] # NoTask =>
      \/ Live(registered[b]) /\ task[registered[b]].berth = b
      \/ \E r \in Requests : req[r].awaits = registered[b]

(* asyncio.Lock at work: at most one VT command at a time is waiting for    *)
(* its answer on a device, and the lock is held by exactly that call.       *)
OneCommandPerDevice ==
  \A l \in Lasers :
    /\ \A r1, r2 \in lock[l] : r1 = r2
    /\ \A r \in Requests : r \in lock[l] <=> At(r, l, "vt")

(* The mode that /status reports is never ahead of the flags the loops read, *)
(* and a laser in berthing mode always has the session id that a restart    *)
(* reuses: start, stop, off and drift write these fields at different awaits. *)
ModeBacked ==
  \A l \in Lasers :
    /\ dev[l].mode = "BERTHING" => dev[l].berthing
    /\ dev[l].mode = "DRIFT" => dev[l].drift
    /\ dev[l].berthing <=> dev[l].berthingId # NoId

(* When no request is in progress, a berth is active exactly when one of    *)
(* its lasers is in berthing mode, and every such laser is served by a      *)
(* running loop that stores its rows under the session id of the laser.     *)
Serves(k, l) ==
  /\ Live(k)
  /\ task[k].kind = "berthing"
  /\ task[k].berth = BerthOf[l]
  /\ task[k].bid = dev[l].berthingId
  /\ l \in task[k].lasers

QuietAgreement ==
  Quiet /\ phase = "running" =>
    /\ \A b \in Berths : b \in active <=> \E l \in LasersOf(b) : dev[l].berthing
    /\ \A l \in Lasers : dev[l].berthing => \E k \in Tasks : Serves(k, l)

(* A request is answered, whatever the links do and however many others     *)
(* compete for the devices; the only one that is not waits for a loop that  *)
(* swallowed the cancel it was sent (stop, multi_laser_manager.py:212).  A  *)
(* second stop that cancels that loop again frees it, and shutdown never    *)
(* waits so: the loops see its event.                                       *)
Unheard(r) == req[r].awaits # NoTask /\ Live(req[r].awaits) /\ task[req[r].awaits].missed

RequestsReturn == \A r \in Requests : (~Idle(r) /\ ~Unheard(r)) ~> (Idle(r) \/ Unheard(r))

(* A loop that was replaced in the dictionary is never cancelled, but it    *)
(* ends all the same unless its berth becomes active again.                 *)
Orphaned(k) == Live(k) /\ task[k].berth \notin active
OrphansEnd ==
  \A k \in Tasks : Orphaned(k) ~> (~Live(k) \/ task[k].berth \in active)

-----------------------------------------------------------------------------
(* What docstrings and route documentation promise and the code does not    *)
(* keep; every one of them has a run that shows the counterexample.         *)

(* The step in which a loop hands a row of its current laser to the         *)
(* database service.                                                        *)
Stores(k) == task[k].kind = "berthing" /\ LoopFetched(k)

(* "No database insertion occurs" while a laser is in drift mode.           *)
DriftNotStored ==
  [][\A k \in Tasks : Stores(k) => dev[task[k].cur].mode # "DRIFT"]_vars

(* "Stop berthing mode for all lasers associated with a berth": when all    *)
(* requests are answered, no laser of an inactive berth is left in it.      *)
NoneLeftBerthing ==
  Quiet => \A l \in Lasers : dev[l].berthing => BerthOf[l] \in active

(* A stop waits for the end of the loop, which it has cancelled             *)
(* (multi_laser_manager.py:210-216).                                        *)
StopsReturn == \A r \in Requests : ~Idle(r) ~> Idle(r)

=============================================================================
