--------------------------- MODULE DeviceShutdown ---------------------------
(***************************************************************************)
(* The life of ProductionLaserDevice (production_laser_device.py):         *)
(* initialize, the heartbeat loop, _graceful_shutdown as the shutdown      *)
(* handler of GracefulShutdownManager (graceful_shutdown.py) and as the    *)
(* cleanup of a failed initialize, with the task queue of TaskQueue.       *)
(* A signal starts shutdown(); a second signal returns at once.            *)
(*                                                                         *)
(* The devices are the only ones that register a handler: phase            *)
(* CLEANUP_RESOURCES, one priority, required.  The phases before it are    *)
(* empty.  The handler's timeout and the one of AsyncTaskQueue.stop inside *)
(* it are both 30 s and the handler's began first: it is the one to fire.  *)
(* Of the background tasks the heartbeat stands for both.                  *)
(***************************************************************************)
EXTENDS TaskQueue

VARIABLES
  init,            (* init[d]: progress of initialize()                      *)
  device_running,  (* device_running[d]: is_running of the device            *)
  heartbeat,       (* heartbeat[d]: the background task                      *)
  pool,            (* pool[d]: the connection pool                           *)
  run,             (* run[<<who, d>>]: a call of _graceful_shutdown          *)
  handlers,        (* the registered handlers, in their order                *)
  phase,           (* current_phase, with the stages of _force_shutdown      *)
  todo,            (* the handlers that the phase still has to execute       *)
  ready            (* history: devices that were initialized at the signal   *)

deviceVars == <<init, device_running, heartbeat, pool, handlers>>
shutdownVars == <<run, phase, todo, ready>>
vars == <<queueVars, deviceVars, shutdownVars>>

Runs == {"init", "handler"} \X Devices
RunStates == {"none", "heartbeat", "stop", "cancelling", "close", "interrupted", "done"}
Phases == {"starting", "cleanup", "completed", "force", "force_again", "forced"}

Init ==
  /\ QueueInit
  /\ init = [d \in Devices |-> "new"]
  /\ device_running = [d \in Devices |-> FALSE]
  /\ heartbeat = [d \in Devices |-> "none"]
  /\ pool = [d \in Devices |-> "open"]
  /\ run = [k \in Runs |-> "none"]
  /\ handlers = <<>>
  /\ phase = "starting"
  /\ todo = <<>>
  /\ ready = {}

-----------------------------------------------------------------------------
(* _graceful_shutdown, called for k = <<who, d>>.                           *)

(* Mutant: the pool is closed although the workers go on.                   *)
StopsNothing(k, runs, pools) ==
  /\ run' = [runs EXCEPT ![k] = "close"]
  /\ pool' = [pools EXCEPT ![k[2]] = "closing"]
  /\ is_running' = [is_running EXCEPT ![k[2]] = FALSE]

(* task_queue.stop() returns at once if the queue is not running, and       *)
(* pool.close() follows.                                                    *)
StopsQueue(k, runs, pools) ==
  IF is_running[k[2]]
  THEN /\ is_running' = [is_running EXCEPT ![k[2]] = FALSE]
       /\ run' = [runs EXCEPT ![k] = "stop"]
       /\ pool' = pools
  ELSE /\ run' = [runs EXCEPT ![k] = "close"]
       /\ pool' = [pools EXCEPT ![k[2]] = "closing"]
       /\ UNCHANGED is_running

Begins(k, runs, pools) ==
  LET d == k[2] IN
    /\ device_running' = [device_running EXCEPT ![d] = FALSE]
    /\ IF heartbeat[d] = "none"
       THEN StopsQueue(k, runs, pools) /\ UNCHANGED heartbeat
       ELSE /\ heartbeat' = [heartbeat EXCEPT ![d] = IF @ = "live" THEN "cancelled" ELSE @]
            /\ run' = [runs EXCEPT ![k] = "heartbeat"]
            /\ pool' = pools
            /\ UNCHANGED is_running

HeartbeatGathered(k) ==
  /\ run[k] = "heartbeat" /\ heartbeat[k[2]] = "ended"
  /\ StopsQueue(k, run, pool)
  /\ UNCHANGED <<now, scheduled_at, pending_tasks, processing_tasks, completed_tasks, worker,
                 client, init, device_running, heartbeat, handlers, phase, todo, ready>>

WorkersJoined(k) ==
  /\ run[k] \in {"stop", "cancelling"} /\ AllEnded(k[2])
  /\ run' = [run EXCEPT ![k] = "close"]
  /\ pool' = [pool EXCEPT ![k[2]] = "closing"]
  /\ UNCHANGED <<queueVars, init, device_running, heartbeat, handlers, phase, todo, ready>>

(* wait_for gives up after 30 s, cancels the workers and still waits for    *)
(* them; only the cleanup of initialize has the time.                       *)
JoinTimesOut(k) ==
  /\ k[1] = "init" /\ run[k] = "stop" /\ ~AllEnded(k[2])
  /\ run' = [run EXCEPT ![k] = "cancelling"]
  /\ CancelWorkers({k[2]})
  /\ UNCHANGED <<now, scheduled_at, pending_tasks, processing_tasks, completed_tasks, is_running,
                 client, deviceVars, phase, todo, ready>>

(* The pool is closed.  After a handler the next one begins, or shutdown is *)
(* complete; the cleanup ends initialize.                                   *)
PoolCloses(k) ==
  LET d == k[2]
      runs == [run EXCEPT ![k] = "done"]
      pools == [pool EXCEPT ![d] = "closed"]
  IN /\ run[k] = "close"
     /\ IF k[1] = "handler" /\ Len(todo) > 1
        THEN /\ todo' = Tail(todo)
             /\ Begins(<<"handler", todo[2]>>, runs, pools)
             /\ UNCHANGED <<phase, init>>
        ELSE /\ run' = runs /\ pool' = pools
             /\ init' = IF k[1] = "init" THEN [init EXCEPT ![d] = "failed"] ELSE init
             /\ phase' = IF k[1] = "handler" THEN "completed" ELSE phase
             /\ UNCHANGED <<todo, device_running, heartbeat, is_running>>
     /\ UNCHANGED <<now, scheduled_at, pending_tasks, processing_tasks, completed_tasks, worker,
                    client, handlers, ready>>

-----------------------------------------------------------------------------
(* initialize                                                               *)

(* A forced shutdown has cancelled whoever would call it.                   *)
Initialize(d) ==
  /\ init[d] = "new" /\ phase \in {"starting", "cleanup", "completed"}
  /\ init' = [init EXCEPT ![d] = "adding"]
  /\ UNCHANGED <<queueVars, device_running, heartbeat, pool, handlers, shutdownVars>>

(* add_connection returns, connected or not; the handler is registered and  *)
(* the first command is sent.                                               *)
Added(d) ==
  /\ init[d] = "adding"
  /\ init' = [init EXCEPT ![d] = "testing"]
  /\ StartWorkers(d)
  /\ handlers' = Append(handlers, d)
  /\ UNCHANGED <<now, scheduled_at, pending_tasks, processing_tasks, completed_tasks, client,
                 device_running, heartbeat, pool, shutdownVars>>

Tested(d) ==
  /\ init[d] = "testing"
  /\ init' = [init EXCEPT ![d] = "up"]
  /\ device_running' = [device_running EXCEPT ![d] = TRUE]
  /\ heartbeat' = [heartbeat EXCEPT ![d] = "live"]
  /\ UNCHANGED <<queueVars, pool, handlers, shutdownVars>>

TestFails(d) ==
  /\ init[d] = "testing"
  /\ init' = [init EXCEPT ![d] = "failing"]
  /\ Begins(<<"init", d>>, run, pool)
  /\ UNCHANGED <<now, scheduled_at, pending_tasks, processing_tasks, completed_tasks, worker,
                 client, handlers, phase, todo, ready>>

(* The loop sleeps for up to a minute and finds is_running cleared, or it   *)
(* is cancelled.                                                            *)
HeartbeatEnds(d) ==
  /\ heartbeat[d] = "cancelled" \/ (heartbeat[d] = "live" /\ ~device_running[d])
  /\ heartbeat' = [heartbeat EXCEPT ![d] = "ended"]
  /\ UNCHANGED <<queueVars, init, device_running, pool, handlers, shutdownVars>>

-----------------------------------------------------------------------------
(* GracefulShutdownManager.shutdown                                         *)

Signal ==
  /\ phase = "starting"
  /\ ready' = {d \in Devices : init[d] = "up"}
  /\ todo' = handlers
  /\ IF handlers = <<>>
     THEN /\ phase' = "completed"
          /\ UNCHANGED <<run, device_running, heartbeat, pool, is_running>>
     ELSE /\ phase' = "cleanup"
          /\ Begins(<<"handler", Head(handlers)>>, run, pool)
  /\ UNCHANGED <<now, scheduled_at, pending_tasks, processing_tasks, completed_tasks, worker,
                 client, init, handlers>>

(* _force_shutdown cancels every other task: workers, loops, callers and    *)
(* initialize().                                                            *)
ForceCancels ==
  /\ CancelWorkers(Devices)
  /\ heartbeat' = [d \in Devices |-> IF heartbeat[d] = "live" THEN "cancelled" ELSE heartbeat[d]]
  /\ client' = [t \in Tasks |-> IF client[t] = "idle" THEN "idle" ELSE "over"]
  /\ init' = [d \in Devices |->
                IF init[d] \in {"adding", "testing", "failing"} THEN "cancelled" ELSE init[d]]

(* Mutant: a handler that timed out is passed over, required or not.        *)
HandlerPassedOver ==
  LET k == <<"handler", Head(todo)>> IN
    /\ phase = "cleanup" /\ run[k] = "stop" /\ Len(todo) = 1
    /\ run' = [run EXCEPT ![k] = "done"]
    /\ phase' = "completed"
    /\ UNCHANGED <<queueVars, deviceVars, todo, ready>>

(* wait_for of the handler gives up and cancels it where it waits for the   *)
(* workers: gather passes the cancel on and is waited for.  The heartbeat   *)
(* obeys its cancel at once, so no timeout can fire there.                  *)
HandlerTimesOut ==
  LET k == <<"handler", Head(todo)>>
      d == Head(todo)
  IN /\ phase = "cleanup" /\ run[k] = "stop" /\ ~AllEnded(d)
     /\ run' = [run EXCEPT ![k] = "interrupted"]
     /\ CancelWorkers({d})
     /\ UNCHANGED <<now, scheduled_at, pending_tasks, processing_tasks, completed_tasks, is_running,
                    client, deviceVars, phase, todo, ready>>

(* The TimeoutError of a required handler ends the phases.                  *)
ForceShutdown ==
  LET k == <<"handler", Head(todo)>>
      d == Head(todo)
  IN /\ phase = "cleanup"
     /\ run[k] = "close" \/ (run[k] = "interrupted" /\ AllEnded(d))
     /\ phase' = "force"
     /\ ForceCancels
     /\ run' = [r \in Runs |-> IF run[r] = "none" THEN "none" ELSE "done"]
     /\ UNCHANGED <<now, scheduled_at, pending_tasks, processing_tasks, completed_tasks, is_running,
                    device_running, pool, handlers, todo, ready>>

Forced == phase \in {"force", "force_again", "forced"}

AllCancelled ==
  \A d \in Devices : AllEnded(d) /\ heartbeat[d] \in {"none", "ended"}

(* After 5 s, long after the first cancel arrived, wait_for cancels once    *)
(* more what is left and waits for it.                                      *)
ForceAgain ==
  /\ phase = "force" /\ ~AllCancelled
  /\ \A w \in Workers : ~worker[w].cancel
  /\ \A d \in Devices : heartbeat[d] # "cancelled"
  /\ phase' = "force_again"
  /\ CancelWorkers(Devices)
  /\ UNCHANGED <<now, scheduled_at, pending_tasks, processing_tasks, completed_tasks, is_running,
                 client, deviceVars, run, todo, ready>>

ForceEnds ==
  /\ phase \in {"force", "force_again"} /\ AllCancelled
  /\ phase' = "forced"
  /\ UNCHANGED <<queueVars, deviceVars, run, todo, ready>>

-----------------------------------------------------------------------------
Next ==
  \/ QueueNext /\ UNCHANGED <<deviceVars, shutdownVars>>
  \/ \E k \in Runs : HeartbeatGathered(k) \/ WorkersJoined(k) \/ JoinTimesOut(k) \/ PoolCloses(k)
  \/ \E d \in Devices : Initialize(d) \/ Added(d) \/ Tested(d) \/ TestFails(d) \/ HeartbeatEnds(d)
  \/ Signal \/ HandlerTimesOut \/ ForceShutdown \/ ForceAgain \/ ForceEnds

Spec == Init /\ [][Next]_vars

WorkerSteps(w) ==
  /\ \/ Takes(w) \/ PutsBack(w) \/ IdleEnds(w) \/ Succeeds(w) \/ Fails(w)
     \/ Retries(w) \/ Cancelled(w)
  /\ UNCHANGED <<deviceVars, shutdownVars>>

(* The event loop resumes every coroutine whose await is over, every        *)
(* wait_for has a timeout, and time passes.  Nobody has to send a signal,   *)
(* call the device or initialize it.                                        *)
Fairness ==
  /\ WF_vars(Tick /\ UNCHANGED <<deviceVars, shutdownVars>>)
  /\ \A w \in Workers : WF_vars(WorkerSteps(w))
  /\ \A k \in Runs : WF_vars(HeartbeatGathered(k) \/ WorkersJoined(k) \/ JoinTimesOut(k) \/ PoolCloses(k))
  /\ \A d \in Devices : WF_vars(Added(d)) /\ WF_vars(Tested(d) \/ TestFails(d)) /\ WF_vars(HeartbeatEnds(d))
  /\ WF_vars(HandlerTimesOut) /\ WF_vars(ForceShutdown) /\ WF_vars(ForceAgain) /\ WF_vars(ForceEnds)

FairSpec == Spec /\ Fairness

-----------------------------------------------------------------------------
(* The types of all fields.                                                 *)
TypeOK ==
  /\ QueueTypeOK
  /\ init \in [Devices -> {"new", "adding", "testing", "up", "failing", "failed", "cancelled"}]
  /\ device_running \in [Devices -> BOOLEAN]
  /\ heartbeat \in [Devices -> {"none", "live", "cancelled", "ended"}]
  /\ pool \in [Devices -> {"open", "closing", "closed"}]
  /\ run \in [Runs -> RunStates]
  /\ handlers \in Seq(Devices) /\ todo \in Seq(Devices)
  /\ phase \in Phases /\ ready \subseteq Devices

(* A task is at most once in the heap, with a worker, or in the results     *)
(* (where it is lost, LostOnlyByCancelOrTie says).                          *)
TaskInOnePlace ==
  \A t \in Tasks :
    LET heap == pending_tasks[DeviceOf[t]]
        entries == {i \in DOMAIN heap : heap[i] = t}
        results == IF completed_tasks[t] = "none" THEN {} ELSE {t}
    IN Cardinality(entries) + Cardinality(Holders(t)) + Cardinality(results) <= 1

(* processing_tasks has what the workers execute.  A cancel in the pause    *)
(* before a retry leaves an entry behind (see TableIsExecution); that takes *)
(* a stop or a forced shutdown, and its task is nowhere else.               *)
TableExact ==
  \A d \in Devices :
    /\ Executing(d) \subseteq processing_tasks[d]
    /\ \A t \in processing_tasks[d] \ Executing(d) : ~Known(t) /\ (~is_running[d] \/ Forced)

(* A worker that has taken a task has it to itself, and a task that was     *)
(* executed never waits again: it is in processing_tasks, or has a result.  *)
(* So one enqueue calls its function in the attempts of one worker only,    *)
(* max_retries + 1 of them at most, whatever is put back, cancelled or      *)
(* stopped (_worker, _execute_task).                                        *)
NoTaskTwice == TaskInOnePlace /\ TableExact

(* Not so: "Check if task is processing" asks processing_tasks              *)
(* (async_task_queue.py:340-343), and an entry is left behind there.        *)
TableIsExecution == \A d \in Devices : processing_tasks[d] = Executing(d)

(* An accepted task disappears without a result only with the cancel of its *)
(* worker, or from the head of a heap in which two entries tie.             *)
LostOnlyByCancelOrTie ==
  [][\A t \in Tasks : Known(t) /\ ~Known(t)' =>
       \/ \E w \in Holders(t) : worker[w].cancel
       \/ t = Head(pending_tasks[DeviceOf[t]]) /\ TiesIn(DeviceOf[t])]_vars

(* The pool is closed under a worker only while another call of             *)
(* _graceful_shutdown, whose stop() came first, still waits for the worker; *)
(* a forced shutdown closes nothing.                                        *)
ClosedAfterWorkers ==
  \A d \in Devices :
    pool[d] # "open" /\ ~AllEnded(d) /\ ~Forced =>
      \E k \in Runs : k[2] = d /\ run[k] \in {"stop", "cancelling", "interrupted"}

(* Shutdown reports COMPLETED only when every device that was initialized   *)
(* at the signal has no worker, no heartbeat and a closed pool.             *)
CompletedMeansClean ==
  phase = "completed" =>
    \A d \in ready : AllEnded(d) /\ heartbeat[d] \in {"none", "ended"} /\ pool[d] = "closed"

(* "5 minutes max shutdown time": a shutdown ends, if need be by force.     *)
ShutdownEnds == phase = "cleanup" ~> phase \in {"completed", "forced"}
=============================================================================
