------------------------------ MODULE TaskQueue ------------------------------
(***************************************************************************)
(* AsyncTaskQueue (laser-service/core/async_task_queue.py), one for each   *)
(* ProductionLaserDevice, and the callers that enqueue a task and poll for *)
(* its result.  The code between two awaits is one action; the lock of the *)
(* queue is never held across an await, so taking it does not suspend.     *)
(*                                                                         *)
(* pending_tasks is an asyncio.PriorityQueue, a binary heap of             *)
(* (-priority, scheduled_at, task).  Every caller uses the same priority,  *)
(* so scheduled_at orders the heap; two entries of one clock tick compare  *)
(* the tasks themselves, which Task does not support: a TypeError, with    *)
(* the heap left as it is at that moment.                                  *)
(*                                                                         *)
(* wait_for is that of Python 3.11 (the image of the Dockerfile): a cancel *)
(* that meets an awaitable which is done already is lost, and the worker   *)
(* goes on with the result; with 3.12 none is lost.                        *)
(* Bounds: MaxTick ticks of the clock, no task is due after them; a task   *)
(* is enqueued once.                                                       *)
(***************************************************************************)
EXTENDS Naturals, Sequences, SequencesExt, FiniteSets

CONSTANTS
  Devices,      (* laser devices, each with a queue of its own               *)
  Tasks,        (* task ids                                                  *)
  DeviceOf,     (* DeviceOf[t]: the device task t is meant for               *)
  MaxWorkers,   (* workers of a queue                                        *)
  MaxQueueSize, (* max_queue_size                                            *)
  MaxAttempts,  (* max_retries + 1                                           *)
  Delays,       (* values of enqueue's delay, in ticks                       *)
  MaxTick,      (* bound of the clock                                        *)
  NoTask

ASSUME QueueAssumption ==
  /\ DeviceOf \in [Tasks -> Devices]
  /\ MaxWorkers \in Nat \ {0} /\ MaxQueueSize \in Nat \ {0} /\ MaxAttempts \in Nat \ {0}
  /\ Delays \subseteq Nat /\ MaxTick \in Nat
  /\ NoTask \notin Tasks

VARIABLES
  now,              (* time.time(), in ticks of its resolution               *)
  scheduled_at,     (* scheduled_at[t]                                       *)
  pending_tasks,    (* pending_tasks[d]: the heap                            *)
  processing_tasks, (* processing_tasks[d]: a set of task ids                *)
  completed_tasks,  (* completed_tasks[t]: status of the result, or "none"   *)
  is_running,       (* is_running[d] of the queue                            *)
  worker,           (* worker[w]: where the coroutine is suspended           *)
  client            (* client[t]: the caller that wants task t done          *)

queueVars == <<now, scheduled_at, pending_tasks, processing_tasks, completed_tasks,
               is_running, worker, client>>

Workers == Devices \X (1 .. MaxWorkers)
Of(w) == w[1]
WorkersOf(d) == {w \in Workers : Of(w) = d}

(* get: wait_for(get(), 1); delayed: the 0.1 s before a task that is not    *)
(* due, and the put that follows it; run: wait_for(func(), timeout); pause: *)
(* the pause before the next attempt.  cancel: cancel() was called.         *)
Worker == [st: {"none", "get", "delayed", "run", "pause", "ended"},
           task: Tasks \cup {NoTask}, attempt: 0 .. MaxAttempts, cancel: BOOLEAN]

Waiting == [st |-> "get", task |-> NoTask, attempt |-> 0, cancel |-> FALSE]
Ended == [Waiting EXCEPT !.st = "ended"]

ClientStates == {"idle", "put", "poll", "over"}
Statuses == {"none", "completed", "failed", "cancelled"}

QueueInit ==
  /\ now = 0
  /\ scheduled_at = [t \in Tasks |-> 0]
  /\ pending_tasks = [d \in Devices |-> <<>>]
  /\ processing_tasks = [d \in Devices |-> {}]
  /\ completed_tasks = [t \in Tasks |-> "none"]
  /\ is_running = [d \in Devices |-> FALSE]
  /\ worker = [w \in Workers |-> [Waiting EXCEPT !.st = "none"]]
  /\ client = [t \in Tasks |-> "idle"]

-----------------------------------------------------------------------------
(* heapq: heappush and heappop swap entries until one is not before its     *)
(* parent; ok is FALSE when a comparison raised.                            *)

Swapped(h, i, j) == [h EXCEPT ![i] = h[j], ![j] = h[i]]
Done(h) == [ok |-> TRUE, heap |-> h]
Raised(h) == [ok |-> FALSE, heap |-> h]

(* Up[p][h]: what becomes of h when its entry p rises.                      *)
Sift(key, heap, pos) ==
  LET Up[p \in 1 .. Len(heap)] == [h \in Seq(Tasks) |->
        LET q == p \div 2 IN
          IF p = 1 \/ key[h[p]] > key[h[q]] THEN Done(h)
          ELSE IF key[h[p]] = key[h[q]] THEN Raised(h)
          ELSE Up[q][Swapped(h, p, q)]]
  IN Up[pos][heap]

Push(key, heap, t) == Sift(key, Append(heap, t), Len(heap) + 1)

(* The last entry takes the place of the first, sinks below the smaller     *)
(* child down to a leaf, and rises again.                                   *)
Pop(key, heap) ==
  LET rest == Front(heap)
      n == Len(rest)
      Sink[p \in 1 .. n] == [h \in Seq(Tasks) |->
        LET l == 2 * p
            two == l + 1 <= n
            c == IF two /\ key[h[l]] >= key[h[l + 1]] THEN l + 1 ELSE l
        IN IF l > n THEN Sift(key, h, p)
           ELSE IF two /\ key[h[l]] = key[h[l + 1]] THEN Raised(h)
           ELSE Sink[c][Swapped(h, p, c)]]
  IN IF rest = <<>> THEN Done(rest) ELSE Sink[1][[rest EXCEPT ![1] = Last(heap)]]

Full(d) == Len(pending_tasks[d]) >= MaxQueueSize

-----------------------------------------------------------------------------
(* enqueue and get_task_result, by the one caller of task t.                *)

(* The functions are registered in the stretch that starts the workers;     *)
(* before that enqueue raises ValueError.                                   *)
Registered(d) == \A w \in WorkersOf(d) : worker[w].st # "none"

(* put() waits while the queue is full.  After a TypeError the caller has   *)
(* its exception and the queue has the task.                                *)
Puts(t, key) ==
  LET d == DeviceOf[t]
      pushed == Push(key, pending_tasks[d], t)
  IN IF Full(d)
     THEN client' = [client EXCEPT ![t] = "put"] /\ UNCHANGED pending_tasks
     ELSE /\ pending_tasks' = [pending_tasks EXCEPT ![d] = pushed.heap]
          /\ client' = [client EXCEPT ![t] = IF pushed.ok THEN "poll" ELSE "over"]

Enqueue(t) ==
  /\ client[t] = "idle" /\ Registered(DeviceOf[t])
  /\ \E delay \in {n \in Delays : now + n <= MaxTick} :
       LET key == [scheduled_at EXCEPT ![t] = now + delay] IN
         scheduled_at' = key /\ Puts(t, key)
  /\ UNCHANGED <<now, processing_tasks, completed_tasks, is_running, worker>>

PutGoesOn(t) ==
  /\ client[t] = "put" /\ ~Full(DeviceOf[t])
  /\ Puts(t, scheduled_at)
  /\ UNCHANGED <<now, scheduled_at, processing_tasks, completed_tasks, is_running, worker>>

(* The result, or None after 30 s while the task goes on.                   *)
GetsResult(t) ==
  /\ client[t] = "poll"
  /\ client' = [client EXCEPT ![t] = "over"]
  /\ UNCHANGED <<now, scheduled_at, pending_tasks, processing_tasks, completed_tasks, is_running, worker>>

-----------------------------------------------------------------------------
(* _worker and _execute_task                                                *)

(* The next turn of "while self.is_running".                                *)
Turn(w, running) == worker' = [worker EXCEPT ![w] = IF running THEN Waiting ELSE Ended]

Executes(w, t) ==
  /\ worker' = [worker EXCEPT ![w] = [@ EXCEPT !.st = "run", !.task = t, !.attempt = 1, !.cancel = FALSE]]
  /\ processing_tasks' = [processing_tasks EXCEPT ![Of(w)] = @ \cup {t}]

(* Mutant: what is due is looked at without taking it from the queue.       *)
Peeks(w) ==
  LET d == Of(w)
      t == Head(pending_tasks[d])
  IN /\ worker[w].st = "get" /\ pending_tasks[d] # <<>>
     /\ Executes(w, t)
     /\ UNCHANGED <<now, scheduled_at, pending_tasks, completed_tasks, is_running, client>>

(* The head of the heap, due or not; if restoring the heap raises it is     *)
(* gone and the worker logs an error and turns.  Here, in Succeeds and in   *)
(* Fails a cancel that comes as the awaitable is done is lost.              *)
Takes(w) ==
  LET d == Of(w)
      t == Head(pending_tasks[d])
      popped == Pop(scheduled_at, pending_tasks[d])
  IN /\ worker[w].st = "get" /\ pending_tasks[d] # <<>>
     /\ pending_tasks' = [pending_tasks EXCEPT ![d] = popped.heap]
     /\ IF ~popped.ok
        THEN Turn(w, is_running[d]) /\ UNCHANGED processing_tasks
        ELSE IF scheduled_at[t] > now
        THEN /\ worker' = [worker EXCEPT ![w] = [@ EXCEPT !.st = "delayed", !.task = t, !.cancel = FALSE]]
             /\ UNCHANGED processing_tasks
        ELSE Executes(w, t)
     /\ UNCHANGED <<now, scheduled_at, completed_tasks, is_running, client>>

(* Mutant: the task is put back with put_nowait, which raises QueueFull.    *)
PutsBackNoWait(w) ==
  LET d == Of(w) IN
    /\ worker[w].st = "delayed" /\ ~worker[w].cancel
    /\ pending_tasks' = IF Full(d) THEN pending_tasks
                        ELSE [pending_tasks EXCEPT ![d] = Push(scheduled_at, @, worker[w].task).heap]
    /\ Turn(w, is_running[d])
    /\ UNCHANGED <<now, scheduled_at, processing_tasks, completed_tasks, is_running, client>>

PutsBack(w) ==
  LET d == Of(w) IN
    /\ worker[w].st = "delayed" /\ ~worker[w].cancel /\ ~Full(d)
    /\ pending_tasks' = [pending_tasks EXCEPT ![d] = Push(scheduled_at, @, worker[w].task).heap]
    /\ Turn(w, is_running[d])
    /\ UNCHANGED <<now, scheduled_at, processing_tasks, completed_tasks, is_running, client>>

(* wait_for(get(), 1) timed out after is_running was cleared.               *)
IdleEnds(w) ==
  /\ worker[w].st = "get" /\ ~is_running[Of(w)] /\ ~worker[w].cancel
  /\ Turn(w, FALSE)
  /\ UNCHANGED <<now, scheduled_at, pending_tasks, processing_tasks, completed_tasks, is_running, client>>

Stores(w, status) ==
  /\ completed_tasks' = [completed_tasks EXCEPT ![worker[w].task] = status]
  /\ processing_tasks' = [processing_tasks EXCEPT ![Of(w)] = @ \ {worker[w].task}]

Finishes(w, status) ==
  /\ Stores(w, status)
  /\ Turn(w, is_running[Of(w)])
  /\ UNCHANGED <<now, scheduled_at, pending_tasks, is_running, client>>

Succeeds(w) == worker[w].st = "run" /\ Finishes(w, "completed")

(* An exception or the timeout of the task.                                 *)
Fails(w) ==
  /\ worker[w].st = "run"
  /\ IF worker[w].attempt < MaxAttempts
     THEN /\ worker' = [worker EXCEPT ![w].st = "pause", ![w].cancel = FALSE]
          /\ UNCHANGED <<now, scheduled_at, pending_tasks, processing_tasks, completed_tasks, is_running, client>>
     ELSE Finishes(w, "failed")

Retries(w) ==
  /\ worker[w].st = "pause" /\ ~worker[w].cancel
  /\ worker' = [worker EXCEPT ![w].st = "run", ![w].attempt = @ + 1]
  /\ UNCHANGED <<now, scheduled_at, pending_tasks, processing_tasks, completed_tasks, is_running, client>>

(* The CancelledError arrives.  While the function runs it becomes a result *)
(* and the worker goes on; everywhere else it ends the worker, and a task   *)
(* in its hands stays where it is: nowhere, or in processing_tasks.         *)
Cancelled(w) ==
  /\ worker[w].cancel /\ worker[w].st # "ended"
  /\ IF worker[w].st = "run"
     THEN /\ Stores(w, "cancelled")
          /\ Turn(w, is_running[Of(w)])
     ELSE /\ Turn(w, FALSE)
          /\ UNCHANGED <<completed_tasks, processing_tasks>>
  /\ UNCHANGED <<now, scheduled_at, pending_tasks, is_running, client>>

Tick ==
  /\ now < MaxTick
  /\ now' = now + 1
  /\ UNCHANGED <<scheduled_at, pending_tasks, processing_tasks, completed_tasks, is_running, worker, client>>

QueueNext ==
  \/ Tick
  \/ \E t \in Tasks : Enqueue(t) \/ PutGoesOn(t) \/ GetsResult(t)
  \/ \E w \in Workers : \/ Takes(w) \/ PutsBack(w) \/ IdleEnds(w) \/ Succeeds(w)
                        \/ Fails(w) \/ Retries(w) \/ Cancelled(w)

-----------------------------------------------------------------------------
(* What the lifecycle of the device does with its queue.                    *)

AllEnded(d) == \A w \in WorkersOf(d) : worker[w].st \in {"none", "ended"}

StartWorkers(d) ==
  IF is_running[d]
  THEN UNCHANGED <<is_running, worker>>
  ELSE /\ is_running' = [is_running EXCEPT ![d] = TRUE]
       /\ worker' = [w \in Workers |-> IF Of(w) = d THEN Waiting ELSE worker[w]]

CancelWorkers(ds) ==
  worker' = [w \in Workers |->
               IF Of(w) \in ds /\ worker[w].st \notin {"none", "ended"}
               THEN [worker[w] EXCEPT !.cancel = TRUE] ELSE worker[w]]

-----------------------------------------------------------------------------
(* Where a task is.                                                         *)

InHeap(t) == t \in ToSet(pending_tasks[DeviceOf[t]])
Holders(t) == {w \in Workers : worker[w].task = t}
Executing(d) == {worker[w].task : w \in {v \in WorkersOf(d) : worker[v].st \in {"run", "pause"}}}
Known(t) == InHeap(t) \/ Holders(t) # {} \/ completed_tasks[t] # "none"

TiesIn(d) ==
  \E i, j \in DOMAIN pending_tasks[d] :
    i # j /\ scheduled_at[pending_tasks[d][i]] = scheduled_at[pending_tasks[d][j]]

QueueTypeOK ==
  /\ now \in 0 .. MaxTick
  /\ scheduled_at \in [Tasks -> 0 .. MaxTick]
  /\ pending_tasks \in [Devices -> Seq(Tasks)]
  /\ \A d \in Devices : Len(pending_tasks[d]) <= MaxQueueSize
  /\ processing_tasks \in [Devices -> SUBSET Tasks]
  /\ completed_tasks \in [Tasks -> Statuses]
  /\ is_running \in [Devices -> BOOLEAN]
  /\ worker \in [Workers -> Worker]
  /\ client \in [Tasks -> ClientStates]
=============================================================================
