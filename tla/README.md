# Sensor service: specification and proofs

TLA+ modules, TLC configurations and TLAPS proofs for the two Python services
of this repository: `laser-service` (berthing and drift mode of serial laser
range finders behind TCP bridges) and `lidar-service` (Livox lidars, and the
lasers of the first service read over a WebSocket). Paths below are relative
to the repository.

## 1. Inventory

### laser-service: one process, one asyncio event loop

Everything runs as coroutines of one loop, so code between two `await`s is
atomic and every `await` may let any other coroutine run.

| component | state | operations | what makes it correct |
|---|---|---|---|
| `core/laser_device.py` `LaserDevice` | socket, status, `_continuous_mode`, `_berthing_mode`, `_berthing_id`, `_drift_mode`, `_operating_mode`, an `asyncio.Lock`, the reader task and its queue | connect, start/stop of berthing and drift mode, OFF mode, single commands, disconnect | flags and mode agree at every await; one command at a time on the wire; nested retries end |
| `core/multi_laser_manager.py` `MultiLaserManager` | `berth_sync_tasks`, `active_berths`, the devices, `is_running` | the same requests per berth, one data loop per berth, shutdown | the dictionary names live loops of active berths only; rows are stored only for lasers in berthing mode, under their session id |
| `api/berthing_routes.py` | none | HTTP entry points; `restart` bypasses the manager | same as above |
| `core/circuit_breaker.py`, `core/retry_handler.py` | state, counters, time of the last failure | execute, reset, force_open | HALF_OPEN tests recovery with new calls only; bounded answer time |
| `core/async_connection_pool.py`, `core/production_laser_device.py` | one connection per laser with a lock, the pool's `is_closed` | send_command, maintenance loops, close | the lock is released on every path; nothing is left open after close; an answer belongs to the command |
| `core/async_task_queue.py` | priority queue, processing and completed tasks, workers | enqueue, worker, stop | every accepted task gets a result or is known to be dropped |
| `core/graceful_shutdown.py` | handlers in phases | shutdown, force shutdown | phases in order, all handlers run unless a required one fails |
| `services/websocket_service.py`, `services/database_service.py` | connection sets; one HTTP session | broadcast, connect, disconnect; insert | no delivery to a socket that left; a session is open while it is used |
| health monitor, metrics, logger, config, legacy manager, TCP server, simulator | statistics | | not part of the control |

Interaction: routes await `MultiLaserManager`, which awaits `LaserDevice` for
one laser after the other and creates one loop task per berth; loops await
`LaserDevice.get_continuous_data` and start insert tasks they never await.
`ProductionLaserDevice` stacks task queue -> retry -> breaker -> pool ->
stream. No other file of the repository instantiates it; it is modelled as the
library it is written to be. `services/pager_service.py` uses the same breaker
and retry handler and is live.

### lidar-service: FastAPI and threads

| component | state | operations | what makes it correct |
|---|---|---|---|
| `services/lidar_manager.py` `LidarManager` | sensors, stream flags, stream threads, `berthing_mode_sensors`, coordinator flag and thread, one `threading.Lock` | discover, connect, disconnect, start/stop of a stream, enable/disable of berthing mode (by sensor and by berth) | one coordinator while berthing mode is active, none otherwise; a sensor of an enabled berth streams until it is disabled |
| `services/device_manager.py` | current operation, coordinator | start/stop of an operation by berth | an operation that failed leaves nothing running |
| `services/laser_manager.py` | latest laser data, threads | connect, disconnect, drift compensation | data of one second is consistent |
| `services/db_streamer_service.py`, `database_consumer.py` | one task, one event, consumers per sensor | start, stop | a sensor of an active berth is stored |
| `services/drift_manager.py`, `berthing_data_core.py` | a window of readings and counters per sensor, shared by all watchers | feed, assess | a window is the last readings; a level stands for the readings, and the seconds, that it names |
| `openpylivox/openpylivox.py` (vendored) | command and data socket, heartbeat thread and its `idle_state`, capture threads and their files | connect, every command, start, stop, save, close, disconnect | one user of the command socket at a time; no call waits for ever; no file stays open |
| the same: capture files | header and records without delimiters | capture, convert to CSV, convert to LAS | the converters read what the thread wrote |
| signal processing, simulators, endpoints | | | not control |

### What is hard here

Requests of several clients interleave at every `await`, also in the middle of
a start or a stop; tasks are cancelled while they hold locks or sleep; a link
may break at any time; timeouts of four layers race with late answers; threads
of the lidar service share flags that are reused at a restart. `PROJECT.json`
lists these hazards at their lines, with the properties that cover them.

## 2. The modules

| module | models | extends |
|---|---|---|
| `LaserOps` | the mode-changing coroutines of `LaserDevice`, one action per stretch between awaits | |
| `BerthModes` | `MultiLaserManager`, the routes, both loops | `LaserOps` |
| `CircuitBreaker` | retry loop and breaker with a clock | |
| `CommandStack` | `send_command` through pool, connection and stream | `CircuitBreaker` |
| `TaskQueue` | `AsyncTaskQueue`: heap, workers, callers | |
| `DeviceShutdown` | life of `ProductionLaserDevice` and the shutdown manager | `TaskQueue` |
| `LineParser` | from bytes of a continuous mode to measurements (operators) | |
| `ContinuousReader` | readers, queue and commands on the socket of one `LaserDevice` | `LineParser` |
| `LidarBerthing` | berthing mode of `LidarManager` with its threads | |
| `LaserClient` | the lidar service's laser client with its threads | |
| `DbStreamer` | streamer task and consumers | |
| `Operation` | `DeviceManager` and its endpoints over both | `LaserClient`, `DbStreamer` |
| `HalfDuplex` | abstract: two parties, one line, one question at a time | |
| `LivoxDriver` | the driver of one sensor, implements `HalfDuplex` | |
| `PointFile` | layout of a capture file, its writer and readers (operators) | |
| `LivoxCapture` | capture thread, file, crash and conversions | `PointFile` |
| `DriftMonitor` | the monitor for one sensor (operators) | |
| `BerthingData` | the tables, the calls that read them and feed the monitor | `DriftMonitor` |
| `*_proofs` | theorems of the module they are named after (`CommandStack_proofs`: of `CircuitBreaker`, too; `DeviceShutdown_proofs`: of `TaskQueue`, too; `LivoxDriver_proofs`: of `LivoxCapture`, too; `BerthingData_proofs`: of `DriftMonitor`, too) | |
| `MC*` | constants for TLC, where a configuration alone does not do | |

### LaserOps and BerthModes

`dev[l]` is the device object's fields; `lock[l]` is the set of requests inside
`async with self._lock` (a set, so that a broken lock would show); `call[r][l]`
is the coroutine of laser `l` that request `r` awaits, and its `st` names the
await at which it is suspended. `req[r]` is the handler of an API request with
its local variables, `registered`/`active` are `berth_sync_tasks` and
`active_berths`, `task[k]` a data loop. A start runs its lasers concurrently
(`gather`), every other request one after the other. The socket has a third
value `dead`: an object that is closed, never connected, or whose peer went
away unnoticed.

Environment: connects, VT commands and verifications may fail, a link may break
at any time, data may never come. `CancelCanBeLost` selects
`asyncio.wait_for` of Python 3.11, which the Dockerfile installs: a cancel that
meets a finished `queue.get()` is swallowed. It is TRUE in every run; `missed`
records which loop has not heard its cancel, be it that of a request or that of
`shutdown`.

### CircuitBreaker and CommandStack

Time is counted in ticks: `Tick` is disabled while a timer is due, so a timer
fires before the clock passes it. This is the one assumption on timing: the
event loop is never blocked for longer than `RecoveryTimeout - Timeout` (25 s
for a laser, 50 s for the pager). `breaker.quiet` is the time since
`last_failure_time`, saturated at `RecoveryTimeout`; `caller[c]` is the retry
loop. `CommandStack` splits an attempt at its awaits: waiting for the
connection's lock, opening a stream, reading; `stream[s].asked` remembers who
wrote each outstanding command, which is what the code does not do. The
module conjoins the breaker's actions with its own, so every outcome of an
operation is one the breaker knows by construction; nothing is claimed of that.
`broken` marks a stream on which an operation has raised. Times are ticks: that
the budget is less than the 30 s a caller of the queue waits is arithmetic on the
defaults and not a property, and a timer is taken to cancel the operation it
bounds.
`force_open` and `reset` exist but are called by nothing; they are modelled, and
the history variable `forced` excepts a forced breaker, whose recovery time is
not restarted.

### LidarBerthing

`req[r]` is a request in the event loop, `st` the await or join at which it is
suspended; `sub[r][s]` is the coroutine that `enable_berthing_mode` gathers for
sensor `s`. `capture[s][k]` are the capture threads of a sensor, more than one of
which may be alive because a disconnect joins nobody; `stream_threads[s]` is the
one the manager would join. `coordinator[c]` likewise. The flags
`stream_active` and `sync_coordinator_active` are all a thread looks at, and it
cannot tell one activation from the next.

What suspends a coroutine here is less than the number of `await`s: connecting,
starting a stream and disconnecting never yield to the loop, so each is one
step. A `join` does the opposite: it stops the loop (`LoopBlocked`) while the
threads go on, among them the executor thread of `auto_connect_all`, which
registers sensors whatever the loop does. `JoinsInTime = FALSE` lets joins time
out. `told` is a history variable: the sensors an enable has reported as
streaming. `alone` marks a request during which no other client asked for
anything, the only kind for which a result can be promised.

Two constants let the surroundings fail for good. With `HeartbeatDies` a call of
the driver may wait for an `idle_state` that nobody counts any more (the
heartbeat thread of `LivoxDriver`, ended or blocked): made on the loop's thread
it stops the loop for ever (`Hangs`, `hung`), made by the search of an
auto-connect it loses that executor thread (`stuck`). With `ThreadsFail` the
start of the coordinator may raise (`StartRaises`), which runs the handler of
critical errors; the manager then keeps a thread that was never started, whose
join raises (`Unstarted`, `DisableRaises`).

Left out: the data itself, the `time.sleep`s inside `start_data_stream` (they
only delay), simulated lidars, `disconnect-all` and shutdown. A capture thread
that cannot be created is a start that fails.

### TaskQueue and DeviceShutdown

`pending_tasks[d]` is the heap as the list it is: `Push` and `Pop` sift as
`heapq` does, because two entries of one priority and one clock reading compare
the tasks, which raises in the middle of the sift. `worker[w].st` names the
worker's await; a cancel is a mark that takes effect there. `is_running`,
`processing_tasks` and `completed_tasks` are the queue's fields, `client[t]` the
caller that polls for the result. `DeviceShutdown` adds `initialize`, the
heartbeat and up to two calls of `_graceful_shutdown` per device (`run`), one as
the shutdown handler, one as the cleanup of a failed `initialize`: both may run
at once, the second `stop()` returning at once because `is_running` is already
false. `phase` is that of the shutdown manager. The workers' `wait_for` is that of
Python 3.11, too: a cancel that meets a finished `get()` or a finished task is
lost, and the worker goes on with the item or the result. The handler's timeout and the one
inside `stop()` are both 30 s; the handler's began first and is the one to fire.

### LineParser and ContinuousReader

A field of a line carries which line it was sent in and what the device meant by
it; the parser sees neither, so a measurement made of two lines, or one that
calls the speed a distance, can be told from a good one. Lines are cut between
fields only. The operators name pieces of the text by the places of their line
ends, without folds or sorting, so that they can be reasoned about. Up to two
readers share the socket (the flag is tested before the
lock is waited for), the queue drops its oldest item when full for a reader but
not for a resume, which waits. A command's write is followed by every running
reader before its answer is read (`due`), because readers sleep 10 ms and
commands at least 50. The history variable `shared` has the lines of which
somebody other than the one reader took a part: whoever flushes the socket,
reads it next to a reader, or drops a reader that kept half a line. `Whole` and
`InOrder` speak of the other lines. A measurement of shared lines may be made of
parts of two, and two readers may put such measurements into the queue in an
order the device never sent (with a line cut in three and two readers, TLC
shows it); a measurement of a private line never comes late, twice, or after a
consumer has gone past it.

### LaserClient, DbStreamer and Operation

`call[r]` is a call of the laser client in an executor thread, split where
another thread may read or write between its check and its set; its
`with threading.Lock()` blocks create a lock each and protect nothing. `listener`
and `coord` are the threads. A start of the coordinator sets the flag, assigns
the thread and starts it in three steps (`SyncSets`, `SyncMakes`, `SyncStarts`),
between which a stop may clear the flag, join the thread before it has begun
(which raises) or take it away, so that `start()` raises (`SyncRaises`). In `DbStreamer` a stream `s` is one run of
`_run_consumers` with the `DatabaseConsumer` it made; `registered` is the task
the service knows, `shutdown_event` is shared by all. `Operation` puts requests
on one event loop above them: the query of the berth's devices, the `gather` of
the two parts and the end of the streaming are its awaits, `alone` and
`configured` mark a request that nobody overlapped or reconfigured. The lidar
manager appears by its answers and the sensors it leaves in berthing mode.

### HalfDuplex and LivoxDriver

The heartbeat thread and the calls share one UDP socket without a lock. What
keeps them apart is time: the heartbeat sends and listens, then counts
`idle_state` down, and a command is sent only when it is seen to have just
started. The model has the sockets as sets of datagrams (`net`), a `Tick` of a
tenth of a second that waits for what is due, and both threads' program
counters. `HalfDuplex` promises that a party asks only when no question is open
and hears only its own answer, unless there is noise on the line; the noise is
real, because the manager's own start and stop commands bypass the driver and
leave answers in the socket. The sensor may lose, refuse or answer anything, and
report an abnormal status.

### PointFile and LivoxCapture

A file is a header, whole records, and the beginning of one more. The writer
takes its record from the size of a packet's points and adds return number and
time; each converter has its own list of fields per firmware and data type.
`Rows` and `LasRows` say what each makes of the bytes, out of step included.
`LivoxCapture` is the thread between the packets and the file: the delay and the
duration it compares stamps with, lost packets, a packet of another format, a
change of the data type while it writes, a close, a crash. `lidar.clock` is the
sensor's own time, `Stamp` what `getTimestamp` makes of it: a stamp by GPS drops
the date, so it starts again at midnight (`lidar.day`), other stamps do not (a
day that never comes). `thread.now` is `timestamp_sec`, which points add to and
an IMU sample overwrites with its own time (`ReadImu`), however old. A record
keeps both, `at` and `time`. Two facts of the code that the model keeps: points whose
coordinate that is tested is zero are dropped (`Kept`), and for type 5 the test
looks at an angle. The ASCII capture threads are not modelled:
`dataStart` and `dataStart_RT` call the constructor with an argument missing and
raise a TypeError, so nothing reaches them.

### DriftMonitor and BerthingData

`Monitored` is one call of `monitor_sensor_drift` on the window and the counters
of a sensor, with distances in decimetres and halves for
`irregular_seconds`. `BerthingData` is who calls it: every watcher, each second,
for every sensor it sees, whatever the operation; in a drift the offsets are
awaited first and may be missing. `log[s]` is a history variable, all readings
the monitor was ever given, against which window and levels are judged. A reading
there is a call: two watchers that see one measurement make two. The levels are
judged in calls (`LevelsCountCalls`), because that is what the code counts; what
its comments say of seconds is false and stands in section 4. The
coordinators refresh or keep entries: a lidar that fell silent keeps its
statistics under a new time, a laser its entry under the old one. Offsets are
taken to be non-negative and the two services to share one wall clock.

## 3. Runs

| run | instance | question |
|---|---|---|
| `berth_concurrent` | 1 laser, 2 requests of 6 kinds, 2 loops, 2 x 2 attempts | do registry, lock and flags stay consistent under all interleavings? |
| `berth_serial` | 2 lasers of one berth, 2 session ids, one request at a time, 2 start attempts of 1 mode attempt each | after every answer, do berths, modes, loops and session ids agree? |
| `berth_live` | 1 laser, 2 requests, 2 start attempts | is every request answered that does not wait for a loop which swallowed its cancel, does every replaced loop end? |
| `command_stack` | 2 callers, 3 streams, thresholds 2 | lock discipline, broken streams, close(), test calls, answer time |
| `device_shutdown` | 2 devices, the first up, 1 worker each, a heap of 2, 3 tasks of the second, delays 0 and 1, 2 attempts | is a task ever in two places or executed again; is one lost but by a cancel or a tie; what is closed, and what does "completed" mean? |
| `reader` | 2 coroutines of any of the kinds, 2 readers, a queue of 2, 2 lines sent in 2 pieces | are lines whole, is continuous mode backed by a reader, do measurements come in order? |
| `lidar_overlap` | 2 lidars of 2 berths, 2 requests (enable, disable, stream, disconnect), 2 coordinators, joins time out, threads may be refused, the network does not fail | are streams and coordinator backed by threads; does one berth's disable silence the other? |
| `lidar_live` | 1 lidar, 2 requests of 6 kinds, 1 thread each, 2 attempts each, the network, the heartbeat and the creation of threads may fail | does a disable deliver, is every request answered while no call of the driver hangs, does every idle thread end? |
| `operation` | 2 berths with a lidar each, one with lasers, 2 callers, 3 requests in all, 2 threads and 2 streams, `FirstRequest` at the start | do threads back the client's flags; does the streamer own its consumers; does an answer of success mean it? |
| `driver` | 1 sensor, 12 calls, `idle_state` of 3, 1 alarm, 1 unread datagram | half-duplex refinement, files, disconnect, does every call return? |
| `file` | 5 kinds of sensor, packets of 2 points, 4 packets, 1 IMU sample of age 0 or 30 us, midnight after 25 us or never, 1 change of type | what do the converters make of a file; which points are of the delay or past the duration, and where do times fall? |
| `measures` | 1 sensor of 3 kinds, 2 watchers, a window of 4 s | window against the log of all readings, levels against the calls it records |

Why the bounds are enough. Two requests are what every race in the handlers
needs: one suspended, one that changes what it read. One laser suffices where
requests interleave, because the handlers touch the lasers one by one and share
nothing between them but the berth; two lasers matter for partial failure,
which a serial client reaches. Two loops give one registered and one replaced;
a start is enabled only while a loop is free (`RoomForLoop`). Two attempts at
each level make a retry, and its exhaustion, happen. Breaker thresholds of two
tell "counts" from "flips"; `Timeout = 1`, `RecoveryTimeout = 2` is the
tightest pair the assumption allows. `MaxPending = 2` allows one answer that
nobody waits for next to one that somebody does. In `LidarBerthing` the hazards
are a coordinator of an earlier activation next to the current one
(two `Coordinators`) and a sensor that stays while another leaves (two
sensors); a start waits for a free slot, so the bound delays and never fails
one. With two lidars a second capture thread of one lidar, a failing network, and
`auto` and `connect` together with joins that time out, are beyond these
bounds, and with one lidar a failing network is not; the
theorems about `StreamBacked`, `CoordinatorBacked` and `EnabledIsSynced` are not
bounded. `lidar_live` fires all six operations with one slot of each: whether a
thread ends depends on the flag and not on its siblings.

A queue of two that three callers and a worker's delayed task compete for is
full for callers and for the worker. Delays of 0 and 1 with one tick give
entries that are due, not due, and tied. The second device is what makes a
forced shutdown cancel twice: the first one's handler times out while the other
one's worker, which nobody has stopped, answers a cancel with a result and goes
on. `FirstUpSpec` starts when the first device is up, which fixes the order of
the handlers and saves the interleavings of two initializations. The smallest
heap in which a `heappop` compares two entries, and may raise, has three; with
four callers and one device from its start that is `DeviceShutdown_heap.cfg`
(the same properties, 517 k states, no error), too large together with a second
device. Two readers are
what a start that overlaps a resume creates; a queue of two is full after one
measurement more than the consumer takes. Three requests let a start, a stop and
a third one overlap in pairs, and two berths are what the shared client and
streamer confuse. `FirstRequest` fixes what comes first, to save the runs that
differ in it alone: a start of berth 1 that two requests may follow, or a stop of
it that one may follow. An `idle_state` of 3 leaves room for a command to be early, in
time and late; the other calls of the driver go through the same actions as those
in `Ops`. Two points per packet make the two return numbers of a pulse and,
across packets, groups of three; the third packet of four meets a step lost in the second. The
first packet is consumed, the second may begin the file, so two are written;
with a duration of 0 or 10 us and packets of 4 to 20, both may be late: by a
sample that is 30 us old, or by a midnight that falls between them. A window of four readings overflows with the bounds of seven and five,
three extreme and five irregular readings fit into them, and levels 1 to 3 are
all reached.

`CHECK_DEADLOCK FALSE` stands where the system really stops (after a shutdown,
or with no request left to make) and where the inputs are bounded, so that the
last state of the clock or the last packet ends the behaviour.

Fairness (`FairSpec`). Weak fairness for every request handler and every loop:
the event loop runs every coroutine that can go on. Strong fairness for the
calls on a device: they wait for an `asyncio.Lock`, whose waiters are served
first in, first out, so that a waiter is never passed over for ever. Clients,
links and devices are not fair: a device may never answer, and the timeouts of
the code are the failing disjuncts of the same actions. In `LidarBerthing` the
threads are weakly fair, and the steps of requests strongly: the joins of other
requests stop the loop again and again, but never for ever (`JoinsInTime`), and
its ready callbacks are run in turn. That a call of the driver returns is not
assumed: that it hangs is a step of its own, and `LidarRequestsReturn` excepts
what follows. In `LivoxDriver` the heartbeat thread, the clock and
the arrival (or loss) of a datagram are weakly fair, and the calling thread
strongly: it polls every tenth of a second for the first tenth of a pause, so
its poll may miss that of any one pause, and does not miss those of all; the two
threads have no common period that the code sets. the choice whether a
datagram is lost, and what the sensor answers, is not.

Type invariants are checked where the theorems of section 5 state them first.
Every other module has its `TypeOK` too; where it is not among the properties of
the runs, a theorem states it (`OperationTypeCorrect`, `DriverTypeCorrect`,
`ReaderTypeCorrect`, `CaptureTypeCorrect`, `DataTypeCorrect`) or the reader uses it.

## 4. What the code does not do

Statements of the documentation, of comments or of docstrings that the models
refute. Each has a configuration that is not among the runs: TLC ends it with a
counterexample (`tlc -config X.cfg MCModule`), so it shows what the code does and
guards nothing. Where rows share a configuration, it has a line for each of their
properties; TLC stops at the first that is violated, so one line is active and
the others are comments.

| configuration | what is said | what happens |
|---|---|---|
| `BerthModes_refuted`, `DriftNotStored` | rows are stored for lasers in berthing mode | `start_drift_mode` on a berth in berthing mode leaves the berthing loop running, and it stores rows of lasers that report DRIFT |
| `BerthModes_refuted`, `NoneLeftBerthing` | a berth that was stopped has no laser in berthing mode | a restart that overlaps a stop leaves a laser in berthing mode on an inactive berth |
| `BerthModes_lost_cancel` | stop waits for the loop to end | with `asyncio.wait_for` of Python 3.11 the cancel of a loop can be lost, and stop waits for it for ever; `RequestsReturn`, which the run `berth_live` checks, excepts this wait and no other |
| `CommandStack_answers` | an answer belongs to the command | a command that timed out leaves its connection ACTIVE with an answer to come, and the next command takes that answer for its own |
| `LidarBerthing_reenable` | "ENSURES hardware actually starts" (`lidar_manager.py:2086`) | `discover_sensors` calls `.get` on the `LidarInfo` of a connected sensor; the error is caught and the answer is an empty list: while one lidar is connected no other can be discovered, and an enable of a lidar that an earlier disable disconnected gives up, with no failure of the network |
| `LidarBerthing_hang` | "ENSURES hardware actually stops even with network issues" (`lidar_manager.py:2244`) | `lidarSpinDown` runs on the event loop and polls `idle_state` without a limit (`openpylivox.py:1825`); once the heartbeat thread has ended, on an error or an abnormal status of the sensor, or is blocked in `recvfrom`, a disable, and with it every request of the service, waits for ever; `LidarRequestsReturn` excepts this and no other wait |
| `DeviceShutdown_ends` | "5 minutes max shutdown time" (`graceful_shutdown.py:41`) | nothing reads `force_shutdown_timeout`; a worker answers a cancel during a task with a CANCELLED result and goes on, so `_force_shutdown` waits for it for ever |
| `DeviceShutdown_table` | `processing_tasks` tells whether a task is processing (`async_task_queue.py:340-343`) | a worker that is cancelled in the pause before a retry leaves its task there for ever, and `workers_busy` counts it; `NoTaskTwice` says only that the task is nowhere else |
| `ContinuousReader_hang` | "Detect if device is sending continuous data and resume reading if so" (`laser_device.py:631`) | a resume that reads more lines than the queue of 100 holds waits in `put()` with the device lock taken and no reader started; a stop then waits for that lock |
| `Operation_rows` | the consumer "fetches data from FastAPI and sends it" (`database_consumer.py:91`) | the call passes `json=`, the method's parameter is `json_data`; every cycle ends in a TypeError that the loop swallows, no row is stored |
| `LivoxCapture_refuted`, `TimesRise` | the table's times are those of the points in order | times fall from one packet to the next after points of type 3 or 5, to which the thread adds 10 us for 4 or 2 (`openpylivox.py:1153`, `1195`), and at midnight; `TimesInWindow` says that they fall nowhere else |
| `LivoxCapture_refuted`, `DurationHolds` | `duration` limits the capture (`openpylivox.py:1365`, "duration check (exit point)") | the check sees `timestamp_sec`: an IMU sample that waited in its socket turns it back (`1347`) and one more packet is written for each; at midnight (`1408`, "TODO: check and adjust for hour, day, month and year crossovers") it falls by a day, and the capture goes on for as long; `TimesInWindow` counts the first and excepts the second |
| `BerthingData_refuted`, `SecondsSustained` | "5+ seconds of sustained irregularity" (`drift_manager.py:184`, counter `irregular_seconds`) | every irregular call counts one, and every watcher calls: two of them reach level 2 with five irregular calls of three seconds |
| `BerthingData_refuted`, `ChangesPersist` | "Multiple extreme changes" (`drift_manager.py:180`), "Persistent extreme changes" (`182`) | a measurement counts for each watcher that reads it: a spike and the reading after it make level 3, which the service never leaves |
| `LivoxCapture_refuted`, `ZeroIsIndefinite` | "zero (0) specifies an indefinite duration" (`livox_controller_demo.py:137`) | `saveDataToFile` replaces the thread's four years by 0, and the capture ends after the first packet |

Further facts that the models carry without a property of their own: the window
of the drift monitor holds 60 calls, which two watchers make in 30 s, and a lidar
that fell silent fills it with one distance under fresh times; a resume
and a start, or two starts, leave two readers on one socket of which one cannot
be cancelled; a `reconnect` that finds no data leaves the continuous flag set
without a reader; after an enable whose coordinator could
not be started, streams run whose sensors are in no berthing mode, so that no
disable reaches them, and a disable of the last sensors in berthing mode fails
until another enable starts a coordinator; an operation that fails on an older
stream marks the connection's new one FAILED; a stop of an operation whose client was
reconfigured meanwhile stops nothing and answers success; a stop of the streamer
that overlaps a start forgets the new task; the CSV loop over class 0 is
unreachable; an IMU file is named by the stem of the point file, so a
stale one may be converted with a new capture; `doneCapturing` never becomes true
after a capture thread has died.

## 5. What is proved

With tlapm, for all values of the constants that satisfy the named assumptions:

- `TypeCorrect`, `RegistryAgrees`, `RegistryNeverStale` (BerthModes_proofs). The
  first needs a stronger invariant, because a handler's later steps use what its
  earlier ones stored: `Shaped` says which fields a request and a call have at
  each stage. `RegistryNeverStale` needs two more: no two berths register the
  same loop, and a handler that waits, waits for a loop of its own berth.
- `DeviceLockExcludes`, `ModeNeverAhead` (BerthModes_proofs). The lock theorem
  rests on which calls a request owns at each of its stages; the mode theorem on
  every call that starts berthing carrying a session id.
- `SerialAgreement` (BerthModes_proofs): `QuietAgreement`, for a client that
  waits for each answer and uses start, stop, restart and shutdown (`Serial`).
  The hypothesis is needed: of two clients one may stop what the other starts, off
  leaves a laser that it cannot reach in berthing mode, and drift ends that mode
  without a stop. The inductive invariant `AgreeInv` says what holds in between:
  a laser in berthing mode has its loop, or the start in progress has still to
  begin that loop, or the stop in progress has still to stop the laser
  (`Covered`); a berth is active for a laser of it or for a stop that waits for
  the loop (`ActiveBerths`); and which lasers a request and its calls are about
  (`Working`, `Calling`). A cancelled loop may swallow its cancellation.
- `BreakerTypeCorrect`, `NoEarlyTest` (CommandStack_proofs). The invariant is
  `RunningSinceBefore`: no call begins while the breaker is open and every
  failure restarts the recovery time, so whatever still runs has run at least as
  long as the breaker is quiet. Since an operation runs for at most `Timeout`,
  and `Timeout < RecoveryTimeout` (`TimeoutAssumption`, true of both users), no
  call of before is left when the breaker turns half-open.
- `AnswersInTime`, `StackAnswersInTime` (CommandStack_proofs): no retry loop
  outlasts `Budget[MaxAttempts]`, for any attempts, timeout and delays. The
  invariant `OnBudget` gives each attempt and each pause its share. That `Budget`,
  a recursive function, is defined at all and grows with the attempts is induction;
  it is done with sets, by the least number for which a claim would fail
  (`LeastNatural`, from the well-foundedness that the library states).
- `NoEarlyTestInStack`, `StackTypeCorrect`, `LockFollowsOpening`,
  `PoolStaysClosed`, `BrokenStreamsStayRetired` (CommandStack_proofs). Each step of
  the stack is a step of `BreakerSpec` or a stutter, which brings `BreakerInv`
  over (a lemma that holds by the way the stack is built); the inductive invariant adds that a device answers only what was asked,
  that a task exists exactly while its caller runs, and that the maintenance
  loops hold the lock only while the pool is open.
- `OperationTypeCorrect`, `FlagsStayBacked`, `ConsumersStayOwned`
  (Operation_proofs), of the composition of `DeviceManager`, laser client and
  streamer, for any number of callers, threads, streams and sensors. `IInv` has a
  part for each module: `RequestInv` says which call of the client a request may
  have under way at each of its awaits (`Fits`) and that lasers are used only
  under a berth (`BerthKnown`); without both, a call could post for no berth.
  `ClientInv` is the two flags with their threads, or with the call that is about
  to start one. `StreamInv` adds `OneStream`:
  while no stop has forgotten a stream, a stream that has begun and not ended is
  the one the service knows and the one `db_consumer` belongs to. Each module's
  steps are shown to keep its own part, and the requests' steps are the calls
  of the other two.
- `AnswersHold` (Operation_proofs): an operation that no other caller disturbed
  and that answers with success has left behind what it says. `AloneInv` says
  that an undisturbed request is the only one (`Undisturbed`), how far its
  laser and its streamer part have come at each of its awaits (`Stages`,
  `LaserGained`, `LaserGone`), and that the service's stream ends only while a
  stop waits for it (`EndedBySomeStop`). A start then finds its streamer still
  running when it answers, and a stop has waited for the last stream that lived.
- `LidarTypeCorrect`, `StreamsStayBacked`, `CoordinatorStaysBacked`,
  `EnabledStaysServed`, `DisablesDeliver` (LidarBerthing_proofs), for any number of lidars,
  requests and threads. The inductive invariant `LidarIInv` adds to them which
  operation a request at each await belongs to (`Staged`), that the coordinator's
  flag stays down while a request joins its thread, because the join stops the
  loop (`JoinsUnset`), and that berthing mode is active while a sensor is in it
  (`ModeOn`). `EnabledStaysServed` then turns on what a disable knows: if it
  stopped the coordinator, then because it names every sensor in berthing mode.
  `DisablesDeliver`, the action property, has an invariant of its own,
  `AloneInv`: an undisturbed disable is the only request that runs
  (`Undisturbed`), the coroutines of an enable work only while it gathers them
  (`IdleSubs`), so nobody connects a sensor behind the disable's back, and every
  sensor it has gone past is disconnected (`Gone`).
- `DriverImplementsHalfDuplex`, `FilesStayClosed`, `DisconnectedStaysQuiet`,
  `DriverTypeCorrect` (LivoxDriver_proofs), for any length of the pause, any
  number of alarms and of datagrams left unread. The refinement rests on
  `TurnsApart`: while the calling thread waits for an answer, the heartbeat thread
  is in the first two tenths of a second of its pause or does not exist; and on
  `Awaited`: of each party at most one question or answer is in the air, and none
  once its time is up, so that what a party hears is its own answer or noise.
  `Staged` and `BeatRuns` say which call is at which of its waits and when the
  heartbeat thread lives; `Quiet` and `Capturing` say what is left without a
  connection, and that a capture with a file open is the registered one while
  the driver says that the sensor streams.
- `LinesStayWhole`, `ContinuousStaysBacked`, `MeasurementsInOrder`,
  `ReaderTypeCorrect` (ContinuousReader_proofs), for any number of requests and
  readers, any queue, any number of lines and any places where they are cut; the
  assumption asks for finitely many readers, and for the modes the device has.
  `ContinuousStaysBacked` rests on `Fed`: while the flag is set and no request
  waits to stop or to put, a reader is new, or one is in its loop with
  `_is_reading_continuous` set. The other two rest on `Stream`, which says where
  bytes are: a reader keeps no complete line and what it keeps precedes the wire
  (`Buffers`), all of it was sent and in order (`Behind`), and a private line lies
  in one piece, either before the one reader that holds its head or on the wire
  (`Placed`); and on `Measured`: what has been delivered is faithful or begins with
  a shared line, and is older than every private line that may still be read.
  Three kinds of step disturb this: the device sends (`Sends`), a reader reads,
  and something is lost (`Lossy`: a flush, a cancel, an ESC, a new connection,
  a new mode, with or without measurements put). Each of the model's actions is
  shown to be one of the three. What a read makes of its text is proved of the
  parser's operators, for texts of any length.

- `NoTaskIsTakenTwice`, `LossesAreKnown`, `PoolClosedAfterWorkers`,
  `CompletedLeavesNothing`, `ShutdownTypeCorrect` (DeviceShutdown_proofs), for any
  devices, workers, tasks, attempts and size of the heap, from the start of the
  program (the run's `FirstUpSpec` begins in a state of it). The first two
  need to know what `heappush` and `heappop` do to the entries, also when a
  comparison raises halfway and leaves the heap half sifted: the entries are the
  same, none is there twice, and it raises only if two of them tie
  (`SiftRearranges`, `PopTakes`, `PushAdds`; induction over the positions, again
  by the least for which the claim would fail). `TaskInv` then says that a task
  has not been put anywhere before its `enqueue`, that what one worker has is in
  no heap and with no other worker (`Places`), and that a cancel meets only
  queues that are stopped or a forced shutdown (`CancelledIsStopped`), without
  which a pause could lose its entry in a queue that runs; and that what is in
  `processing_tasks` has no result, is in no heap and is held by nobody who does
  not execute it (`Recorded`), which is why no task is executed again. The other two rest on
  `HandlerInv`: a queue that was stopped with work in hand has a call that waits
  for it (`StoppedIsJoined`), a device that is up has a handler, a heartbeat and a
  queue that runs until its handler comes (`UpIsRunning`), one that is not yet up
  has nothing (`NothingBeforeStart`), and each handler runs once, in order
  (`RunsInOrder`).

- `TableHoldsCapture`, `ConvertersStayAgreed`, `TimesStayInWindow`,
  `CaptureTypeCorrect` (LivoxDriver_proofs), for any kinds of sensor, any number
  of points in a packet and of packets, any delays and durations. The assumption
  on the sensors, `CaptureConstants`, includes that firmware which numbers its
  returns knows only the types 0 and 1, as in the source. The first theorem is
  about two programs that have to agree on bytes: the fields a reader takes add up
  to the record the writer made (`FieldsAreSize`), so a file of one type is read in
  whole strides (`WholeRowsOfOneType`), and the rows of a concatenation are those
  of its parts (`FlatMapConcat`). The invariant `CaptureLog` then says that the
  hits recorded in the file are the rows due, and after a crash the first of them.
  `ConvertersStayAgreed` also holds of files that are cut or change their type,
  because both converters walk the file by the same stride. For
  `TimesStayInWindow`, `TimesFit` has three parts: the thread counts from the
  stamp of a time after the delay (`Clocked`); a record's time lies between its
  packet's and, in pace, the end of that packet (`RecordsTimed`, with
  `OffsetInSpan`), so the next packet's is not below it unless midnight lies
  between; and of the packets past the duration all but at most one have been
  undone by an IMU sample, all of them if the thread still finds itself in time
  (`LateCounted`). It says nothing of the duration once midnight has come. What the folds over sequences compute is again proved with
  sets, by the least length for which a claim would fail.
- `MonitorMirrorsLog`, `WindowStaysTail`, `LevelsStayCounted`, `DataTypeCorrect`
  (BerthingData_proofs), for any sensors, watchers, distances, offsets, pauses and
  any length of the window. The inductive invariant `DataInv` relates what a
  monitor keeps to the log of all readings it was given: the window is the end of
  that log (`IsWindow`), which needs that the times of a log rise: no entry that
  is read later is older (`TimesRise`), because a laser that fell silent keeps its
  time and a lidar that starts again has an entry without a distance, which is not
  monitored; `irregular_seconds` stands for a chain of irregular readings
  that followed each other within two seconds (`Chained`); the extreme count is
  the number of extreme readings. `LevelsStayCounted` also needs that an average
  which is more than half a metre away has a reading that is (`TotalBounds`); it
  is about calls, and the seconds of the comments are refuted in section 4.

Only model-checked: liveness under fairness (`RequestsReturn`, `OrphansEnd`,
`LidarRequestsReturn`, `CapturesEnd`, `CallsReturn`) and everything with ENABLED,
which the prover does not support. Every other property of a passing run is
stated by a theorem. The statements of section 4, which the code breaks, are
refuted by TLC.

## 6. Not modelled, and the plan

Measured values, formatting, logging, statistics and HTTP are left out
everywhere. `PROJECT.json` gives the reason for each component that has no
module. Hazards of this code that no property covers:

- `websocket_service.py:82`: a broadcast iterates over a set of sockets that
  connect and disconnect change at its awaits; Python raises, the broadcast
  ends, the next one starts anew.
- `database_service.py:18`: every `async with` replaces the one session and
  closes it on exit while another insert may still use it; the insert fails and
  its task is never awaited.
- `laser_device.py:384`: `socket.recv` blocks the whole loop for up to its
  timeout. `CircuitBreaker` assumes a bound on such pauses.
- `async_connection_pool.py:66`: the connection is a dict without `close()`, so
  reconnects leave old sockets open until they are collected.
- `multi_laser_manager.py:441`: the last known values survive a session, so its
  first rows may repeat values of the one before.

Why the rest has no module: health monitor and metrics are periodic statistics;
routes, models, configuration and start-up code add no state; the legacy laser
manager, the TCP server and the simulators are not reached from the service; the
speed and trilateration services are floating-point signal processing, whose
results no bounded model tells apart; the endpoints of the lidar service wrap
the managers, and those that interleave are part of `LidarBerthing` and
`Operation`.

Worth doing next: an abstract `BerthSession` (berth -> session id or none) that a
serial `BerthModes` implements; and the two shared sets of the services above.
