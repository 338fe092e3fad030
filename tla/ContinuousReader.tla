-------------------------- MODULE ContinuousReader --------------------------
(***************************************************************************)
(* The stream of one laser in continuous mode                              *)
(* (laser-service/core/laser_device.py): the background readers, the       *)
(* bounded queue they fill, the coroutines that start, stop, resume and    *)
(* reconnect the stream, the commands that share its socket, and the       *)
(* consumers that take the latest measurement (the berth loops of the      *)
(* manager and GET /measure/continuous of api/routes.py).                  *)
(*                                                                         *)
(* Everything runs on one asyncio loop: a coroutine is interrupted only    *)
(* where it awaits, and a request record names the await it is at.  The    *)
(* readers do not take the device lock.  A reader sleeps 10 ms between two *)
(* reads and a command at least 50 ms, so every reader that was running    *)
(* when a command was sent runs once more before its answer is read        *)
(* (due).                                                                  *)
(*                                                                         *)
(* The device and the TCP bridge are outside src/: the device sends lines  *)
(* in fragments, may miss an ESC, and the link may break.                  *)
(***************************************************************************)
EXTENDS LineParser, Functions

CONSTANTS
  Requests,   (* coroutines of the API and of the manager at the same time  *)
  Readers,    (* identities for reader tasks                                *)
  QueueMax,   (* maxsize of _continuous_data_queue: 100                     *)
  MaxLines,   (* bound: lines the device sends                              *)
  Cuts,       (* bound: where a line may be cut into fragments              *)
  Settings,   (* bound: commands that one configuration request sends      *)
  StartModes, (* bound: the continuous modes clients start                  *)
  Ops         (* the kinds of request an instance looks at                  *)

ASSUME ReaderAssumption ==
  /\ Readers \subseteq Nat \ {0} /\ IsFiniteSet(Readers)
  /\ QueueMax \in Nat \ {0}
  /\ MaxLines \in Nat
  /\ Cuts \subseteq Nat \ {0}
  /\ Settings \in Nat \ {0}
  /\ StartModes \subseteq Modes

VARIABLES
  continuous,  (* _continuous_mode                                          *)
  reading,     (* _is_reading_continuous                                    *)
  believed,    (* _device_in_continuous                                     *)
  task,        (* _continuous_task: a reader, or NoTask                     *)
  reader,      (* reader[k]: the reader tasks                               *)
  queue,       (* _continuous_data_queue                                    *)
  lock,        (* the request inside "async with self._lock", or NoOne      *)
  req,         (* req[r]: the coroutine request r runs                      *)
  link,        (* the socket: "up", "dead" (broken, not noticed) or "none"  *)
  wire,        (* fields received by the socket and not read yet            *)
  device,      (* what the device does                                      *)
  shared,      (* history: lines that no single reader could read whole     *)
  gaveUp       (* history: a reader gave up, and none was launched since    *)

vars == <<continuous, reading, believed, task, reader, queue, lock, req,
          link, wire, device, shared, gaveUp>>

flags == <<continuous, reading, believed, task, gaveUp>>

NoTask == 0
NoOne  == "nobody"
Null   == [first |-> 0, last |-> 0, speed |-> NoField, distance |-> NoField]

Reader == [st: {"none", "new", "loop"}, buffer: Seq(Field)]
NoReader == [st |-> "none", buffer |-> <<>>]

AllOps == {"start", "stop", "resume", "poll", "command", "off", "reconnect"}
Stages == {"idle", "quiet", "send", "answer", "detect", "escape", "put",
           "clear", "fresh", "reply"}

Request == [op: AllOps \cup {"none"}, st: Stages, mode: Modes, last: Measurements,
            items: Seq(Measurements), due: SUBSET Readers, left: Nat]
Device == [on: BOOLEAN, mode: Modes, ln: Nat \ {0}, pos: Nat]
NoRequest == [op |-> "none", st |-> "idle", mode |-> "VT", last |-> Null,
              items |-> <<>>, due |-> {}, left |-> 0]

Init ==
  /\ continuous = FALSE /\ reading = FALSE /\ believed = FALSE /\ task = NoTask
  /\ reader = [k \in Readers |-> NoReader]
  /\ queue = <<>>
  /\ lock = NoOne
  /\ req = [r \in Requests |-> NoRequest]
  /\ link = "up"
  /\ wire = <<>>
  /\ device = [on |-> FALSE, mode |-> "VT", ln |-> 1, pos |-> 0]
  /\ shared = {}
  /\ gaveUp = FALSE

-----------------------------------------------------------------------------
(* Helpers.                                                                 *)

Live == {k \in Readers : reader[k].st # "none"}

At(r, st)   == req[r].st = st
Go(r, st)   == req' = [req EXCEPT ![r].st = st]
Return(r)   == req' = [req EXCEPT ![r] = NoRequest]
LinesIn(s)  == {x.ln : x \in Range(s)}

(* Lines of which a reader of ks holds the beginning.                       *)
Held(ks)    == UNION {LinesIn(reader[k].buffer) : k \in ks \cap Readers}

(* A lock waiter goes on when nobody is inside.                             *)
Free == lock = NoOne

(* asyncio.create_task(self._read_continuous_data()): whatever task was     *)
(* stored before is forgotten, not cancelled.                               *)
Launch ==
  LET free == Readers \ Live
  IN /\ free # {}
     /\ LET k == CHOOSE k \in free : \A j \in free : k <= j
        IN /\ reader' = [reader EXCEPT ![k] = [st |-> "new", buffer |-> <<>>]]
           /\ task' = k
           /\ gaveUp' = FALSE

(* task.cancel(): a cancelled reader runs no further line of code, not even *)
(* the one that resets _is_reading_continuous.                              *)
CancelTask ==
  reader' = [k \in Readers |-> IF k = task THEN NoReader ELSE reader[k]]

(* ESC ends the stream, between two fields; the device may miss it.         *)
Escaped ==
  \/ device' = [device EXCEPT !.on = FALSE]
  \/ UNCHANGED device

(* What a recv outside the readers takes, it takes from them.               *)
Taken(s) ==
  /\ wire' = <<>>
  /\ shared' = shared \cup LinesIn(s)

(* Oldest first out when the queue is full.                                 *)
Pushed(q, ms) ==
  LET all == q \o ms
      over == IF Len(all) > QueueMax THEN Len(all) - QueueMax ELSE 0
  IN SubSeq(all, over + 1, Len(all))

-----------------------------------------------------------------------------
(* The device and the bridge.                                               *)

(* The next fragment of the current line, up to a cut or to its end.        *)
DeviceSends ==
  /\ device.on /\ link = "up"
  /\ device.ln <= MaxLines
  /\ LET line == LineOf(device.mode)
         stops == {c \in Cuts \cup {Len(line)} : device.pos < c /\ c <= Len(line)}
     IN \E c \in stops :
          /\ wire' = wire \o [i \in 1..c - device.pos |->
                                [ln |-> device.ln, f |-> line[device.pos + i]]]
          /\ device' = IF c = Len(line)
                       THEN [device EXCEPT !.ln = @ + 1, !.pos = 0]
                       ELSE [device EXCEPT !.pos = c]
  /\ UNCHANGED <<flags, reader, queue, lock, req, link, shared>>

LinkBreaks ==
  /\ link = "up"
  /\ link' = "dead"
  /\ UNCHANGED <<flags, reader, queue, lock, req, wire, device, shared>>

(* A continuous mode begins with a new line.                                *)
Streaming(mode) ==
  [device EXCEPT !.on = TRUE, !.mode = mode, !.pos = 0,
                 !.ln = IF device.pos = 0 THEN @ ELSE @ + 1]

-----------------------------------------------------------------------------
(* _read_continuous_data: one turn of its loop, from one sleep to the next. *)

NotDue(k) == [r \in Requests |-> [req[r] EXCEPT !.due = @ \ {k}]]

(* Mutant: the tail of a read is not kept for the next one.                 *)
KeepNothing(s) == <<>>
Kept(s) == Incomplete(s)

ReaderReads(k) ==
  /\ reader[k].st = "new" \/ (reader[k].st = "loop" /\ reading)
  /\ continuous
  /\ link = "up"
  /\ LET s == reader[k].buffer \o wire
     IN /\ queue' = Pushed(queue, Parsed(s))
        /\ reader' = [reader EXCEPT ![k] = [st |-> "loop", buffer |-> Kept(s)]]
  /\ reading' = TRUE
  /\ wire' = <<>>
  \* with two readers, a line whose parts end up in different buffers
  /\ shared' = IF Cardinality(Live) > 1 THEN shared \cup LinesIn(wire) ELSE shared
  /\ req' = NotDue(k)
  /\ UNCHANGED <<gaveUp, continuous, believed, task, lock, link, device>>

ReaderEnds(k) ==
  /\ reader[k].st # "none"
  /\ ~continuous \/ (reader[k].st = "loop" /\ ~reading)
  /\ reader' = [reader EXCEPT ![k] = NoReader]
  /\ reading' = FALSE
  /\ req' = NotDue(k)
  /\ shared' = shared \cup Held({k})
  /\ UNCHANGED <<gaveUp, continuous, believed, task, queue, lock, link, wire, device>>

(* Up to five failing reads in a row are forgiven; a closed peer that only  *)
(* returns b'' is never noticed.                                            *)
ReaderRetries(k) ==
  /\ reader[k].st = "new" \/ (reader[k].st = "loop" /\ reading)
  /\ continuous
  /\ link # "up"
  /\ reader' = [reader EXCEPT ![k].st = "loop"]
  /\ reading' = TRUE
  /\ req' = NotDue(k)
  /\ UNCHANGED <<gaveUp, continuous, believed, task, queue, lock, link, wire,
                 device, shared>>

ReaderGivesUp(k) ==
  /\ reader[k].st = "loop"
  /\ continuous /\ reading
  /\ link # "up"
  /\ reader' = [reader EXCEPT ![k] = NoReader]
  /\ reading' = FALSE
  /\ gaveUp' = TRUE
  /\ req' = NotDue(k)
  /\ shared' = shared \cup Held({k})
  /\ UNCHANGED <<continuous, believed, task, queue, lock, link, wire, device>>

-----------------------------------------------------------------------------
(* stop_continuous and _start_continuous_mode.                              *)

(* Both first cancel the stored reader, and then wait for the lock.         *)
BeginStop(r, op, mode) ==
  /\ At(r, "idle")
  /\ op \in {"start", "stop"}
  /\ CancelTask
  /\ task' = NoTask
  /\ shared' = shared \cup Held({task})
  /\ req' = [req EXCEPT ![r] = [NoRequest EXCEPT !.op = op, !.st = "quiet", !.mode = mode]]
  /\ UNCHANGED <<gaveUp, continuous, reading, believed, queue, lock, link, wire, device>>

(* Mutant: a stop forgets the flag the readers look at.                     *)
QuietKeepsFlags == reading' = reading /\ continuous' = continuous /\ believed' = FALSE
Quiet == reading' = FALSE /\ continuous' = FALSE /\ believed' = FALSE

StopContinuous(r) ==
  /\ At(r, "quiet")
  /\ Free
  /\ IF link = "up" THEN Escaped ELSE UNCHANGED device
  /\ Quiet
  /\ queue' = <<>>
  /\ IF req[r].op = "stop" THEN Return(r) ELSE Go(r, "send")
  /\ UNCHANGED <<gaveUp, task, reader, lock, link, wire, shared>>

(* The line that a start cuts short.                                        *)
CutBy(op) == IF op = "start" /\ device.pos > 0 THEN {device.ln} ELSE {}

(* send_command: whatever has arrived is thrown away, then the command is   *)
(* sent and the lock kept until its answer has been read.                   *)
SendCommand(r) ==
  /\ At(r, "send")
  /\ Free
  /\ IF link = "up"
     THEN /\ lock' = r
          /\ wire' = <<>>
          /\ shared' = shared \cup LinesIn(wire) \cup CutBy(req[r].op)
          /\ req' = [req EXCEPT ![r].st = "answer", ![r].due = Live]
          /\ device' = IF req[r].op = "start" THEN Streaming(req[r].mode) ELSE device
     ELSE /\ Return(r)
          /\ UNCHANGED <<lock, wire, shared, device>>
  /\ UNCHANGED <<flags, reader, queue, link>>

(* The answer to a continuous mode is its first line, as far as it has      *)
(* arrived: "D" and three numbers are enough.                               *)
HasLine(s) == \E i \in DOMAIN s : s[i].f = "D" /\ i + 3 \in DOMAIN s

StartAnswered(r) ==
  /\ At(r, "answer") /\ req[r].op = "start" /\ req[r].due = {}
  /\ HasLine(wire)
  /\ Taken(wire)
  /\ continuous' = TRUE /\ believed' = TRUE
  /\ Launch
  /\ lock' = NoOne
  /\ Return(r)
  /\ UNCHANGED <<reading, queue, link, device>>

(* A request of several commands gives the lock back between them: the      *)
(* second attempt of a measurement, the next setting of a configuration.    *)
CommandAnswered(r) ==
  /\ At(r, "answer") /\ req[r].op = "command" /\ req[r].due = {}
  /\ Taken(wire)
  /\ lock' = NoOne
  /\ \/ Return(r)
     \/ /\ req[r].left > 1
        /\ req' = [req EXCEPT ![r].st = "send", ![r].left = @ - 1]
  /\ UNCHANGED <<flags, reader, queue, link, device>>

(* No answer in time, or the socket failed: nothing is undone.              *)
NoAnswer(r) ==
  /\ At(r, "answer") /\ req[r].due = {}
  /\ Taken(wire)
  /\ lock' = NoOne
  /\ Return(r)
  /\ UNCHANGED <<flags, reader, queue, link, device>>

BeginCommand(r, n) ==
  /\ At(r, "idle")
  /\ req' = [req EXCEPT ![r] = [NoRequest EXCEPT !.op = "command", !.st = "send", !.left = n]]
  /\ UNCHANGED <<flags, reader, queue, lock, link, wire, device, shared>>

(* The routes that query the device or set one parameter, those that set    *)
(* several, and the single measurements with their second attempt.          *)
QueryRoute(r)     == BeginCommand(r, 1)
ParameterRoute(r) == BeginCommand(r, 1)
ConfigRoute(r)    == \E n \in 1..Settings : BeginCommand(r, n)
MeasureRoute(r)   == BeginCommand(r, 2)

(* _send_escape_sequence, as set_mode_off and stop_drift_mode use it: no    *)
(* lock, and the continuous flags stay.  On a broken link it drops the      *)
(* socket.                                                                  *)
SetModeOff(r) ==
  /\ At(r, "idle")
  /\ \/ link = "up" /\ Escaped /\ UNCHANGED link
     \/ link = "dead" /\ link' = "none" /\ UNCHANGED device
  /\ UNCHANGED <<flags, reader, queue, lock, req, wire, shared>>

-----------------------------------------------------------------------------
(* detect_and_resume_continuous_mode and connect.                           *)

(* GET /measure/continuous looks at is_continuous_mode() first; the flags   *)
(* are not looked at again when the lock has been taken.                    *)
BeginResume(r) ==
  /\ At(r, "idle")
  /\ ~continuous /\ ~believed
  /\ req' = [req EXCEPT ![r] = [NoRequest EXCEPT !.op = "resume", !.st = "detect"]]
  /\ UNCHANGED <<flags, reader, queue, lock, link, wire, device, shared>>

(* Every piece of the received text counts as a line, the last one too.     *)
Pieces(s) == {e \in Ends(s) \cup {Len(s) + 1} : Piece(s, e) # <<>>}

Headers(s) == \E x \in Range(s) : x.f = "D"

DetectNothing(r) ==
  /\ At(r, "detect")
  /\ Free
  /\ link # "up" \/ ~Headers(wire)
  /\ IF link = "up" THEN Taken(wire) ELSE UNCHANGED <<wire, shared>>
  /\ continuous' = FALSE /\ believed' = FALSE
  /\ Return(r)
  /\ UNCHANGED <<gaveUp, reading, task, reader, queue, lock, link, device>>

(* A single piece that ends in the middle of its first number: three ESC    *)
(* bytes with sleeps, inside the lock.                                      *)
DetectPartial(r) ==
  /\ At(r, "detect")
  /\ Free
  /\ link = "up" /\ Headers(wire) /\ Len(wire) <= 2
  /\ Taken(wire)
  /\ Escaped
  /\ lock' = r
  /\ Go(r, "escape")
  /\ UNCHANGED <<flags, reader, queue, link>>

DetectEscaped(r) ==
  /\ At(r, "escape")
  /\ continuous' = FALSE /\ believed' = FALSE
  /\ lock' = NoOne
  /\ Return(r)
  /\ UNCHANGED <<gaveUp, reading, task, reader, queue, link, wire, device, shared>>

Detected(s) == InTurn(s, {e \in Pieces(s) : Usable(Piece(s, e))}, Guessed)

(* put() waits while the queue is full: the reader is only launched after   *)
(* the last put, and a resume keeps the lock until then.  Puts that find    *)
(* room do not interrupt the coroutine.  Afterwards the route reads, and    *)
(* connect() returns.                                                       *)
PutAll(r, op, items) ==
  LET room == QueueMax - Len(queue)
      n == IF Len(items) < room THEN Len(items) ELSE room
  IN /\ queue' = queue \o SubSeq(items, 1, n)
     /\ IF n = Len(items)
        THEN /\ Launch
             /\ lock' = IF lock = r THEN NoOne ELSE lock
             /\ IF op = "resume"
                THEN req' = [req EXCEPT ![r] = [NoRequest EXCEPT !.op = "poll", !.st = "reply"]]
                ELSE Return(r)
        ELSE /\ lock' = IF op = "resume" THEN r ELSE lock
             /\ req' = [req EXCEPT ![r] = [NoRequest EXCEPT !.op = op, !.st = "put",
                                            !.items = SubSeq(items, n + 1, Len(items))]]
             /\ UNCHANGED <<task, reader, gaveUp>>

Detect(r) ==
  /\ At(r, "detect")
  /\ Free
  /\ link = "up" /\ Headers(wire)
  /\ Taken(wire)
  /\ IF Detected(wire) # <<>>
     THEN /\ continuous' = TRUE /\ believed' = TRUE
          /\ PutAll(r, "resume", Detected(wire))
     ELSE /\ continuous' = FALSE /\ believed' = FALSE
          /\ Return(r)
          /\ UNCHANGED <<task, reader, gaveUp, queue, lock>>
  /\ UNCHANGED <<reading, link, device>>

PutOn(r) ==
  /\ At(r, "put")
  /\ Len(queue) < QueueMax
  /\ PutAll(r, req[r].op, req[r].items)
  /\ UNCHANGED <<continuous, reading, believed, link, wire, device, shared>>

(* connect() of a laser without a socket: no lock, ESC three times, then    *)
(* what has arrived is thrown away.                                         *)
Reconnect(r) ==
  /\ At(r, "idle")
  /\ link = "none"
  /\ link' = "up"
  /\ wire' = <<>>
  /\ shared' = shared \cup LinesIn(wire) \cup {device.ln}
                  \cup Held(Readers)
  /\ Escaped
  /\ req' = [req EXCEPT ![r] = [NoRequest EXCEPT !.op = "reconnect", !.st = "clear"]]
  /\ UNCHANGED <<flags, reader, queue, lock>>

(* _check_continuous_state: silence leaves the continuous flag alone.       *)
CheckSilence(r) ==
  /\ At(r, "clear")
  /\ wire = <<>> \/ link # "up"
  /\ believed' = FALSE
  /\ Return(r)
  /\ UNCHANGED <<gaveUp, continuous, reading, task, reader, queue, lock, link, wire,
                 device, shared>>

(* Here the parser is not told the mode and reads every piece as a distance. *)
AsDistance(line) == Parse(line, "DT")

CheckData(r) ==
  /\ At(r, "clear")
  /\ link = "up" /\ wire # <<>>
  /\ Taken(wire)
  /\ continuous' = TRUE /\ believed' = TRUE
  /\ PutAll(r, "reconnect", InTurn(wire, Pieces(wire), AsDistance))
  /\ UNCHANGED <<reading, link, device>>

-----------------------------------------------------------------------------
(* get_continuous_data.                                                     *)

(* A new poll, or the one that the route makes after it resumed.            *)
Polls(r) == At(r, "reply") \/ (At(r, "idle") /\ "poll" \in Ops)

Drained == IF queue = <<>> THEN Null ELSE queue[Len(queue)]

(* Mutant: the queue is looked at, not emptied.                             *)
DrainPeeks(r) ==
  /\ Polls(r) /\ continuous
  /\ req' = [req EXCEPT ![r] = [NoRequest EXCEPT !.op = "poll", !.st = "fresh", !.last = Drained]]
  /\ UNCHANGED <<flags, reader, queue, lock, link, wire, device, shared>>

(* The queue is emptied and its last measurement kept; then a fresh one is  *)
(* waited for.                                                              *)
Drain(r) ==
  /\ Polls(r) /\ continuous
  /\ req' = [req EXCEPT ![r] = [NoRequest EXCEPT !.op = "poll", !.st = "fresh", !.last = Drained]]
  /\ queue' = <<>>
  /\ UNCHANGED <<flags, reader, lock, link, wire, device, shared>>

(* Outside continuous mode the poll returns at once.                        *)
NoStream(r) ==
  /\ At(r, "reply") /\ ~continuous
  /\ Return(r)
  /\ UNCHANGED <<flags, reader, queue, lock, link, wire, device, shared>>

Fresh(r) ==
  /\ At(r, "fresh")
  /\ queue # <<>>
  /\ queue' = Tail(queue)
  /\ Return(r)
  /\ UNCHANGED <<flags, reader, lock, link, wire, device, shared>>

NoFresh(r) ==
  /\ At(r, "fresh")
  /\ Return(r)
  /\ UNCHANGED <<flags, reader, queue, lock, link, wire, device, shared>>

-----------------------------------------------------------------------------

ReaderStep(k) == ReaderReads(k) \/ ReaderEnds(k) \/ ReaderRetries(k) \/ ReaderGivesUp(k)

BeginOp(r) ==
  \/ \E mode \in StartModes : "start" \in Ops /\ BeginStop(r, "start", mode)
  \/ "stop" \in Ops /\ BeginStop(r, "stop", "VT")
  \/ "resume" \in Ops /\ BeginResume(r)
  \/ /\ "command" \in Ops
     /\ QueryRoute(r) \/ ParameterRoute(r) \/ ConfigRoute(r) \/ MeasureRoute(r)
  \/ "off" \in Ops /\ SetModeOff(r)
  \/ "reconnect" \in Ops /\ Reconnect(r)

RequestStep(r) ==
  \/ StopContinuous(r) \/ SendCommand(r) \/ StartAnswered(r) \/ CommandAnswered(r)
  \/ NoAnswer(r) \/ DetectNothing(r) \/ DetectPartial(r) \/ DetectEscaped(r)
  \/ Detect(r) \/ PutOn(r) \/ CheckSilence(r) \/ CheckData(r)
  \/ Drain(r) \/ NoStream(r) \/ Fresh(r) \/ NoFresh(r)

Next ==
  \/ \E r \in Requests : BeginOp(r) \/ RequestStep(r)
  \/ \E k \in Readers : ReaderStep(k)
  \/ DeviceSends
  \/ ("reconnect" \in Ops /\ LinkBreaks)

Spec == Init /\ [][Next]_vars

(* The event loop runs every coroutine that can go on.                      *)
FairSpec ==
  /\ Spec
  /\ \A r \in Requests : WF_vars(RequestStep(r))
  /\ \A k \in Readers : WF_vars(ReaderStep(k))

-----------------------------------------------------------------------------
(* Properties.                                                              *)

(* Every variable keeps its type; the queue never exceeds its maximum.      *)
TypeOK ==
  /\ continuous \in BOOLEAN /\ reading \in BOOLEAN /\ believed \in BOOLEAN
  /\ gaveUp \in BOOLEAN
  /\ task \in Readers \cup {NoTask} /\ reader \in [Readers -> Reader]
  /\ queue \in Seq(Measurements) /\ Len(queue) <= QueueMax
  /\ lock \in Requests \cup {NoOne} /\ req \in [Requests -> Request]
  /\ link \in {"up", "dead", "none"} /\ wire \in Seq(Field)
  /\ device \in Device /\ shared \subseteq Nat

Delivered == Range(queue) \cup {req[r].last : r \in Requests}

(* However the bytes are cut into reads, a lone reader puts every line      *)
(* together again: a measurement that calls one number by the name of       *)
(* another, or mixes two lines, comes from a line of which somebody else    *)
(* took a part (a command that flushes the socket, a second reader, a       *)
(* cancelled reader, a new connection).                                     *)
Whole ==
  \A m \in Delivered : Faithful(m) \/ \E n \in m.first..m.last : n \in shared

(* When no request is changing the mode, a device that says it is in        *)
(* continuous mode has a reader, whatever starts, stops, resumes and        *)
(* reconnects overlapped - unless a reader gave up on a broken link, which  *)
(* leaves the flag as it is.                                                *)
Quiescent == \A r \in Requests : At(r, "idle") \/ req[r].op = "poll"
Backed == Quiescent /\ continuous => Live # {} \/ gaveUp

(* All lines of m came to a single reader.                                  *)
Private(m) == \A n \in m.first..m.last : n \notin shared

(* A measurement of a line that one reader had to itself comes once, after  *)
(* all that was sent before it, and later than those a consumer has drained *)
(* and may still return: no consumer is taken back in time, with several    *)
(* readers, puts that block and a stop in between.                          *)
InOrder ==
  /\ \A i, j \in DOMAIN queue :
       i < j /\ Private(queue[j]) => queue[i].last < queue[j].last
  /\ \A r \in Requests, i \in DOMAIN queue :
       Private(queue[i]) => req[r].last.last < queue[i].last

(* "Detect if device is sending continuous data and resume reading if so":  *)
(* a detection that found measurements ends.                                *)
ResumeReturns == \A r \in Requests : At(r, "put") ~> ~At(r, "put")
=============================================================================
