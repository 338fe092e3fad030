---------------------------- MODULE LivoxDriver ----------------------------
(***************************************************************************)
(* The driver object of one Livox sensor                                   *)
(* (lidar-service/openpylivox-master/openpylivox/openpylivox.py) as the    *)
(* lidar manager uses it: the heartbeat thread, the commands of the one    *)
(* thread that calls the driver, the capture threads and the sensor behind *)
(* two UDP sockets.                                                        *)
(*                                                                         *)
(* The heartbeat thread and the commands share the command socket.  What   *)
(* keeps them apart is time: the heartbeat exchanges its datagrams, then   *)
(* counts idle_state from 9 down to 0, a tenth of a second for each, and a *)
(* command is sent only when idle_state is seen to be 9.                   *)
(*                                                                         *)
(* Time: Tick lets a tenth of a second pass.  It waits for what is due     *)
(* before: the end of a select, a datagram that has not arrived.  So an    *)
(* answer arrives within the tenth of a second select waits for it, or is  *)
(* lost; no thread is held up for longer.  It does not wait for a poll of  *)
(* idle_state: that falls into the tenth of a second of a 9, or misses it. *)
(*                                                                         *)
(* Bounds: Slots values of idle_state instead of ten; MaxAlarms messages   *)
(* of abnormal status; the manager sends a command of its own only while   *)
(* fewer than MaxUnread datagrams wait to be read.                         *)
(***************************************************************************)
EXTENDS Naturals, Sequences

CONSTANTS
  Ops,        (* the calls the calling thread makes                         *)
  Slots,      (* how many tenths of a second the heartbeat thread sleeps    *)
  MaxAlarms,
  MaxUnread

ASSUME DriverAssumption ==
  /\ Slots \in 3..10
  /\ MaxAlarms \in Nat /\ MaxUnread \in Nat \ {0}

VARIABLES
  link,     (* the connection as the driver object sees it                  *)
  hb,       (* the heartbeat thread                                         *)
  app,      (* the calling thread                                           *)
  net,      (* the datagrams of the command socket                          *)
  capture,  (* the capture threads and their files                          *)
  sensor

vars == <<link, hb, app, net, capture, sensor>>

Idles == {9, 0} \cup {i \in 0..9 : i > 10 - Slots}
Kinds == {"connect", "heartbeat", "query", "disconnect", "reboot", "motor",
          "data", "setting", "extrinsic", "readout", "address", "alarm"}

(* A datagram from the sensor: whose command it answers ("stray": nobody's  *)
(* any more), the set and number of the command, and its return code.       *)
Datagram == [of: {"hb", "app", "stray"}, kind: Kinds, ret: {"ok", "failed", "error"},
             motor: {"on", "off"}]

(* What a capture thread that runs is at.                                   *)
Live == {"consumes", "writes"}

(* What the calling thread waits for the sensor to answer.                  *)
Commands == {"connect", "query", "spinup", "spindown", "standby", "setting", "extrinsic",
             "readout", "address", "start", "stop", "reboot", "disconnect"}

Driver == [connected: BOOLEAN, open: BOOLEAN, data: BOOLEAN, writing: BOOLEAN,
           firmware: BOOLEAN, raw: BOOLEAN, heartbeat: BOOLEAN]
HbThread == [at: {"none", "send", "wait", "ready", "sleep", "blocked", "dead"},
             started: BOOLEAN, idle: Idles, left: {0, 1}, normal: BOOLEAN]
AppThread == [at: {"idle", "search", "poll", "wait", "spin", "join"},
              op: Commands \cup {"none"}, left: {0, 1}]
Socket == [air: SUBSET Datagram, inbox: Seq(Datagram), heard: {"fine", "stray"}]
Captures == [thread: Live \cup {"none", "closed"}, wanted: BOOLEAN, lost: SUBSET Live, cut: BOOLEAN]
Sensor == [motor: {"on", "off"}, streams: BOOLEAN, alarms: 0..MaxAlarms]

TypeOK ==
  /\ link \in Driver /\ hb \in HbThread /\ app \in AppThread
  /\ net \in Socket /\ capture \in Captures /\ sensor \in Sensor

NotConnected ==
  [connected |-> FALSE, open |-> FALSE, data |-> FALSE, writing |-> FALSE,
   firmware |-> FALSE, raw |-> FALSE, heartbeat |-> FALSE]

Init ==
  /\ link = NotConnected
  /\ hb = [at |-> "none", started |-> FALSE, idle |-> 0, left |-> 0, normal |-> FALSE]
  /\ app = [at |-> "idle", op |-> "none", left |-> 0]
  /\ net = [air |-> {}, inbox |-> <<>>, heard |-> "fine"]
  /\ capture = [thread |-> "none", wanted |-> FALSE, lost |-> {}, cut |-> FALSE]
  /\ sensor = [motor |-> "off", streams |-> FALSE, alarms |-> 0]
-----------------------------------------------------------------------------
(* The command socket.                                                      *)

(* The set and number by which each command's answer is recognised: the     *)
(* three motor commands share one, and so do start and stop of the data.    *)
KindOf(op) ==
  CASE op \in {"spinup", "spindown", "standby"} -> "motor"
    [] op \in {"start", "stop"} -> "data"
    [] OTHER -> op

(* What a command that reaches the sensor does there.                       *)
Obeys(op) ==
  CASE op = "spinup" -> [sensor EXCEPT !.motor = "on"]
    [] op \in {"spindown", "standby", "reboot", "disconnect"} ->
         [sensor EXCEPT !.motor = IF op = "disconnect" THEN @ ELSE "off",
                        !.streams = FALSE]
    [] op = "start" -> [sensor EXCEPT !.streams = TRUE]
    [] op = "stop" -> [sensor EXCEPT !.streams = FALSE]
    [] OTHER -> sensor

Answer(who, op, ret, after) ==
  [of |-> who, kind |-> KindOf(op), ret |-> ret,
   motor |-> IF op = "heartbeat" THEN after.motor ELSE "off"]

(* who sends op: the command is lost, or done and its answer lost or on its *)
(* way, or answered with a failure; a heartbeat may find an error.          *)
Sends(who, op) ==
  LET heard == IF who = "stray" THEN net.heard ELSE "fine"
      Happens(after, answers) ==
        /\ sensor' = after
        /\ net' = [net EXCEPT !.air = @ \cup answers, !.heard = heard]
      Answers(after, ret) == Happens(after, {Answer(who, op, ret, after)})
  IN \/ Happens(sensor, {}) \/ Happens(Obeys(op), {})
     \/ Answers(Obeys(op), "ok") \/ Answers(sensor, "failed")
     \/ op = "heartbeat" /\ Answers(sensor, "error")

Arrive ==
  \E m \in net.air :
    /\ net' = [net EXCEPT !.air = @ \ {m},
                          !.inbox = IF link.open THEN Append(@, m) ELSE @]
    /\ UNCHANGED <<link, hb, app, capture, sensor>>

(* The sensor reports an abnormal status on its own account.                *)
Alarm ==
  /\ link.connected /\ sensor.alarms < MaxAlarms
  /\ sensor' = [sensor EXCEPT !.alarms = @ + 1]
  /\ net' = [net EXCEPT !.air = @ \cup
       {[of |-> "stray", kind |-> "alarm", ret |-> "error", motor |-> "off"]}]
  /\ UNCHANGED <<link, hb, app, capture>>

(* An exchange of who is over: what it has not read nobody waits for.       *)
Strayed(m, who) == IF m.of = who THEN [m EXCEPT !.of = "stray"] ELSE m

Over(who, inbox, heard) ==
  [net EXCEPT !.inbox = [i \in DOMAIN inbox |-> Strayed(inbox[i], who)],
              !.air = {Strayed(m, who) : m \in @},
              !.heard = heard]

(* who reads the datagram m at the head of the socket's buffer.             *)
Reads(who, m) ==
  Over(who, Tail(net.inbox), IF m.of = who THEN "fine" ELSE "stray")
-----------------------------------------------------------------------------
(* The heartbeat thread.                                                    *)

HbStarts == [at |-> "send", started |-> TRUE, idle |-> 0, left |-> 0, normal |-> FALSE]

HbSends ==
  /\ hb.at = "send" /\ hb.started
  /\ Sends("hb", "heartbeat")
  /\ hb' = [hb EXCEPT !.at = "wait", !.left = 1]
  /\ UNCHANGED <<link, app, capture>>

HbLeaves ==
  /\ hb.at = "send" /\ ~hb.started
  /\ hb' = [hb EXCEPT !.at = "none"]
  /\ UNCHANGED <<link, app, net, capture, sensor>>

HbSelects ==
  /\ hb.at = "wait" /\ net.inbox # <<>>
  /\ hb' = [hb EXCEPT !.at = "ready"]
  /\ UNCHANGED <<link, app, net, capture, sensor>>

(* recvfrom: an error status or an alarm ends the thread by sys.exit.       *)
HbReads ==
  /\ hb.at \in {"ready", "blocked"} /\ net.inbox # <<>>
  /\ LET m == Head(net.inbox)
         beat == m.kind = "heartbeat"
     IN /\ net' = Reads("hb", m)
        /\ hb' = IF m.kind = "alarm" \/ (beat /\ m.ret = "error")
                   THEN [hb EXCEPT !.at = "dead", !.left = 0]
                   ELSE [hb EXCEPT !.at = "sleep", !.idle = 9, !.left = 0,
                           !.normal = IF beat /\ m.ret = "ok" THEN m.motor = "on" ELSE @]
  /\ UNCHANGED <<link, app, capture, sensor>>

(* Mutant: an unanswered heartbeat does not begin the pause.                *)
HbTimesOutSilently ==
  /\ hb.at = "wait" /\ hb.left = 0 /\ net.inbox = <<>>
  /\ hb' = [hb EXCEPT !.at = "sleep", !.idle = 0, !.left = 0]
  /\ net' = Over("hb", net.inbox, "fine")
  /\ UNCHANGED <<link, app, capture, sensor>>

HbTimesOut ==
  /\ hb.at = "wait" /\ hb.left = 0 /\ net.inbox = <<>>
  /\ hb' = [hb EXCEPT !.at = "sleep", !.idle = 9, !.left = 0]
  /\ net' = Over("hb", net.inbox, "fine")
  /\ UNCHANGED <<link, app, capture, sensor>>
-----------------------------------------------------------------------------
(* The capture threads: the registered one, and those it has replaced.      *)

(* stop() sets started and joins: the thread leaves its loop and closes its *)
(* file.                                                                    *)
Stopped == [capture EXCEPT !.thread = IF @ \in Live THEN "closed" ELSE @]

(* stop(), and _captureStream is None.                                      *)
Unregistered == [capture EXCEPT !.thread = "none", !.wanted = FALSE]

(* A new thread takes the place of the registered one, running or not.      *)
Replaced ==
  [capture EXCEPT !.lost = @ \cup ({capture.thread} \cap Live),
                  !.thread = "consumes", !.wanted = FALSE]

(* The data socket is closed: select raises in the threads that read it and *)
(* ends them where they are.                                                *)
Abandoned ==
  [thread |-> "none", wanted |-> FALSE, lost |-> {},
   cut |-> capture.cut \/ "writes" \in capture.lost \cup {capture.thread}]

(* The first packet after isCapturing is set: the file is opened, unless    *)
(* the packet has another version than 5.                                   *)
CaptureBegins ==
  /\ capture.thread = "consumes" /\ capture.wanted /\ sensor.streams
  /\ \E phase \in {"writes", "closed"} :
       capture' = [capture EXCEPT !.thread = phase, !.wanted = FALSE]
  /\ UNCHANGED <<link, hb, app, net, sensor>>

(* The duration is over.                                                    *)
CaptureCompletes ==
  /\ capture.thread = "writes" /\ sensor.streams
  /\ capture' = [capture EXCEPT !.thread = "closed"]
  /\ UNCHANGED <<link, hb, app, net, sensor>>
-----------------------------------------------------------------------------
(* The calls.  Each returns at once unless the driver is in a state for it. *)

Returned == [at |-> "idle", op |-> "none", left |-> 0]
Polls(op) == [at |-> "poll", op |-> op, left |-> 0]

(* The sockets are closed; what is still on its way to them is lost.        *)
Silence == [net EXCEPT !.air = {}, !.inbox = <<>>]

(* connect() opens new sockets before it searches for the sensor.           *)
CallConnect ==
  /\ ~link.connected
  /\ link' = [link EXCEPT !.open = TRUE, !.raw = FALSE]
  /\ net' = Silence
  /\ capture' = Abandoned
  /\ app' = [app EXCEPT !.at = "search", !.op = "connect"]
  /\ UNCHANGED <<hb, sensor>>

(* The two seconds of the search are over: without the sensor's answer      *)
(* connect returns, and leaves the sockets open.                            *)
SearchEnds ==
  /\ app.at = "search"
  /\ \/ app' = Returned /\ UNCHANGED <<net, sensor>>
     \/ app' = [app EXCEPT !.at = "wait", !.left = 1] /\ Sends("app", "connect")
  /\ UNCHANGED <<link, hb, capture>>

(* Commands without a condition but the connection: to the motor, ...        *)
CallMotor(op) ==
  /\ op \in {"spinup", "spindown", "standby"}
  /\ link.connected
  /\ app' = Polls(op)
  /\ UNCHANGED <<link, hb, net, capture, sensor>>

(* ... to write or read a setting, the extrinsic parameters, the address.    *)
CallSetting(op) ==
  /\ op \in {"setting", "extrinsic", "address"}
  /\ link.connected
  /\ app' = Polls(op)
  /\ UNCHANGED <<link, hb, net, capture, sensor>>

(* Mutant: dataStart does not look at isData.                               *)
CallStartAgain ==
  /\ link.connected /\ ~link.raw
  /\ capture' = Replaced
  /\ app' = Polls("start")
  /\ UNCHANGED <<link, hb, net, sensor>>

CallStart ==
  /\ link.connected /\ ~link.data /\ ~link.raw
  /\ capture' = Replaced
  /\ app' = Polls("start")
  /\ UNCHANGED <<link, hb, net, sensor>>

CallStop ==
  /\ link.connected /\ link.data
  /\ app' = Polls("stop")
  /\ UNCHANGED <<link, hb, net, capture, sensor>>

(* saveDataToFile needs the firmware version that connect has asked for.    *)
CallSave ==
  /\ link.connected /\ link.data /\ link.firmware /\ ~link.raw
  /\ link' = [link EXCEPT !.writing = TRUE]
  /\ capture' = [capture EXCEPT !.wanted = capture.thread = "consumes"]
  /\ UNCHANGED <<hb, app, net, sensor>>

CallClose ==
  /\ link.connected /\ link.writing
  /\ link' = [link EXCEPT !.writing = FALSE]
  /\ capture' = Stopped
  /\ UNCHANGED <<hb, app, net, sensor>>

CallReboot ==
  /\ link.connected
  /\ link' = [link EXCEPT !.connected = FALSE, !.data = FALSE, !.writing = FALSE]
  /\ capture' = Unregistered
  /\ app' = Polls("reboot")
  /\ UNCHANGED <<hb, net, sensor>>

CallDisconnect ==
  \/ /\ link.connected
     /\ capture' = Unregistered
     /\ app' = Polls("disconnect")
     /\ UNCHANGED <<link, hb, net, sensor>>
  \/ /\ ~link.connected
     /\ link' = NotConnected
     /\ net' = Silence
     /\ capture' = Abandoned
     /\ UNCHANGED <<hb, app, sensor>>

(* The lidar manager starts and stops the data itself: it neither waits for *)
(* idle_state nor reads the answer.  It starts no capture thread.           *)
CallRaw(op, starts) ==
  /\ link.connected /\ capture.thread = "none"
  /\ Len(net.inbox) < MaxUnread /\ net.air = {}
  /\ Sends("stray", op)
  /\ link' = [link EXCEPT !.data = starts, !.raw = TRUE]
  /\ UNCHANGED <<hb, app, capture>>

(* stop_stream empties the command socket, which it makes non-blocking for  *)
(* that time.  A heartbeat thread between select and recvfrom finds nothing *)
(* there: it raises, or blocks for the next datagram.                       *)
CallDrain ==
  /\ link.connected /\ link.raw
  /\ hb' \in IF hb.at = "ready" THEN {[hb EXCEPT !.at = a] : a \in {"dead", "blocked"}}
                                ELSE {hb}
  /\ net' = [net EXCEPT !.inbox = <<>>,
                        !.heard = IF hb.at = "ready" /\ hb'.at = "dead" THEN "fine" ELSE @]
  /\ UNCHANGED <<link, app, capture, sensor>>

Call(op) ==
  /\ app.at = "idle"
  /\ \/ op = "connect" /\ CallConnect
     \/ CallMotor(op) \/ CallSetting(op)
     \/ op = "start" /\ CallStart
     \/ op = "stop" /\ CallStop
     \/ op = "save" /\ CallSave
     \/ op = "close" /\ CallClose
     \/ op = "reboot" /\ CallReboot
     \/ op = "disconnect" /\ CallDisconnect
     \/ op = "rawStart" /\ CallRaw("start", TRUE)
     \/ op = "rawStop" /\ CallRaw("stop", FALSE)
     \/ op = "drain" /\ CallDrain
-----------------------------------------------------------------------------
(* A command: _waitForIdle, sendto, select, recvfrom.                       *)

(* Mutant: a command waits for the end of the pause, not for its begin.     *)
IdleLate == hb.idle = 0 \/ ~link.heartbeat

(* _waitForIdle sees idle_state = 9, or there is no heartbeat.              *)
Idle == hb.idle = 9 \/ ~link.heartbeat

SendCommand ==
  /\ app.at = "poll" /\ Idle
  /\ Sends("app", app.op)
  /\ app' = [app EXCEPT !.at = "wait", !.left = 1]
  /\ UNCHANGED <<link, hb, capture>>

(* Mutant: reboot does not wait for the heartbeat thread.                   *)
AfterUnjoined(op) ==
  CASE op = "spinup" -> [app EXCEPT !.at = "spin", !.left = 0]
    [] op = "disconnect" -> [app EXCEPT !.at = "join", !.left = 0]
    [] OTHER -> Returned

(* What the caller does after the exchange, whatever it heard.              *)
After(op) ==
  CASE op = "spinup" -> [app EXCEPT !.at = "spin", !.left = 0]
    [] op \in {"disconnect", "reboot"} -> [app EXCEPT !.at = "join", !.left = 0]
    [] OTHER -> Returned

(* The end of dataStop, lidarSpinDown and lidarStandBy.                     *)
DataEnds ==
  /\ link' = [link EXCEPT !.data = FALSE, !.writing = FALSE]
  /\ capture' = Unregistered

(* The answer of the kind the command op expects, with its return code.     *)
Answered(op, ret) ==
  \/ /\ op \in {"spindown", "standby", "stop"} /\ ret = "ok"
     /\ DataEnds
  \/ /\ op = "start"
     /\ link' = [link EXCEPT !.data = (ret = "ok")]
     /\ capture' = IF ret = "ok" THEN capture ELSE Stopped
  \/ /\ op = "query" /\ ret = "ok"
     /\ link' = [link EXCEPT !.firmware = TRUE]
     /\ UNCHANGED capture
  \/ /\ op \in {"spinup", "setting", "readout", "reboot", "disconnect"} \/ (op # "start" /\ ret # "ok")
     /\ UNCHANGED <<link, capture>>

(* connect is answered with 0: the heartbeat starts and the firmware is     *)
(* asked for.                                                               *)
Connected ==
  /\ link' = [link EXCEPT !.connected = TRUE, !.heartbeat = TRUE]
  /\ hb' = HbStarts
  /\ app' = Polls("query")
  /\ UNCHANGED capture

(* Written extrinsic parameters are read back, and a new address ends the   *)
(* connection: the driver disconnects, and the calling thread exits.        *)
Written(op) ==
  /\ app' = Polls(IF op = "address" THEN "disconnect" ELSE "readout")
  /\ capture' = IF op = "address" THEN Unregistered ELSE capture
  /\ UNCHANGED <<link, hb>>

Continues(op, ret) ==
  /\ ret = "ok"
  /\ \/ op = "connect" /\ Connected
     \/ op \in {"extrinsic", "address"} /\ Written(op)

ReadAnswer ==
  /\ app.at = "wait" /\ net.inbox # <<>>
  /\ LET m == Head(net.inbox)
         fits == m.kind = KindOf(app.op)
     IN /\ net' = Reads("app", m)
        /\ \/ fits /\ Continues(app.op, m.ret)
           \/ /\ app' = After(app.op)
              /\ IF fits THEN Answered(app.op, m.ret) ELSE UNCHANGED <<link, capture>>
              /\ hb' = [hb EXCEPT !.started = @ /\ app'.at # "join"]
  /\ UNCHANGED sensor

NoAnswer ==
  /\ app.at = "wait" /\ app.left = 0 /\ net.inbox = <<>>
  /\ app' = After(app.op)
  /\ net' = Over("app", net.inbox, "fine")
  /\ hb' = [hb EXCEPT !.started = @ /\ app'.at # "join"]
  /\ UNCHANGED <<link, capture, sensor>>

(* lidarSpinUp returns when a heartbeat has reported the normal state.      *)
SpinUpSeen ==
  /\ app.at = "spin" /\ hb.normal
  /\ app' = Returned
  /\ UNCHANGED <<link, hb, net, capture, sensor>>

(* The heartbeat thread is joined; the sockets are closed and, by           *)
(* disconnect, everything is as in a new object.                            *)
HbJoined ==
  /\ app.at = "join" /\ hb.at \in {"none", "dead"}
  /\ hb' = [hb EXCEPT !.at = "none", !.idle = 9]
  /\ link' = IF app.op = "disconnect" THEN NotConnected
             ELSE [link EXCEPT !.open = FALSE, !.heartbeat = FALSE]
  /\ net' = Silence
  /\ capture' = Abandoned
  /\ app' = Returned
  /\ UNCHANGED sensor
-----------------------------------------------------------------------------
(* A tenth of a second passes.                                              *)

Due ==
  \/ net.air # {}
  \/ hb.at \in {"send", "ready"}
  \/ hb.at = "wait" /\ (hb.left = 0 \/ net.inbox # <<>>)
  \/ hb.at = "blocked" /\ net.inbox # <<>>
  \/ app.at = "poll" /\ ~link.heartbeat
  \/ app.at = "wait" /\ (app.left = 0 \/ net.inbox # <<>>)

NextIdle(i) == IF i > 11 - Slots THEN i - 1 ELSE 0

Tick ==
  /\ ~Due
  /\ hb' = CASE hb.at = "wait" -> [hb EXCEPT !.left = 0]
             [] hb.at = "sleep" /\ hb.idle = 0 -> [hb EXCEPT !.at = "send"]
             [] hb.at = "sleep" /\ hb.idle # 0 -> [hb EXCEPT !.idle = NextIdle(@)]
             [] OTHER -> hb
  /\ app' = IF app.at = "wait" THEN [app EXCEPT !.left = 0] ELSE app
  /\ UNCHANGED <<link, net, capture, sensor>>

Heartbeat == HbSends \/ HbLeaves \/ HbSelects \/ HbReads \/ HbTimesOut
Caller == SearchEnds \/ SendCommand \/ ReadAnswer \/ NoAnswer \/ SpinUpSeen \/ HbJoined

Next ==
  \/ \E op \in Ops : Call(op)
  \/ Caller \/ Heartbeat \/ Tick
  \/ Arrive \/ Alarm
  \/ CaptureBegins \/ CaptureCompletes

Spec == Init /\ [][Next]_vars

(* Both threads run, time passes and what is on its way arrives; nobody has *)
(* to call, no command has to reach the sensor.  A poll may miss the 9 of   *)
(* any pause, but not of every one: it comes each tenth of a second, a 9    *)
(* lasts one, and neither sleep is in step with the other.  What else the   *)
(* caller waits for stays until it is seen.                                 *)
FairSpec ==
  Spec /\ WF_vars(Heartbeat) /\ SF_vars(Caller) /\ WF_vars(Tick) /\ WF_vars(Arrive)
-----------------------------------------------------------------------------
(* Properties.                                                              *)

(* Who has asked and not yet heard; what lies about that nobody asked for.  *)
Asking ==
  IF app.at = "wait" THEN "app"
  ELSE IF hb.at \in {"wait", "ready", "blocked"} THEN "hb" ELSE "nobody"
Noisy ==
  \E m \in net.air \cup {net.inbox[i] : i \in DOMAIN net.inbox} : m.of = "stray"

(* The pause of the heartbeat and _waitForIdle make a half-duplex line of   *)
(* the shared command socket: heartbeat thread and caller never have an     *)
(* exchange open together, and unless the manager's unread answers or an    *)
(* alarm are about, whoever asks hears its own answer or nothing            *)
(* (openpylivox.py:59-94, 1822-1826).                                       *)
Line == INSTANCE HalfDuplex WITH
  Parties <- {"app", "hb"}, Nobody <- "nobody",
  owner <- Asking, heard <- net.heard, noise <- Noisy

ImplementsHalfDuplex == Line!Spec

(* A capture thread that has a file open can be reached by the call that    *)
(* will end it: it is never replaced, and never finds its socket closed     *)
(* under it.  A start whose answer was lost leaves threads behind, but none *)
(* of them writes (openpylivox.py:2331-2337, 2413-2420, 2640, 3310-3318).   *)
FilesClosed == "writes" \notin capture.lost /\ ~capture.cut

(* When disconnect or reboot has returned, whatever was lost or in flight,  *)
(* there is no heartbeat thread, no capture thread that still has a socket  *)
(* to read, and nothing claims to stream or to write (openpylivox.py:2329). *)
DisconnectedIsQuiet ==
  app.at = "idle" /\ ~link.connected =>
    /\ hb.at = "none" /\ ~link.heartbeat
    /\ capture.thread = "none" /\ capture.lost = {}
    /\ ~link.data /\ ~link.writing

(* Every call returns, whatever the network loses, unless it waits for a    *)
(* motor that does not come up, or the heartbeat thread has ended with an   *)
(* error or hangs in recvfrom: then idle_state stays 0 and the call hangs   *)
(* (openpylivox.py:1822-1826, 2476-2496).                                   *)
CallsReturn ==
  (app.at # "idle") ~> (app.at \in {"idle", "spin"} \/ hb.at \in {"dead", "blocked"})
=============================================================================
