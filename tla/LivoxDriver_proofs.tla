-------------------------- MODULE LivoxDriver_proofs --------------------------
(***************************************************************************)
(* Theorems about LivoxDriver: the command socket is a half-duplex line,   *)
(* no capture file stays open, and a driver that has disconnected is       *)
(* quiet.                                                                  *)
(*                                                                         *)
(* And, after them, about LivoxCapture, the file that a capture thread of  *)
(* the driver writes and its conversion: the table has the captured points,*)
(* the two converters agree, and the times lie in the window asked for.    *)
(* The two have their variables apart; no theorem is about both.           *)
(***************************************************************************)
EXTENDS LivoxDriver, LivoxCapture, SequenceTheorems, FiniteSetTheorems, WellFoundedInduction, TLAPS

-----------------------------------------------------------------------------
(* The inductive invariant.                                                 *)

HbAsks == hb.at \in {"wait", "ready", "blocked"}
Leaving == app.op \in {"reboot", "disconnect"}

(* Which operation the calling thread can be at each of its stages in, and  *)
(* that it needs a connection unless it makes or has just ended one.        *)
Staged ==
  /\ app.at = "idle" <=> app.op = "none"
  /\ app.at = "search" => app.op = "connect"
  /\ app.at = "spin" => app.op = "spinup"
  /\ app.at = "join" => Leaving
  /\ app.at # "idle" /\ app.op \notin {"connect", "reboot"} => link.connected
  /\ app.op = "connect" => app.at \in {"search", "wait"}
  /\ app.op \in {"connect", "reboot"} => ~link.connected

(* A heartbeat thread runs from connect to the join at the end of a         *)
(* disconnect or reboot, and outside its pause idle_state is 0.             *)
BeatRuns ==
  /\ link.heartbeat <=> link.connected \/ app.op = "reboot"
  /\ link.heartbeat /\ app.at # "join" => hb.at # "none" /\ hb.started
  /\ hb.at # "none" => link.heartbeat
  /\ hb.at \in {"send", "wait", "ready", "blocked", "dead"} => hb.idle = 0
  /\ app.at = "join" => ~hb.started /\ hb.at \in {"sleep", "send", "none"}

(* While the calling thread waits for an answer the heartbeat thread is in  *)
(* the first two tenths of a second of its pause, or does not exist.        *)
TurnsApart ==
  app.at = "wait" =>
    \/ app.op = "connect" /\ hb.at = "none"
    \/ hb.at = "sleep" /\ (hb.idle = 9 \/ (hb.idle = 8 /\ app.left = 0))

(* What is on the line for who: at most one datagram.                       *)
OneOf(who, socket) ==
  /\ \A m, n \in socket.air : m.of = who /\ n.of = who => m = n
  /\ \A i, j \in DOMAIN socket.inbox :
       socket.inbox[i].of = who /\ socket.inbox[j].of = who => i = j
  /\ \A m \in socket.air, i \in DOMAIN socket.inbox :
       ~(m.of = who /\ socket.inbox[i].of = who)

NoneInAir(who, socket) == \A m \in socket.air : m.of # who
NoneOf(who, socket) ==
  NoneInAir(who, socket) /\ \A i \in DOMAIN socket.inbox : socket.inbox[i].of # who

(* An answer on its way belongs to an exchange that is open, or to a        *)
(* heartbeat thread that died and lets nobody ask again; none is in the air *)
(* when the time to wait for it is over.                                    *)
AppAwaits ==
  /\ OneOf("app", net)
  /\ app.at # "wait" => NoneOf("app", net)
  /\ app.at = "wait" /\ app.left = 0 => NoneInAir("app", net)
HbAwaits ==
  /\ OneOf("hb", net)
  /\ ~HbAsks /\ hb.at # "dead" => NoneOf("hb", net)
  /\ hb.at = "wait" /\ hb.left = 0 => NoneInAir("hb", net)
Awaited == AppAwaits /\ HbAwaits

(* Without a connection nothing claims to stream or to write, and once      *)
(* reboot has returned no capture thread is left.                           *)
Quiet ==
  ~link.connected =>
    /\ ~link.data /\ ~link.writing
    /\ app.op # "reboot" => capture.thread = "none" /\ capture.lost = {}

(* A thread that writes, or will, is the registered one, while the driver   *)
(* says that the sensor streams.                                            *)
Capturing ==
  /\ FilesClosed
  /\ capture.thread = "writes" \/ (capture.thread = "consumes" /\ capture.wanted) => link.data
  /\ Leaving => capture.thread = "none"

Control == Staged /\ BeatRuns /\ TurnsApart /\ Quiet /\ Capturing
IInv == TypeOK /\ Control /\ Awaited

-----------------------------------------------------------------------------
(* What the steps do to the line.                                           *)

(* Whatever becomes of a command, at most one answer to it is added.        *)
LEMMA SendsAdds ==
  ASSUME TypeOK, NEW who \in {"hb", "app", "stray"}, NEW op \in Commands \cup {"heartbeat"},
         Sends(who, op)
  PROVE  /\ sensor' \in Sensor /\ net' \in Socket
         /\ net'.inbox = net.inbox
         /\ net'.heard = IF who = "stray" THEN net.heard ELSE "fine"
         /\ \E answers : /\ net'.air = net.air \cup answers
                         /\ \A m \in answers : m.of = who
                         /\ \A m, n \in answers : m = n
<1> DEFINE heard == IF who = "stray" THEN net.heard ELSE "fine"
           Does(after, answers) ==
             sensor' = after /\ net' = [net EXCEPT !.air = @ \cup answers, !.heard = heard]
           Rets == {"ok", "failed", "error"}
<1>1. sensor \in Sensor /\ Obeys(op) \in Sensor
  BY DEF TypeOK, Obeys, Sensor
<1>2. ASSUME NEW ret \in Rets, NEW after \in Sensor
      PROVE  Answer(who, op, ret, after) \in Datagram /\ Answer(who, op, ret, after).of = who
  BY DEF Answer, KindOf, Datagram, Kinds, Sensor, Commands
<1>3. \/ \E after \in Sensor : Does(after, {})
      \/ \E after \in Sensor, ret \in Rets : Does(after, {Answer(who, op, ret, after)})
  BY <1>1 DEF Sends
<1>4. heard \in {"fine", "stray"}
  BY DEF TypeOK, Socket
<1>5. ASSUME NEW after \in Sensor, NEW answers \in SUBSET Datagram, Does(after, answers)
      PROVE  /\ sensor' \in Sensor /\ net' \in Socket /\ net'.inbox = net.inbox
             /\ net'.heard = heard /\ net'.air = net.air \cup answers
  BY <1>4, <1>5 DEF TypeOK, Socket
<1> HIDE DEF Does, heard
<1>6. CASE \E after \in Sensor : Does(after, {})
  <2>1. PICK none \in SUBSET Datagram :
               /\ \A m \in none : FALSE
               /\ sensor' \in Sensor /\ net' \in Socket /\ net'.inbox = net.inbox
               /\ net'.heard = heard /\ net'.air = net.air \cup none
    BY <1>5, <1>6
  <2> QED  BY <2>1 DEF heard
<1>7. CASE \E after \in Sensor, ret \in Rets : Does(after, {Answer(who, op, ret, after)})
  <2>1. PICK m \in Datagram : /\ m.of = who
                             /\ sensor' \in Sensor /\ net' \in Socket /\ net'.inbox = net.inbox
                             /\ net'.heard = heard /\ net'.air = net.air \cup {m}
    BY <1>2, <1>5, <1>7
  <2> QED  BY <2>1 DEF heard
<1> QED  BY <1>3, <1>6, <1>7

(* The rest of the inbox after its head was read.                           *)
LEMMA TailOfInbox ==
  ASSUME NEW inbox \in Seq(Datagram), inbox # <<>>
  PROVE  /\ Tail(inbox) \in Seq(Datagram) /\ Head(inbox) \in Datagram
         /\ Head(inbox) = inbox[1] /\ 1 \in DOMAIN inbox
         /\ DOMAIN Tail(inbox) = 1 .. Len(inbox) - 1
         /\ \A i \in 1 .. Len(inbox) - 1 : Tail(inbox)[i] = inbox[i + 1] /\ i + 1 \in DOMAIN inbox
OBVIOUS

LEMMA StrayedType ==
  ASSUME NEW m \in Datagram, NEW who
  PROVE  /\ Strayed(m, who) \in Datagram
         /\ Strayed(m, who).of = IF m.of = who THEN "stray" ELSE m.of
         /\ m.of # who => Strayed(m, who) = m
BY DEF Strayed, Datagram

(* After an exchange of who is over nothing on the line is for who, and     *)
(* what is for another stays.                                               *)
LEMMA OverLine ==
  ASSUME net \in Socket, NEW who, NEW inbox \in Seq(Datagram), NEW heard \in {"fine", "stray"}
  PROVE  LET after == Over(who, inbox, heard) IN
           /\ after \in Socket /\ after.heard = heard
           /\ DOMAIN after.inbox = DOMAIN inbox
           /\ \A i \in DOMAIN inbox : after.inbox[i] = Strayed(inbox[i], who)
           /\ after.air = {Strayed(m, who) : m \in net.air}
<1> DEFINE rest == [i \in DOMAIN inbox |-> Strayed(inbox[i], who)]
<1>1. rest \in Seq(Datagram)
  <2>1. DOMAIN inbox = 1 .. Len(inbox) /\ Len(inbox) \in Nat
    OBVIOUS
  <2>2. \A i \in DOMAIN inbox : Strayed(inbox[i], who) \in Datagram
    BY StrayedType
  <2> QED  BY <2>1, <2>2
<1>2. {Strayed(m, who) : m \in net.air} \subseteq Datagram
  BY StrayedType DEF Socket
<1> QED  BY <1>1, <1>2 DEF Over, Socket

LEMMA NoisyLine ==
  Noisy <=> \/ \E m \in net.air : m.of = "stray"
            \/ \E i \in DOMAIN net.inbox : net.inbox[i].of = "stray"
BY DEF Noisy

LEMMA ReadsLine ==
  ASSUME TypeOK, net.inbox # <<>>, NEW who \in {"app", "hb"}, OneOf(who, net),
         net' = Reads(who, Head(net.inbox))
  PROVE  /\ net' \in Socket
         /\ NoneOf(who, net')
         /\ \A v \in {"app", "hb"} \ {who} :
              /\ OneOf(v, net) => OneOf(v, net')
              /\ NoneOf(v, net) => NoneOf(v, net')
              /\ NoneInAir(v, net) => NoneInAir(v, net')
         /\ net'.heard = IF net.inbox[1].of = who THEN "fine" ELSE "stray"
         /\ net.inbox[1].of = who /\ Noisy' => Noisy
<1> DEFINE rest == Tail(net.inbox)
           heard == IF Head(net.inbox).of = who THEN "fine" ELSE "stray"
<1>1. /\ net \in Socket /\ net.inbox \in Seq(Datagram) /\ net.air \subseteq Datagram
  BY DEF TypeOK, Socket
<1>2. /\ rest \in Seq(Datagram) /\ Head(net.inbox) = net.inbox[1] /\ 1 \in DOMAIN net.inbox
      /\ DOMAIN rest = 1 .. Len(net.inbox) - 1
      /\ \A i \in DOMAIN rest : rest[i] = net.inbox[i + 1] /\ i + 1 \in DOMAIN net.inbox
      /\ Len(net.inbox) \in Nat
  BY <1>1, TailOfInbox
<1>3. net' = Over(who, rest, heard)
  BY DEF Reads
<1>4. heard \in {"fine", "stray"}
  OBVIOUS
<1> HIDE DEF rest, heard
<1>5. /\ net' \in Socket /\ net'.heard = heard /\ DOMAIN net'.inbox = DOMAIN rest
      /\ \A i \in DOMAIN rest : net'.inbox[i] = Strayed(rest[i], who)
      /\ net'.air = {Strayed(m, who) : m \in net.air}
  BY <1>1, <1>2, <1>3, <1>4, OverLine
<1>6. \A i \in DOMAIN rest : /\ rest[i] \in Datagram
                             /\ net'.inbox[i].of = IF rest[i].of = who THEN "stray" ELSE rest[i].of
  <2>1. \A i \in DOMAIN net.inbox : net.inbox[i] \in Datagram
    BY <1>1
  <2> QED  BY <2>1, <1>2, <1>5, StrayedType
<1>7. \A m \in net'.air : \E n \in net.air :
        /\ m = Strayed(n, who) /\ m.of = IF n.of = who THEN "stray" ELSE n.of
        /\ n.of # who => m = n
  BY <1>1, <1>5, StrayedType
<1>8. NoneOf(who, net')
  BY <1>5, <1>6, <1>7 DEF NoneOf, NoneInAir
<1>9. ASSUME NEW v \in {"app", "hb"} \ {who}
      PROVE  /\ OneOf(v, net) => OneOf(v, net')
             /\ NoneOf(v, net) => NoneOf(v, net')
             /\ NoneInAir(v, net) => NoneInAir(v, net')
  <2>1. \A m \in net'.air : m.of = v => m \in net.air
    BY <1>7
  <2>2. \A i \in DOMAIN net'.inbox :
          net'.inbox[i].of = v => i + 1 \in DOMAIN net.inbox /\ net.inbox[i + 1].of = v
    BY <1>2, <1>5, <1>6
  <2>3. \A i, j \in DOMAIN net'.inbox : i + 1 = j + 1 => i = j
    BY <1>2, <1>5
  <2>4. OneOf(v, net) => OneOf(v, net')
    BY <2>1, <2>2, <2>3 DEF OneOf
  <2> QED  BY <2>1, <2>2, <2>4 DEF NoneOf, NoneInAir
<1>10. ASSUME net.inbox[1].of = who, Noisy' PROVE Noisy
  <2>1. \A m \in net.air : m.of # who
    BY <1>2, <1>10 DEF OneOf
  <2>2. \A i \in DOMAIN rest : rest[i].of # who
    BY <1>2, <1>10 DEF OneOf
  <2>3. CASE \E m \in net'.air : m.of = "stray"
    BY <2>1, <2>3, <1>7, NoisyLine
  <2>4. CASE \E i \in DOMAIN net'.inbox : net'.inbox[i].of = "stray"
    <3>1. PICK i \in DOMAIN rest : net'.inbox[i].of = "stray"
      BY <2>4, <1>5
    <3>2. rest[i].of = "stray"
      BY <2>2, <3>1, <1>6
    <3>3. i + 1 \in DOMAIN net.inbox /\ net.inbox[i + 1].of = "stray"
      BY <3>2, <1>2
    <3> QED  BY <3>3, NoisyLine
  <2>5. \/ \E m \in net'.air : m.of = "stray"
        \/ \E i \in DOMAIN net'.inbox : net'.inbox[i].of = "stray"
    BY <1>10 DEF Noisy
  <2> QED  BY <2>3, <2>4, <2>5
<1> QED  BY <1>2, <1>5, <1>8, <1>9, <1>10 DEF heard

(* An exchange of who that ends without an answer, with none in the air.    *)
LEMMA GivesUpLine ==
  ASSUME TypeOK, NEW who \in {"app", "hb"}, net.inbox = <<>>, NoneInAir(who, net),
         net' = Over(who, net.inbox, "fine")
  PROVE  /\ net' \in Socket /\ net'.air = net.air /\ DOMAIN net'.inbox = {}
         /\ net'.heard = "fine"
<1>1. /\ net \in Socket /\ net.inbox \in Seq(Datagram) /\ net.air \subseteq Datagram
      /\ DOMAIN net.inbox = {}
  BY DEF TypeOK, Socket
<1> DEFINE heard == "fine"
           inbox == net.inbox
<1>a. heard \in {"fine", "stray"} /\ net' = Over(who, inbox, heard) /\ inbox \in Seq(Datagram)
  BY <1>1
<1>2. /\ net' \in Socket /\ net'.heard = heard /\ DOMAIN net'.inbox = DOMAIN inbox
      /\ net'.air = {Strayed(m, who) : m \in net.air}
  <2> HIDE DEF heard, inbox
  <2> QED  BY <1>1, <1>a, OverLine
<1>3. \A m \in net.air : Strayed(m, who) = m
  BY <1>1, StrayedType DEF NoneInAir
<1>4. net'.air = net.air
  BY <1>2, <1>3
<1> QED  BY <1>1, <1>2, <1>4

(* A datagram arrives, or is lost because there is no socket.               *)
LEMMA ArriveLine ==
  ASSUME TypeOK, Arrive
  PROVE  /\ net' \in Socket /\ net'.heard = net.heard
         /\ \A v \in {"app", "hb"} :
              /\ OneOf(v, net) => OneOf(v, net')
              /\ NoneOf(v, net) => NoneOf(v, net')
              /\ NoneInAir(v, net) => NoneInAir(v, net')
<1>1. PICK m \in net.air :
        net' = [net EXCEPT !.air = @ \ {m}, !.inbox = IF link.open THEN Append(@, m) ELSE @]
  BY DEF Arrive
<1>2. /\ net \in Socket /\ net.inbox \in Seq(Datagram) /\ net.air \subseteq Datagram /\ m \in Datagram
  BY DEF TypeOK, Socket
<1>3. net'.air = net.air \ {m} /\ net'.heard = net.heard /\ net' \in Socket
  <2>1. (IF link.open THEN Append(net.inbox, m) ELSE net.inbox) \in Seq(Datagram)
    BY <1>2
  <2> QED  BY <1>1, <1>2, <2>1 DEF Socket
<1>4. CASE ~link.open
  <2>1. net'.inbox = net.inbox
    BY <1>1, <1>2, <1>4 DEF Socket
  <2> QED  BY <1>3, <2>1 DEF OneOf, NoneOf, NoneInAir
<1>5. CASE link.open
  <2>1. net'.inbox = Append(net.inbox, m)
    BY <1>1, <1>2, <1>5 DEF Socket
  <2>2. /\ DOMAIN net.inbox = 1 .. Len(net.inbox) /\ Len(net.inbox) \in Nat
        /\ DOMAIN net'.inbox = 1 .. Len(net.inbox) + 1
        /\ \A i \in DOMAIN net.inbox : net'.inbox[i] = net.inbox[i]
        /\ net'.inbox[Len(net.inbox) + 1] = m
    BY <1>2, <2>1
  <2>3. \A i \in DOMAIN net'.inbox : i \in DOMAIN net.inbox \/ i = Len(net.inbox) + 1
    BY <2>2
  <2>4. ASSUME NEW v \in {"app", "hb"}, OneOf(v, net) PROVE OneOf(v, net')
    BY <1>3, <2>2, <2>3, <2>4 DEF OneOf
  <2>5. ASSUME NEW v \in {"app", "hb"}
        PROVE  /\ NoneOf(v, net) => NoneOf(v, net') 
               /\ NoneInAir(v, net) => NoneInAir(v, net')
    BY <1>3, <2>2, <2>3 DEF NoneOf, NoneInAir
  <2> QED  BY <1>3, <2>4, <2>5
<1> QED  BY <1>4, <1>5

-----------------------------------------------------------------------------
(* The types.                                                               *)

LEMMA SilenceType == TypeOK => Silence \in Socket
<1>1. <<>> \in Seq(Datagram)
  OBVIOUS
<1> QED  BY <1>1 DEF TypeOK, Socket, Silence

LEMMA CapturesTypes ==
  ASSUME TypeOK
  PROVE  /\ Stopped \in Captures /\ Unregistered \in Captures
         /\ Replaced \in Captures /\ Abandoned \in Captures
BY DEF TypeOK, Captures, Live, Stopped, Unregistered, Replaced, Abandoned

LEMMA AppTypes ==
  ASSUME TypeOK
  PROVE  /\ Returned \in AppThread
         /\ \A op \in Commands : Polls(op) \in AppThread
         /\ \A op : After(op) \in AppThread
BY DEF TypeOK, AppThread, Commands, Returned, Polls, After

LEMMA CallTypes ==
  ASSUME TypeOK, NEW op \in Ops, Call(op)
  PROVE  TypeOK'
<1>1. CASE CallConnect
  BY <1>1, SilenceType, CapturesTypes DEF TypeOK, CallConnect, Driver, AppThread, Commands
<1>2. CASE CallMotor(op) \/ CallSetting(op)
  BY <1>2, AppTypes DEF TypeOK, CallMotor, CallSetting, Commands
<1>3. CASE CallStart \/ CallStop
  BY <1>3, AppTypes, CapturesTypes DEF TypeOK, CallStart, CallStop, Commands
<1>4. CASE CallSave
  BY <1>4 DEF TypeOK, CallSave, Driver, Captures
<1>5. CASE CallClose
  BY <1>5, CapturesTypes DEF TypeOK, CallClose, Driver
<1>6. CASE CallReboot
  BY <1>6, AppTypes, CapturesTypes DEF TypeOK, CallReboot, Driver, Commands
<1>7. CASE CallDisconnect
  <2>1. "disconnect" \in Commands /\ NotConnected \in Driver
    BY DEF Commands, NotConnected, Driver
  <2>2. Polls("disconnect") \in AppThread /\ Unregistered \in Captures
        /\ Abandoned \in Captures /\ Silence \in Socket
    BY <2>1, AppTypes, CapturesTypes, SilenceType
  <2>3. CASE link.connected
    BY <1>7, <2>2, <2>3 DEF TypeOK, CallDisconnect
  <2>4. CASE ~link.connected
    BY <1>7, <2>1, <2>2, <2>4 DEF TypeOK, CallDisconnect
  <2> QED  BY <2>3, <2>4
<1>8. ASSUME NEW o \in {"start", "stop"}, NEW starts \in BOOLEAN, CallRaw(o, starts) PROVE TypeOK'
  <2>1. net' \in Socket /\ sensor' \in Sensor
    BY <1>8, SendsAdds DEF CallRaw, Commands
  <2> QED  BY <1>8, <2>1 DEF TypeOK, CallRaw, Driver
<1>9. CASE CallDrain
  <2>1. net' \in Socket
    <3>1. <<>> \in Seq(Datagram)
      OBVIOUS
    <3> QED  BY <1>9, <3>1 DEF TypeOK, CallDrain, Socket
  <2>2. hb' \in HbThread
    BY <1>9 DEF TypeOK, CallDrain, HbThread
  <2> QED  BY <1>9, <2>1, <2>2 DEF TypeOK, CallDrain
<1> QED  BY <1>1, <1>2, <1>3, <1>4, <1>5, <1>6, <1>7, <1>8, <1>9 DEF Call

LEMMA NextIdleType == \A i \in Idles : i # 0 => NextIdle(i) \in Idles
BY DriverAssumption DEF Idles, NextIdle

LEMMA HeartbeatTypes ==
  ASSUME TypeOK, OneOf("hb", net), Heartbeat \/ Tick
  PROVE  TypeOK'
<1>1. CASE HbSends
  BY <1>1, SendsAdds DEF TypeOK, HbSends, HbThread
<1>2. CASE HbLeaves \/ HbSelects
  BY <1>2 DEF TypeOK, HbLeaves, HbSelects, HbThread
<1>3. CASE HbReads
  <2>1. net' \in Socket
    BY <1>3, ReadsLine DEF HbReads
  <2>2. Head(net.inbox).motor \in {"on", "off"} /\ 9 \in Idles
    BY <1>3, TailOfInbox DEF HbReads, TypeOK, Socket, Datagram, Idles
  <2>3. hb' \in HbThread
    BY <1>3, <2>2 DEF HbReads, TypeOK, HbThread
  <2> QED  BY <1>3, <2>1, <2>3 DEF HbReads, TypeOK
<1>4. CASE HbTimesOut
  <2>1. net' \in Socket
    BY <1>4, OverLine DEF HbTimesOut, TypeOK, Socket
  <2> QED  BY <1>4, <2>1 DEF HbTimesOut, TypeOK, HbThread, Idles
<1>5. CASE Tick
  <2>1. hb' \in HbThread
    BY <1>5, NextIdleType DEF Tick, TypeOK, HbThread
  <2> QED  BY <1>5, <2>1 DEF Tick, TypeOK, AppThread
<1> QED  BY <1>1, <1>2, <1>3, <1>4, <1>5 DEF Heartbeat

LEMMA CallerTypes ==
  ASSUME TypeOK, Staged, OneOf("app", net), Caller
  PROVE  TypeOK'
<1>1. CASE SearchEnds
  <2>1. CASE app' = Returned /\ UNCHANGED <<net, sensor>>
    BY <1>1, <2>1, AppTypes DEF TypeOK, SearchEnds
  <2>2. CASE app' = [app EXCEPT !.at = "wait", !.left = 1] /\ Sends("app", "connect")
    <3>1. net' \in Socket /\ sensor' \in Sensor
      BY <2>2, SendsAdds DEF Commands
    <3> QED  BY <1>1, <2>2, <3>1 DEF TypeOK, SearchEnds, AppThread
  <2> QED  BY <1>1, <2>1, <2>2 DEF SearchEnds
<1>2. CASE SendCommand
  <2>1. app.op \in Commands
    BY <1>2 DEF TypeOK, Staged, SendCommand, AppThread
  <2> QED  BY <1>2, <2>1, SendsAdds DEF TypeOK, SendCommand, AppThread
<1>3. CASE ReadAnswer
  <2>1. net' \in Socket
    BY <1>3, ReadsLine DEF ReadAnswer
  <2>2. ASSUME NEW ret, Continues(app.op, ret)
        PROVE  link' \in Driver /\ hb' \in HbThread /\ app' \in AppThread /\ capture' \in Captures
    <3>1. CASE Connected
      BY <3>1, AppTypes DEF TypeOK, Connected, HbStarts, Driver, HbThread, Idles, Commands
    <3>2. CASE Written(app.op)
      BY <3>2, AppTypes, CapturesTypes DEF TypeOK, Written, Commands
    <3> QED  BY <2>2, <3>1, <3>2 DEF Continues
  <2>3. ASSUME NEW ret, Answered(app.op, ret) PROVE link' \in Driver /\ capture' \in Captures
    BY <2>3, CapturesTypes DEF TypeOK, Answered, DataEnds, Driver
  <2>4. ASSUME app' = After(app.op), hb' = [hb EXCEPT !.started = @ /\ app'.at # "join"]
        PROVE  hb' \in HbThread /\ app' \in AppThread
    BY <2>4, AppTypes DEF TypeOK, HbThread
  <2> QED  BY <1>3, <2>1, <2>2, <2>3, <2>4 DEF ReadAnswer, TypeOK
<1>4. CASE NoAnswer
  <2>1. net' \in Socket
    BY <1>4, OverLine DEF NoAnswer, TypeOK, Socket
  <2> QED  BY <1>4, <2>1, AppTypes DEF NoAnswer, TypeOK, HbThread
<1>5. CASE SpinUpSeen
  BY <1>5, AppTypes DEF SpinUpSeen, TypeOK
<1>6. CASE HbJoined
  BY <1>6, AppTypes, SilenceType, CapturesTypes
     DEF HbJoined, TypeOK, HbThread, Idles, NotConnected, Driver
<1> QED  BY <1>1, <1>2, <1>3, <1>4, <1>5, <1>6 DEF Caller

LEMMA OtherTypes ==
  ASSUME TypeOK, Arrive \/ Alarm \/ CaptureBegins \/ CaptureCompletes
  PROVE  TypeOK'
<1>1. CASE Arrive
  BY <1>1, ArriveLine DEF Arrive, TypeOK
<1>2. CASE Alarm
  BY <1>2, DriverAssumption DEF Alarm, TypeOK, Socket, Datagram, Kinds, Sensor
<1>3. CASE CaptureBegins \/ CaptureCompletes
  BY <1>3 DEF CaptureBegins, CaptureCompletes, TypeOK, Captures, Live
<1> QED  BY <1>1, <1>2, <1>3

-----------------------------------------------------------------------------
(* The stages of both threads, and the capture threads.                     *)

LEMMA CallControl ==
  ASSUME TypeOK, Control, NEW op \in Ops, Call(op)
  PROVE  Control'
<1> USE DEF Control, Staged, BeatRuns, TurnsApart, Quiet, Capturing, Leaving, FilesClosed, Call
<1>1. CASE CallConnect
  BY <1>1 DEF TypeOK, CallConnect, Driver, AppThread, HbThread, Abandoned
<1>2. CASE CallMotor(op) \/ CallSetting(op)
  BY <1>2 DEF TypeOK, CallMotor, CallSetting, Polls
<1>3. CASE CallStart \/ CallStop
  <2>1. CASE CallStart
    <3>1. capture'.lost = capture.lost \cup ({capture.thread} \cap Live) /\ capture'.cut = capture.cut
          /\ capture'.thread = "consumes" /\ ~capture'.wanted
      BY <2>1 DEF TypeOK, CallStart, Replaced, Captures
    <3>2. "writes" \notin capture'.lost
      BY <2>1, <3>1 DEF CallStart
    <3> QED  BY <2>1, <3>1, <3>2 DEF CallStart, Polls
  <2>2. CASE CallStop
    BY <2>2 DEF CallStop, Polls
  <2> QED  BY <1>3, <2>1, <2>2
<1>4. CASE CallSave
  BY <1>4 DEF TypeOK, CallSave, Driver, Captures
<1>5. CASE CallClose
  BY <1>5 DEF TypeOK, CallClose, Driver, Captures, Stopped, Live
<1>6. CASE CallReboot
  BY <1>6 DEF TypeOK, CallReboot, Driver, Captures, Unregistered, Polls
<1>7. CASE CallDisconnect
  <2>1. /\ Unregistered.thread = "none" /\ ~Unregistered.wanted
        /\ Unregistered.lost = capture.lost /\ Unregistered.cut = capture.cut
        /\ Polls("disconnect").at = "poll" /\ Polls("disconnect").op = "disconnect"
    BY DEF TypeOK, Captures, Unregistered, Polls
  <2>2. CASE link.connected
    <3>1. /\ app' = Polls("disconnect") /\ capture' = Unregistered
          /\ UNCHANGED <<link, hb>> /\ app.at = "idle"
      BY <1>7, <2>2 DEF CallDisconnect
    <3>2. /\ app'.at = "poll" /\ app'.op = "disconnect" /\ capture'.thread = "none"
          /\ ~capture'.wanted /\ capture'.lost = capture.lost /\ capture'.cut = capture.cut
      BY <2>1, <3>1
    <3> QED  BY <2>2, <3>1, <3>2
  <2>3. CASE ~link.connected
    <3>1. /\ app.at = "idle" /\ UNCHANGED <<hb, app>>
          /\ link' = NotConnected /\ capture' = Abandoned
      BY <1>7, <2>3 DEF CallDisconnect
    <3>2. /\ ~link'.connected /\ ~link'.data /\ ~link'.writing /\ ~link'.heartbeat
          /\ capture'.thread = "none" /\ ~capture'.wanted /\ capture'.lost = {}
          /\ capture'.cut = (capture.cut \/ "writes" \in capture.lost \cup {capture.thread})
      BY <3>1 DEF NotConnected, Abandoned
    <3>3. hb.at = "none" /\ ~link.heartbeat /\ capture.thread = "none" /\ capture.lost = {}
      BY <2>3, <3>1
    <3> QED  BY <2>3, <3>1, <3>2, <3>3
  <2> QED  BY <2>2, <2>3
<1>8. ASSUME NEW o \in {"start", "stop"}, NEW starts \in BOOLEAN, CallRaw(o, starts) PROVE Control'
  BY <1>8 DEF TypeOK, CallRaw, Driver
<1>9. CASE CallDrain
  BY <1>9 DEF TypeOK, CallDrain, HbThread
<1> QED  BY <1>1, <1>2, <1>3, <1>4, <1>5, <1>6, <1>7, <1>8, <1>9

LEMMA HeartbeatControl ==
  ASSUME TypeOK, Control, Heartbeat \/ Tick
  PROVE  Control'
<1> USE DEF Control, Staged, BeatRuns, TurnsApart, Quiet, Capturing, Leaving, FilesClosed
<1>1. CASE HbSends
  BY <1>1 DEF TypeOK, HbSends, HbThread
<1>2. CASE HbLeaves \/ HbSelects
  BY <1>2 DEF TypeOK, HbLeaves, HbSelects, HbThread
<1>3. CASE HbReads
  BY <1>3 DEF TypeOK, HbReads, HbThread
<1>4. CASE HbTimesOut
  BY <1>4 DEF TypeOK, HbTimesOut, HbThread
<1>5. CASE Tick
  <2>1. app.at = "wait" => app.left # 0
    BY <1>5 DEF Tick, Due
  <2>2. hb.at = "sleep" /\ hb.idle = 9 => hb'.at = "sleep" /\ hb'.idle = 8
    BY <1>5, DriverAssumption DEF Tick, NextIdle, TypeOK, HbThread
  <2>3. /\ app'.at = app.at /\ app'.op = app.op /\ app.at = "wait" => app'.left = 0
        /\ hb.at \notin {"wait", "sleep"} => hb' = hb
        /\ hb'.started = hb.started
        /\ hb.at = "wait" => hb'.at = "wait" /\ hb'.idle = hb.idle
        /\ hb.at = "sleep" => hb'.at = "sleep" \/ (hb'.at = "send" /\ hb'.idle = 0)
    BY <1>5 DEF Tick, TypeOK, HbThread, AppThread
  <2> QED  BY <1>5, <2>1, <2>2, <2>3 DEF Tick, TypeOK, HbThread
<1> QED  BY <1>1, <1>2, <1>3, <1>4, <1>5 DEF Heartbeat

LEMMA CallerControl ==
  ASSUME TypeOK, Control, Caller
  PROVE  Control'
<1> USE DEF Control, Staged, BeatRuns, TurnsApart, Quiet, Capturing, Leaving, FilesClosed
<1>1. CASE SearchEnds
  <2>1. CASE app' = Returned
    BY <1>1, <2>1 DEF SearchEnds, Returned
  <2>2. CASE app' = [app EXCEPT !.at = "wait", !.left = 1]
    BY <1>1, <2>2 DEF TypeOK, SearchEnds, AppThread
  <2> QED  BY <1>1, <2>1, <2>2 DEF SearchEnds
<1>2. CASE SendCommand
  BY <1>2 DEF TypeOK, SendCommand, AppThread, HbThread, Idle
<1>3. CASE ReadAnswer
  <2>1. ASSUME NEW ret, Continues(app.op, ret), app.at = "wait" PROVE Control'
    <3>1. CASE Connected /\ app.op = "connect"
      BY <2>1, <3>1 DEF TypeOK, Connected, Polls, HbStarts, Driver
    <3>2. CASE Written(app.op) /\ app.op \in {"extrinsic", "address"}
      BY <2>1, <3>2 DEF TypeOK, Written, Polls, Unregistered, Captures
    <3> QED  BY <2>1, <3>1, <3>2 DEF Continues
  <2>2. ASSUME app.at = "wait", app' = After(app.op), UNCHANGED <<link, capture>>,
               hb' = [hb EXCEPT !.started = @ /\ app'.at # "join"]
        PROVE  Control'
    BY <2>2 DEF TypeOK, After, Returned, AppThread, HbThread
  <2>3. ASSUME NEW ret, Answered(app.op, ret), app.at = "wait", app' = After(app.op),
               hb' = [hb EXCEPT !.started = @ /\ app'.at # "join"]
        PROVE  Control'
    <3>1. CASE app.op \in {"spindown", "standby", "stop"} /\ DataEnds
      <4>1. /\ app'.at = "idle" /\ app'.op = "none" /\ hb' = hb
        BY <2>3, <3>1 DEF After, Returned, TypeOK, HbThread
      <4>2. /\ link'.connected = link.connected /\ link'.heartbeat = link.heartbeat
            /\ ~link'.data /\ ~link'.writing /\ capture'.thread = "none" /\ ~capture'.wanted
            /\ capture'.lost = capture.lost /\ capture'.cut = capture.cut
        BY <3>1 DEF DataEnds, Unregistered, TypeOK, Driver, Captures
      <4> QED  BY <2>3, <3>1, <4>1, <4>2
    <3>2. CASE app.op = "start" /\ link' = [link EXCEPT !.data = (ret = "ok")]
               /\ capture' = (IF ret = "ok" THEN capture ELSE Stopped)
      <4>1. /\ app'.at = "idle" /\ app'.op = "none" /\ hb' = hb
        BY <2>3, <3>2 DEF After, Returned, TypeOK, HbThread
      <4>2. /\ link'.connected = link.connected /\ link'.heartbeat = link.heartbeat
            /\ link'.data = (ret = "ok") /\ link'.writing = link.writing
        BY <3>2 DEF TypeOK, Driver
      <4>3. /\ capture'.lost = capture.lost /\ capture'.cut = capture.cut
            /\ ret = "ok" => capture' = capture
            /\ ret # "ok" => capture'.thread \notin Live
        BY <3>2 DEF Stopped, TypeOK, Captures, Live
      <4>4. link.connected
        BY <2>3, <3>2
      <4> QED  BY <2>3, <3>2, <4>1, <4>2, <4>3, <4>4 DEF Live
    <3>3. CASE app.op = "query" /\ link' = [link EXCEPT !.firmware = TRUE] /\ UNCHANGED capture
      <4>1. /\ app'.at = "idle" /\ app'.op = "none" /\ hb' = hb
        BY <2>3, <3>3 DEF After, Returned, TypeOK, HbThread
      <4>2. /\ link'.connected = link.connected /\ link'.heartbeat = link.heartbeat
            /\ link'.data = link.data /\ link'.writing = link.writing
        BY <3>3 DEF TypeOK, Driver
      <4> QED  BY <2>3, <3>3, <4>1, <4>2
    <3> QED  BY <2>3, <2>2, <3>1, <3>2, <3>3 DEF Answered
  <2> QED  BY <1>3, <2>1, <2>2, <2>3 DEF ReadAnswer
<1>4. CASE NoAnswer
  BY <1>4 DEF TypeOK, NoAnswer, After, Returned, AppThread, HbThread
<1>5. CASE SpinUpSeen
  BY <1>5 DEF TypeOK, SpinUpSeen, Returned
<1>6. CASE HbJoined
  BY <1>6 DEF TypeOK, HbJoined, Returned, HbThread, NotConnected, Abandoned, Driver
<1> QED  BY <1>1, <1>2, <1>3, <1>4, <1>5, <1>6 DEF Caller

LEMMA OtherControl ==
  ASSUME TypeOK, Control, Arrive \/ Alarm \/ CaptureBegins \/ CaptureCompletes
  PROVE  Control'
<1> USE DEF Control, Staged, BeatRuns, TurnsApart, Quiet, Capturing, Leaving, FilesClosed
<1>1. CASE Arrive \/ Alarm
  <2>1. UNCHANGED <<link, hb, app, capture>>
    BY <1>1 DEF Arrive, Alarm
  <2> QED  BY <2>1
<1>2. CASE CaptureBegins \/ CaptureCompletes
  <2>1. /\ capture'.thread \in {"writes", "closed"} /\ capture.thread \in Live
        /\ capture.thread = "consumes" => capture.wanted
        /\ capture'.lost = capture.lost /\ capture'.cut = capture.cut
        /\ UNCHANGED <<link, hb, app>>
    BY <1>2 DEF TypeOK, CaptureBegins, CaptureCompletes, Captures, Live
  <2> QED  BY <2>1 DEF Live
<1> QED  BY <1>1, <1>2

-----------------------------------------------------------------------------
(* The line.                                                                *)

LineStep == Line!Next \/ UNCHANGED <<Asking, net.heard, Noisy>>

LEMMA NoiseStep ==
  ASSUME Asking' = Asking, net'.heard = net.heard
  PROVE  LineStep
BY DEF LineStep, Line!Next, Line!Noise, Noisy

LEMMA AskStep ==
  ASSUME NEW who \in {"app", "hb"}, Asking = "nobody", Asking' = who,
         net'.heard = "fine", Noisy' <=> Noisy
  PROVE  LineStep
<1>1. Noisy' = Noisy
  BY DEF Noisy
<1> QED  BY <1>1 DEF LineStep, Line!Next, Line!Ask

LEMMA HearStep ==
  ASSUME NEW who \in {"app", "hb"}, Asking = who, Asking' = "nobody",
         net'.heard = "fine" \/ (Noisy /\ net'.heard = "stray"), Noisy' => Noisy
  PROVE  LineStep
<1>1. Noisy' = Noisy \/ Noisy' = FALSE
  BY DEF Noisy
<1>2. Noisy' \in {FALSE, Noisy}
  BY <1>1
<1>3. net'.heard \in {"fine"} \cup IF Noisy THEN {"stray"} ELSE {}
  OBVIOUS
<1> QED  BY <1>2, <1>3 DEF LineStep, Line!Next, Line!Hear

(* The new line keeps what is known of the old one.                         *)
LineKept(v) ==
  /\ OneOf(v, net) => OneOf(v, net')
  /\ NoneOf(v, net) => NoneOf(v, net')
  /\ NoneInAir(v, net) => NoneInAir(v, net')

LEMMA SendsLine ==
  ASSUME TypeOK, NEW who \in {"hb", "app", "stray"}, NEW op \in Commands \cup {"heartbeat"},
         Sends(who, op)
  PROVE  /\ who # "stray" => (Noisy' <=> Noisy)
         /\ NoneOf(who, net) => OneOf(who, net')
         /\ \A v \in {"app", "hb"} \ {who} : LineKept(v)
<1>1. net'.inbox = net.inbox
  BY SendsAdds
<1>2. PICK answers : /\ net'.air = net.air \cup answers
                     /\ \A m \in answers : m.of = who
                     /\ \A m, n \in answers : m = n
  BY SendsAdds
<1>3. ASSUME who # "stray" PROVE Noisy' <=> Noisy
  BY <1>1, <1>2, <1>3 DEF Noisy
<1>4. ASSUME NoneOf(who, net) PROVE OneOf(who, net')
  BY <1>1, <1>2, <1>4 DEF NoneOf, NoneInAir, OneOf
<1>5. ASSUME NEW v \in {"app", "hb"} \ {who} PROVE LineKept(v)
  <2>1. \A m \in net'.air : m.of = v => m \in net.air
    BY <1>2
  <2>2. \A m \in net.air : m \in net'.air
    BY <1>2
  <2> QED  BY <1>1, <2>1, <2>2 DEF LineKept, NoneOf, NoneInAir, OneOf
<1> QED  BY <1>3, <1>4, <1>5

(* Nobody begins to wait, and nothing is added for anybody.                 *)
LEMMA AwaitedKept ==
  ASSUME Awaited, LineKept("app"), LineKept("hb"),
         app'.at = "wait" <=> app.at = "wait", app.at = "wait" => app'.left = app.left,
         HbAsks' \/ hb'.at = "dead" <=> HbAsks \/ hb.at = "dead",
         hb'.at = "wait" => hb.at = "wait" /\ hb'.left = hb.left
  PROVE  Awaited'
<1>1. AppAwaits'
  BY DEF Awaited, AppAwaits, LineKept
<1>2. HbAwaits'
  BY DEF Awaited, HbAwaits, LineKept, HbAsks
<1> QED  BY <1>1, <1>2 DEF Awaited

LEMMA LineUnchanged == net' = net => LineKept("app") /\ LineKept("hb")
BY DEF LineKept

LEMMA SilentLine ==
  ASSUME net' = Silence, TypeOK
  PROVE  /\ LineKept("app") /\ LineKept("hb") /\ net'.heard = net.heard
         /\ NoneOf("app", net') /\ NoneOf("hb", net')
<1>1. net'.air = {} /\ net'.inbox = <<>> /\ net'.heard = net.heard /\ DOMAIN net'.inbox = {}
  BY DEF Silence, TypeOK, Socket
<1> QED  BY <1>1 DEF LineKept, OneOf, NoneOf, NoneInAir

LEMMA CallLine ==
  ASSUME IInv, NEW op \in Ops, Call(op)
  PROVE  Awaited' /\ LineStep
<1> USE DEF IInv
<1>1. app.at = "idle"
  BY DEF Call
<1>2. CASE app'.at # "wait" /\ UNCHANGED <<hb, net>>
  <2>1. Awaited'
    BY <1>1, <1>2, LineUnchanged, AwaitedKept DEF HbAsks
  <2>2. Asking' = Asking
    BY <1>1, <1>2 DEF Asking
  <2> QED  BY <1>2, <2>1, <2>2, NoiseStep
<1>3. CASE app'.at # "wait" /\ hb' = hb /\ net' = Silence
  <2>1. Awaited'
    BY <1>1, <1>3, SilentLine, AwaitedKept DEF HbAsks
  <2>2. Asking' = Asking
    BY <1>1, <1>3 DEF Asking
  <2> QED  BY <1>3, <2>1, <2>2, SilentLine, NoiseStep
<1>4. ASSUME NEW o \in {"start", "stop"}, NEW starts, CallRaw(o, starts)
      PROVE  Awaited' /\ LineStep
  <2>1. o \in Commands \cup {"heartbeat"}
    BY DEF Commands
  <2>2. Sends("stray", o) /\ UNCHANGED <<hb, app>>
    BY <1>4 DEF CallRaw
  <2>3. LineKept("app") /\ LineKept("hb") /\ net'.heard = net.heard
    BY <2>1, <2>2, SendsLine, SendsAdds
  <2>4. Awaited'
    BY <2>2, <2>3, AwaitedKept DEF HbAsks
  <2>5. Asking' = Asking
    BY <2>2 DEF Asking
  <2> QED  BY <2>3, <2>4, <2>5, NoiseStep
<1>5. CASE CallDrain
  <2>1. /\ app' = app /\ net'.air = net.air /\ net'.inbox = <<>> /\ DOMAIN net'.inbox = {}
        /\ net'.heard = (IF hb.at = "ready" /\ hb'.at = "dead" THEN "fine" ELSE net.heard)
    BY <1>5 DEF CallDrain, TypeOK, Socket
  <2>2. \/ hb.at = "ready" /\ hb'.at = "dead" /\ hb'.left = hb.left
        \/ hb.at = "ready" /\ hb'.at = "blocked" /\ hb'.left = hb.left
        \/ hb.at # "ready" /\ hb' = hb
    BY <1>5 DEF CallDrain, TypeOK, HbThread
  <2>3. LineKept("app") /\ LineKept("hb")
    BY <2>1 DEF LineKept, OneOf, NoneOf, NoneInAir
  <2>4. Awaited'
    BY <2>1, <2>2, <2>3, AwaitedKept DEF HbAsks
  <2>5. CASE hb.at = "ready" /\ hb'.at = "dead"
    <3>1. Asking = "hb" /\ Asking' = "nobody"
      BY <1>1, <2>1, <2>5 DEF Asking
    <3>2. Noisy' => Noisy
      BY <2>1 DEF Noisy
    <3> QED  BY <2>1, <2>4, <2>5, <3>1, <3>2, HearStep
  <2>6. CASE ~(hb.at = "ready" /\ hb'.at = "dead")
    <3>1. Asking' = Asking
      BY <1>1, <2>1, <2>2, <2>6 DEF Asking
    <3> QED  BY <2>1, <2>4, <2>6, <3>1, NoiseStep
  <2> QED  BY <2>5, <2>6
<1>6. ASSUME CallMotor(op) \/ CallSetting(op) \/ CallStart \/ CallStop \/ CallReboot
      PROVE  app'.at # "wait" /\ UNCHANGED <<hb, net>>
  BY <1>6 DEF CallMotor, CallSetting, CallStart, CallStop, CallReboot, Polls
<1>7. ASSUME CallSave \/ CallClose
      PROVE  app'.at # "wait" /\ UNCHANGED <<hb, net>>
  BY <1>1, <1>7 DEF CallSave, CallClose
<1>8. ASSUME CallConnect
      PROVE  app'.at # "wait" /\ hb' = hb /\ net' = Silence
  BY <1>8 DEF CallConnect, TypeOK, AppThread
<1>9. ASSUME CallDisconnect
      PROVE  app'.at # "wait" /\ hb' = hb /\ (net' = net \/ net' = Silence)
  BY <1>1, <1>9 DEF CallDisconnect, Polls
<1> QED  BY <1>2, <1>3, <1>4, <1>5, <1>6, <1>7, <1>8, <1>9 DEF Call

LEMMA HeartbeatLine ==
  ASSUME IInv, Heartbeat \/ Tick
  PROVE  Awaited' /\ LineStep
<1> USE DEF IInv
<1>1. CASE HbSends
  <2>1. /\ app' = app /\ app.at # "wait" /\ ~HbAsks /\ hb.at = "send"
        /\ hb'.at = "wait" /\ hb'.left = 1
    BY <1>1 DEF HbSends, Control, TurnsApart, HbAsks, TypeOK, HbThread
  <2>2. NoneOf("hb", net)
    BY <2>1 DEF Awaited, HbAwaits
  <2>3. Sends("hb", "heartbeat") /\ "heartbeat" \in Commands \cup {"heartbeat"}
    BY <1>1 DEF HbSends
  <2>4. OneOf("hb", net') /\ LineKept("app") /\ net'.heard = "fine" /\ (Noisy' <=> Noisy)
    BY <2>2, <2>3, SendsLine, SendsAdds
  <2>5. Awaited'
    BY <2>1, <2>4 DEF Awaited, AppAwaits, HbAwaits, LineKept, HbAsks
  <2>6. Asking = "nobody" /\ Asking' = "hb"
    BY <2>1 DEF Asking, HbAsks
  <2> QED  BY <2>4, <2>5, <2>6, AskStep
<1>2. CASE HbLeaves \/ HbSelects
  <2>1. UNCHANGED <<app, net>> /\ hb'.left = hb.left
        /\ \/ hb.at = "send" /\ hb'.at = "none"
           \/ hb.at = "wait" /\ hb'.at = "ready"
    BY <1>2 DEF HbLeaves, HbSelects, TypeOK, HbThread
  <2>2. Awaited'
    BY <2>1, LineUnchanged, AwaitedKept DEF HbAsks
  <2>3. Asking' = Asking
    BY <2>1 DEF Asking
  <2> QED  BY <2>1, <2>2, <2>3, NoiseStep
<1>3. CASE HbReads
  <2>1. /\ hb.at \in {"ready", "blocked"} /\ net.inbox # <<>> /\ UNCHANGED app
        /\ net' = Reads("hb", Head(net.inbox))
        /\ hb'.at \in {"dead", "sleep"}
    BY <1>3 DEF HbReads, TypeOK, HbThread
  <2>2. app.at # "wait" /\ HbAsks
    BY <2>1 DEF Control, TurnsApart, HbAsks
  <2>3. OneOf("hb", net) /\ NoneOf("app", net)
    BY <2>2 DEF Awaited, AppAwaits, HbAwaits
  <2>4. /\ NoneOf("hb", net') /\ NoneOf("app", net')
        /\ net'.heard = IF net.inbox[1].of = "hb" THEN "fine" ELSE "stray"
        /\ net.inbox[1].of = "hb" /\ Noisy' => Noisy
    BY <2>1, <2>3, ReadsLine
  <2>5. net.inbox[1].of \in {"hb", "stray"} /\ (net.inbox[1].of = "stray" => Noisy)
    <3>1. net.inbox[1] \in Datagram /\ 1 \in DOMAIN net.inbox
      BY <2>1, TailOfInbox DEF TypeOK, Socket
    <3> QED  BY <2>3, <3>1, NoisyLine DEF NoneOf, Datagram
  <2>6. Awaited'
    <3>1. OneOf("hb", net') /\ OneOf("app", net')
      BY <2>4 DEF NoneOf, NoneInAir, OneOf
    <3>2. NoneInAir("hb", net') /\ NoneInAir("app", net')
      BY <2>4 DEF NoneOf
    <3> QED  BY <2>4, <3>1, <3>2 DEF Awaited, AppAwaits, HbAwaits
  <2>7. Asking = "hb" /\ Asking' = "nobody"
    BY <2>1, <2>2 DEF Asking
  <2> QED  BY <2>4, <2>5, <2>6, <2>7, HearStep
<1>4. CASE HbTimesOut
  <2>1. /\ hb.at = "wait" /\ hb.left = 0 /\ net.inbox = <<>> /\ UNCHANGED app
        /\ net' = Over("hb", net.inbox, "fine") /\ hb'.at = "sleep"
    BY <1>4 DEF HbTimesOut, TypeOK, HbThread
  <2>2. app.at # "wait"
    BY <2>1 DEF Control, TurnsApart
  <2>3. NoneInAir("hb", net) /\ NoneOf("app", net)
    BY <2>1, <2>2 DEF Awaited, AppAwaits, HbAwaits
  <2>4. net'.air = net.air /\ DOMAIN net'.inbox = {} /\ net'.heard = "fine"
    BY <2>1, <2>3, GivesUpLine
  <2>5. Awaited'
    BY <2>1, <2>2, <2>3, <2>4
       DEF Awaited, AppAwaits, HbAwaits, NoneOf, NoneInAir, OneOf
  <2>6. Asking = "hb" /\ Asking' = "nobody"
    BY <2>1, <2>2 DEF Asking
  <2>7. Noisy' => Noisy
    BY <2>4 DEF Noisy
  <2> QED  BY <2>4, <2>5, <2>6, <2>7, HearStep
<1>5. CASE Tick
  <2>1. net' = net /\ net.air = {}
    BY <1>5 DEF Tick, Due
  <2>2. app'.at = app.at
    BY <1>5 DEF Tick, TypeOK, AppThread
  <2>3. \/ hb'.at = hb.at
        \/ hb.at = "sleep" /\ hb'.at = "send"
    BY <1>5 DEF Tick, TypeOK, HbThread
  <2>4. NoneInAir("app", net') /\ NoneInAir("hb", net')
    BY <2>1 DEF NoneInAir
  <2>5. LineKept("app") /\ LineKept("hb")
    BY <2>1, LineUnchanged
  <2>6. Awaited'
    BY <2>2, <2>3, <2>4, <2>5 DEF Awaited, AppAwaits, HbAwaits, LineKept, HbAsks
  <2>7. Asking' = Asking
    BY <2>2, <2>3 DEF Asking
  <2> QED  BY <2>1, <2>6, <2>7, NoiseStep
<1> QED  BY <1>1, <1>2, <1>3, <1>4, <1>5 DEF Heartbeat

LEMMA CallerLine ==
  ASSUME IInv, Caller
  PROVE  Awaited' /\ LineStep
<1> USE DEF IInv
<1>1. ASSUME NEW op \in Commands, app' = [app EXCEPT !.at = "wait", !.left = 1],
             Sends("app", op), hb' = hb, hb.at \in {"none", "sleep"}, app.at # "wait"
      PROVE  Awaited' /\ LineStep
  <2>1. app'.at = "wait" /\ app'.left = 1 /\ ~HbAsks
    BY <1>1 DEF TypeOK, AppThread, HbAsks
  <2>2. NoneOf("app", net) /\ NoneOf("hb", net)
    BY <1>1, <2>1 DEF Awaited, AppAwaits, HbAwaits
  <2>3. OneOf("app", net') /\ LineKept("hb") /\ net'.heard = "fine" /\ (Noisy' <=> Noisy)
    BY <1>1, <2>2, SendsLine, SendsAdds
  <2>4. Awaited'
    BY <1>1, <2>1, <2>3 DEF Awaited, AppAwaits, HbAwaits, LineKept, HbAsks
  <2>5. Asking = "nobody" /\ Asking' = "app"
    BY <1>1, <2>1 DEF Asking, HbAsks
  <2> QED  BY <2>3, <2>4, <2>5, AskStep
<1>2. CASE SearchEnds
  <2>1. app.at = "search" /\ app.op = "connect" /\ hb' = hb /\ hb.at = "none"
    BY <1>2 DEF SearchEnds, Control, Staged, BeatRuns
  <2>2. CASE app' = Returned /\ UNCHANGED <<net, sensor>>
    <3>1. app'.at = "idle"
      BY <2>2 DEF Returned
    <3>2. Awaited'
      BY <2>1, <2>2, <3>1, LineUnchanged, AwaitedKept DEF HbAsks
    <3>3. Asking' = Asking
      BY <2>1, <3>1 DEF Asking
    <3> QED  BY <2>2, <3>2, <3>3, NoiseStep
  <2>3. CASE app' = [app EXCEPT !.at = "wait", !.left = 1] /\ Sends("app", "connect")
    <3>1. "connect" \in Commands
      BY DEF Commands
    <3> QED  BY <1>1, <2>1, <2>3, <3>1
  <2> QED  BY <1>2, <2>2, <2>3 DEF SearchEnds
<1>3. CASE SendCommand
  <2>1. app.at = "poll" /\ Idle /\ hb' = hb /\ app.op \in Commands
    BY <1>3 DEF SendCommand, TypeOK, AppThread, Control, Staged
  <2>2. hb.at \in {"none", "sleep"}
    BY <2>1 DEF Idle, Control, BeatRuns, TypeOK, HbThread
  <2> QED  BY <1>1, <1>3, <2>1, <2>2 DEF SendCommand
<1>4. ASSUME app.at = "wait", app'.at # "wait", hb'.at = hb.at \/ hb'.at \in {"none", "send"},
             NoneOf("app", net'), NoneOf("hb", net) => NoneOf("hb", net'),
             net'.heard = "fine" \/ (Noisy /\ net'.heard = "stray"), Noisy' => Noisy
      PROVE  Awaited' /\ LineStep
  <2>1. hb.at \in {"none", "sleep"}
    BY <1>4 DEF Control, TurnsApart
  <2>2. NoneOf("hb", net)
    BY <2>1 DEF Awaited, HbAwaits, HbAsks
  <2>3. NoneInAir("app", net') /\ NoneOf("hb", net') /\ NoneInAir("hb", net')
    BY <1>4, <2>2 DEF NoneOf
  <2>4. OneOf("app", net') /\ OneOf("hb", net')
    BY <1>4, <2>3 DEF NoneOf, NoneInAir, OneOf
  <2>5. Awaited'
    BY <1>4, <2>3, <2>4 DEF Awaited, AppAwaits, HbAwaits
  <2>6. Asking = "app" /\ Asking' = "nobody"
    BY <1>4, <2>1 DEF Asking
  <2> QED  BY <1>4, <2>5, <2>6, HearStep
<1>5. \A op : After(op).at # "wait"
  BY DEF After, Returned, TypeOK, AppThread
<1>6. CASE ReadAnswer
  <2>1. /\ app.at = "wait" /\ net.inbox # <<>>
        /\ net' = Reads("app", Head(net.inbox))
        /\ \/ \E ret : Continues(app.op, ret)
           \/ app' = After(app.op) /\ hb' = [hb EXCEPT !.started = @ /\ app'.at # "join"]
    BY <1>6 DEF ReadAnswer
  <2>2. app'.at # "wait" /\ (hb'.at = hb.at \/ hb'.at \in {"none", "send"})
    <3>1. CASE \E ret : Continues(app.op, ret)
      BY <3>1 DEF Continues, Connected, Written, Polls, HbStarts
    <3>2. CASE app' = After(app.op) /\ hb' = [hb EXCEPT !.started = @ /\ app'.at # "join"]
      BY <1>5, <3>2 DEF TypeOK, HbThread
    <3> QED  BY <2>1, <3>1, <3>2
  <2>3. OneOf("app", net) /\ NoneOf("hb", net)
    BY <2>1 DEF Awaited, AppAwaits, HbAwaits, HbAsks, Control, TurnsApart
  <2>4. /\ NoneOf("app", net') /\ NoneOf("hb", net')
        /\ net'.heard = IF net.inbox[1].of = "app" THEN "fine" ELSE "stray"
        /\ net.inbox[1].of = "app" /\ Noisy' => Noisy
    BY <2>1, <2>3, ReadsLine
  <2>5. net.inbox[1].of \in {"app", "stray"} /\ (net.inbox[1].of = "stray" => Noisy)
    <3>1. net.inbox[1] \in Datagram /\ 1 \in DOMAIN net.inbox
      BY <2>1, TailOfInbox DEF TypeOK, Socket
    <3> QED  BY <2>3, <3>1, NoisyLine DEF NoneOf, Datagram
  <2> QED  BY <1>4, <2>1, <2>2, <2>4, <2>5
<1>7. CASE NoAnswer
  <2>1. /\ app.at = "wait" /\ app.left = 0 /\ net.inbox = <<>>
        /\ net' = Over("app", net.inbox, "fine")
        /\ app'.at # "wait" /\ hb'.at = hb.at
    BY <1>5, <1>7 DEF NoAnswer, TypeOK, HbThread
  <2>2. NoneInAir("app", net)
    BY <2>1 DEF Awaited, AppAwaits
  <2>3. net'.air = net.air /\ DOMAIN net'.inbox = {} /\ net'.heard = "fine"
    BY <2>1, <2>2, GivesUpLine
  <2>4. NoneOf("app", net') /\ (NoneOf("hb", net) => NoneOf("hb", net'))
    BY <2>2, <2>3 DEF NoneOf, NoneInAir
  <2>5. Noisy' => Noisy
    BY <2>3 DEF Noisy
  <2> QED  BY <1>4, <2>1, <2>3, <2>4, <2>5
<1>8. CASE SpinUpSeen
  <2>1. app.at = "spin" /\ app'.at = "idle" /\ UNCHANGED <<hb, net>>
    BY <1>8 DEF SpinUpSeen, Returned
  <2>2. Awaited'
    BY <2>1, LineUnchanged, AwaitedKept DEF HbAsks
  <2>3. Asking' = Asking
    BY <2>1 DEF Asking
  <2> QED  BY <2>1, <2>2, <2>3, NoiseStep
<1>9. CASE HbJoined
  <2>1. /\ app.at = "join" /\ app'.at = "idle" /\ hb'.at = "none" /\ net' = Silence
        /\ hb.at = "none"
    BY <1>9 DEF HbJoined, Returned, TypeOK, HbThread, Control, BeatRuns
  <2>2. Awaited'
    BY <2>1, SilentLine, AwaitedKept DEF HbAsks
  <2>3. Asking' = Asking
    BY <2>1 DEF Asking
  <2> QED  BY <2>1, <2>2, <2>3, SilentLine, NoiseStep
<1> QED  BY <1>2, <1>3, <1>6, <1>7, <1>8, <1>9 DEF Caller

LEMMA OtherLine ==
  ASSUME IInv, Arrive \/ Alarm \/ CaptureBegins \/ CaptureCompletes
  PROVE  Awaited' /\ LineStep
<1> USE DEF IInv
<1>1. UNCHANGED <<hb, app>>
  BY DEF Arrive, Alarm, CaptureBegins, CaptureCompletes
<1>2. LineKept("app") /\ LineKept("hb") /\ net'.heard = net.heard
  <2>1. CASE Arrive
    BY <2>1, ArriveLine DEF LineKept
  <2>2. CASE Alarm
    <3>1. /\ net'.inbox = net.inbox /\ net'.heard = net.heard
          /\ net'.air = net.air \cup
               {[of |-> "stray", kind |-> "alarm", ret |-> "error", motor |-> "off"]}
      BY <2>2 DEF Alarm, TypeOK, Socket
    <3>2. \A m \in net'.air : m \in net.air \/ m.of = "stray"
      BY <3>1
    <3>3. net.air \subseteq net'.air
      BY <3>1
    <3> QED  BY <3>1, <3>2, <3>3 DEF LineKept, OneOf, NoneOf, NoneInAir
  <2>3. CASE CaptureBegins \/ CaptureCompletes
    BY <2>3, LineUnchanged DEF CaptureBegins, CaptureCompletes
  <2> QED  BY <2>1, <2>2, <2>3
<1>3. Awaited'
  BY <1>1, <1>2, AwaitedKept DEF HbAsks
<1>4. Asking' = Asking
  BY <1>1 DEF Asking
<1> QED  BY <1>2, <1>3, <1>4, NoiseStep

-----------------------------------------------------------------------------
(* The theorems.                                                            *)

LEMMA DriverInit == Init => IInv /\ Line!Init
<1> SUFFICES ASSUME Init PROVE IInv /\ Line!Init
  OBVIOUS
<1> USE DEF Init
<1>1. net \in Socket
  <2>1. <<>> \in Seq(Datagram)
    OBVIOUS
  <2> QED  BY <2>1 DEF Socket
<1>2. TypeOK
  BY <1>1, DriverAssumption
     DEF TypeOK, NotConnected, Driver, HbThread, Idles, AppThread, Captures, Sensor
<1>3. Control
  BY DEF Control, Staged, BeatRuns, TurnsApart, Quiet, Capturing, Leaving, FilesClosed,
         NotConnected
<1>4. net.air = {} /\ DOMAIN net.inbox = {} /\ net.heard = "fine"
  OBVIOUS
<1>5. Awaited
  BY <1>4 DEF Awaited, AppAwaits, HbAwaits, OneOf, NoneOf, NoneInAir
<1>6. Asking = "nobody" /\ ~Noisy
  BY <1>4 DEF Asking, Noisy
<1>7. Noisy = FALSE
  BY <1>6 DEF Noisy
<1> QED  BY <1>2, <1>3, <1>4, <1>5, <1>6, <1>7 DEF IInv, Line!Init

LEMMA DriverStep == IInv /\ [Next]_vars => IInv' /\ LineStep
<1> SUFFICES ASSUME IInv, [Next]_vars PROVE IInv' /\ LineStep
  OBVIOUS
<1>1. OneOf("hb", net) /\ OneOf("app", net) /\ Staged
  BY DEF IInv, Awaited, AppAwaits, HbAwaits, Control
<1>2. ASSUME NEW op \in Ops, Call(op) PROVE IInv' /\ LineStep
  BY <1>2, CallTypes, CallControl, CallLine DEF IInv
<1>3. CASE Caller
  BY <1>1, <1>3, CallerTypes, CallerControl, CallerLine DEF IInv
<1>4. CASE Heartbeat \/ Tick
  BY <1>1, <1>4, HeartbeatTypes, HeartbeatControl, HeartbeatLine DEF IInv
<1>5. CASE Arrive \/ Alarm \/ CaptureBegins \/ CaptureCompletes
  BY <1>5, OtherTypes, OtherControl, OtherLine DEF IInv
<1>6. CASE UNCHANGED vars
  <2>1. UNCHANGED <<Asking, net.heard, Noisy>>
    BY <1>6 DEF vars, Asking, Noisy
  <2>2. TypeOK' /\ Control'
    BY <1>6 DEF IInv, vars, TypeOK, Control, Staged, BeatRuns, TurnsApart, Quiet, Capturing,
                Leaving, FilesClosed
  <2>3. Awaited'
    BY <1>6 DEF IInv, vars, Awaited, AppAwaits, HbAwaits, HbAsks, OneOf, NoneOf, NoneInAir
  <2> QED  BY <2>1, <2>2, <2>3 DEF IInv, LineStep
<1> QED  BY <1>2, <1>3, <1>4, <1>5, <1>6 DEF Next

(* The inductive invariant holds of every run, for any calls, any length of *)
(* the pause and any number of alarms and unread datagrams.                 *)
THEOREM DriverInvariant == Spec => []IInv
BY DriverInit, DriverStep, PTL DEF Spec

(* Type invariant of the driver, its threads and the command socket.        *)
THEOREM DriverTypeCorrect == Spec => []TypeOK
<1>1. IInv => TypeOK
  BY DEF IInv
<1> QED  BY <1>1, DriverInvariant, PTL

(* Whatever is lost and whichever calls follow each other, no capture       *)
(* thread is replaced, or loses its socket, while it has a file open        *)
(* (openpylivox.py:2331-2337, 2413-2420, 2640, 3310-3318).                  *)
THEOREM FilesStayClosed == Spec => []FilesClosed
<1>1. IInv => FilesClosed
  BY DEF IInv, Control, Capturing
<1> QED  BY <1>1, DriverInvariant, PTL

(* When disconnect or reboot has returned, no thread of the driver is left  *)
(* and nothing claims to stream or to write (openpylivox.py:2329).          *)
THEOREM DisconnectedStaysQuiet == Spec => []DisconnectedIsQuiet
<1>1. IInv => DisconnectedIsQuiet
  BY DEF IInv, TypeOK, HbThread, Control, Staged, BeatRuns, Quiet, DisconnectedIsQuiet
<1> QED  BY <1>1, DriverInvariant, PTL

(* The pause between two heartbeats, however long it is, keeps the two      *)
(* users of the command socket apart: the driver implements a half-duplex   *)
(* line (openpylivox.py:59-94, 1822-1826).                                  *)
THEOREM DriverImplementsHalfDuplex == Spec => ImplementsHalfDuplex
<1>1. Init => Line!Init
  BY DriverInit
<1>2. IInv /\ [Next]_vars => [Line!Next]_(Line!vars)
  BY DriverStep DEF LineStep, Line!vars
<1> QED  BY <1>1, <1>2, DriverInvariant, PTL DEF Spec, ImplementsHalfDuplex, Line!Spec

-----------------------------------------------------------------------------
(* The capture file and its conversion (LivoxCapture).                      *)

-----------------------------------------------------------------------------
(* Sequences of sequences.                                                  *)

(* Every nonempty set of natural numbers has a least element.               *)
LEMMA LeastNatural ==
  ASSUME NEW S \in SUBSET Nat, S # {}
  PROVE  \E n \in S : \A m \in S : n <= m
<1>1. PICK n \in S : \A m \in S : ~(<<m, n>> \in OpToRel(<, Nat))
  BY WFMin, NatLessThanWellFounded
<1>2. ASSUME NEW m \in S, ~(n <= m)
      PROVE  FALSE
  <2>1. m < n /\ <<m, n>> \in Nat \X Nat
    BY <1>2
  <2>2. <<m, n>> \in OpToRel(<, Nat)
    BY <2>1 DEF OpToRel
  <2> QED  BY <1>1, <2>2
<1> QED  BY <1>2

(* So a set is known to hold 0 .. n step by step.                           *)
LEMMA StepByStep ==
  ASSUME NEW n \in Nat, NEW S, 0 \in S, \A k \in 1 .. n : k - 1 \in S => k \in S
  PROVE  \A k \in 0 .. n : k \in S
<1> DEFINE Wrong == {k \in 0 .. n : k \notin S}
<1> SUFFICES ASSUME Wrong # {}
             PROVE  FALSE
  OBVIOUS
<1>1. Wrong \in SUBSET Nat
  OBVIOUS
<1>2. PICK m \in Wrong : \A k \in Wrong : m <= k
  BY <1>1, LeastNatural
<1>3. m \in 1 .. n /\ m - 1 \in 0 .. n /\ ~(m <= m - 1)
  OBVIOUS
<1>4. m - 1 \in S
  BY <1>2, <1>3
<1> QED  BY <1>3, <1>4

(* So is a set to hold every sequence.                                      *)
LEMMA EverySequence ==
  ASSUME NEW Y, NEW P, <<>> \in P, \A s \in Seq(Y) : \A y \in Y : s \in P => Append(s, y) \in P
  PROVE  \A s \in Seq(Y) : s \in P
<1> SUFFICES ASSUME NEW s \in Seq(Y)
             PROVE  s \in P
  OBVIOUS
<1> DEFINE n == Len(s)
           Has == {k \in 0 .. n : SubSeq(s, 1, k) \in P}
<1>1. n \in Nat /\ \A k \in 1 .. n : s[k] \in Y
  BY LenProperties, ElementOfSeq
<1>2. 0 \in Has
  <2>1. SubSeq(s, 1, 0) = <<>>
    BY SubSeqEmpty
  <2>2. 0 \in 0 .. n
    BY <1>1
  <2>3. SubSeq(s, 1, 0) \in P
    BY <2>1
  <2> HIDE DEF n
  <2> QED  BY <2>2, <2>3
<1>3. ASSUME NEW k \in 1 .. n, k - 1 \in Has
      PROVE  k \in Has
  <2> DEFINE t == SubSeq(s, 1, k - 1)
  <2>1. t \in Seq(Y) /\ t \in P
    <3>1. \A i \in 1 .. k - 1 : s[i] \in Y
      BY <1>1
    <3>2. t \in Seq(Y)
      BY <3>1, SubSeqProperties
    <3> QED  BY <1>3, <3>2
  <2>2. SubSeq(s, 1, k) = t \o <<s[k]>>
    <3>1. 1 \in 1 .. Len(s) /\ k \in 1 .. Len(s)
      BY <1>1
    <3> QED  BY <3>1, SubSeqRecursiveSecond
  <2> HIDE DEF t
  <2>3. t \o <<s[k]>> = Append(t, s[k])
    BY <1>1, <2>1, AppendIsConcat
  <2>4. Append(t, s[k]) \in P
    BY <1>1, <2>1
  <2>5. k \in 0 .. n
    BY <1>1
  <2>6. SubSeq(s, 1, k) \in P
    BY <2>2, <2>3, <2>4
  <2> HIDE DEF n
  <2> QED  BY <2>5, <2>6
<1> HIDE DEF Has, n
<1>4. \A k \in 0 .. n : k \in Has
  BY <1>1, <1>2, <1>3, StepByStep
<1>5. SubSeq(s, 1, Len(s)) \in P
  BY <1>1, <1>4 DEF Has, n
<1> QED  BY <1>5, SubSeqFull

(* g[k] is the first k of the sequences in ss, one after the other.         *)
Flats(g, ss, n, Y) ==
  /\ g \in [0 .. n -> Seq(Y)] /\ g[0] = <<>>
  /\ \A k \in 1 .. n : g[k] = g[k - 1] \o ss[k]

LEMMA FlatsExist ==
  ASSUME NEW Y, NEW ss \in Seq(Seq(Y))
  PROVE  \E g : Flats(g, ss, Len(ss), Y)
<1> DEFINE n == Len(ss)
           Has == {k \in 0 .. n : \E g : Flats(g, ss, k, Y)}
<1>1. n \in Nat /\ \A k \in 1 .. n : ss[k] \in Seq(Y)
  BY LenProperties, ElementOfSeq
<1>2. 0 \in Has
  <2>1. Flats([j \in 0 .. 0 |-> <<>>], ss, 0, Y)
    BY EmptySeq DEF Flats
  <2> QED  BY <1>1, <2>1
<1>3. ASSUME NEW k \in 1 .. n, k - 1 \in Has
      PROVE  k \in Has
  <2>1. PICK g : Flats(g, ss, k - 1, Y)
    BY <1>3
  <2> DEFINE e == g[k - 1] \o ss[k]
             h == [j \in 0 .. k |-> IF j = k THEN e ELSE g[j]]
  <2>2. g \in [0 .. k - 1 -> Seq(Y)] /\ g[0] = <<>> /\ k \in Nat /\ k >= 1
    BY <1>1, <2>1 DEF Flats
  <2>3. e \in Seq(Y)
    <3>1. g[k - 1] \in Seq(Y) /\ ss[k] \in Seq(Y)
      BY <1>1, <2>2
    <3> QED  BY <3>1, ConcatProperties
  <2> HIDE DEF e
  <2>4. h \in [0 .. k -> Seq(Y)] /\ h[0] = <<>>
    BY <2>2, <2>3
  <2>5. ASSUME NEW j \in 1 .. k
        PROVE  h[j] = h[j - 1] \o ss[j]
    <3>1. j - 1 \in 0 .. k - 1 /\ h[j - 1] = g[j - 1]
      BY <2>2
    <3>2. CASE j = k
      <4>1. h[j] = e /\ h[j - 1] = g[k - 1] /\ ss[j] = ss[k]
        BY <2>2, <3>1, <3>2
      <4>2. e = g[k - 1] \o ss[k]
        BY DEF e
      <4> HIDE DEF h
      <4> QED  BY <4>1, <4>2
    <3>3. CASE j # k
      <4>1. j \in 1 .. k - 1 /\ h[j] = g[j]
        BY <2>2, <3>3
      <4> QED  BY <2>1, <3>1, <4>1 DEF Flats
    <3> QED  BY <3>2, <3>3
  <2> HIDE DEF h
  <2>6. Flats(h, ss, k, Y)
    BY <2>4, <2>5 DEF Flats
  <2> QED  BY <1>1, <2>6
<1> HIDE DEF Has, n
<1>4. \A k \in 0 .. n : k \in Has
  BY <1>1, <1>2, <1>3, StepByStep
<1> QED  BY <1>1, <1>4 DEF Has, n

LEMMA FlatIsFlats ==
  ASSUME NEW Y, NEW ss \in Seq(Seq(Y))
  PROVE  \E g : Flats(g, ss, Len(ss), Y) /\ FlattenSeq(ss) = g[Len(ss)]
<1> DEFINE n == Len(ss)
           Solves(g) == g = [i \in 1 .. n |-> IF i = 1 THEN ss[i] ELSE g[i - 1] \o ss[i]]
           flatten == CHOOSE g : Solves(g)
<1>1. n \in Nat /\ \A k \in 1 .. n : ss[k] \in Seq(Y)
  BY LenProperties, ElementOfSeq
<1>2. FlattenSeq(ss) = IF n = 0 THEN ss ELSE flatten[n]
  BY DEF FlattenSeq
<1>3. PICK g : Flats(g, ss, n, Y)
  BY FlatsExist
<1>e. n = 0 => ss = <<>>
  BY EmptySeq
<1> HIDE DEF n
<1>4. g[0] = <<>> /\ \A k \in 1 .. n : g[k] = g[k - 1] \o ss[k]
  BY <1>3 DEF Flats
<1>f. ASSUME NEW k \in 1 .. n, k = 1
      PROVE  g[k] = ss[k]
  <2>1. g[1] = g[0] \o ss[1] /\ g[0] = <<>> /\ ss[1] \in Seq(Y)
    <3>1. 1 \in 1 .. n /\ 1 - 1 = 0
      BY <1>1, <1>f
    <3> QED  BY <1>1, <1>4, <3>1
  <2>2. <<>> \o ss[1] = ss[1]
    BY <2>1, ConcatEmptySeq
  <2> QED  BY <1>f, <2>1, <2>2
<1>5. Solves([i \in 1 .. n |-> g[i]])
  <2> DEFINE h == [i \in 1 .. n |-> g[i]]
  <2>1. \A i \in 1 .. n : h[i] = IF i = 1 THEN ss[i] ELSE h[i - 1] \o ss[i]
    <3> SUFFICES ASSUME NEW i \in 1 .. n
                 PROVE  h[i] = IF i = 1 THEN ss[i] ELSE h[i - 1] \o ss[i]
      OBVIOUS
    <3>1. CASE i = 1
      BY <1>f, <3>1
    <3>2. CASE i # 1
      <4>1. i - 1 \in 1 .. n /\ h[i - 1] = g[i - 1]
        BY <1>1, <3>2
      <4> QED  BY <1>4, <3>2, <4>1
    <3> QED  BY <3>1, <3>2
  <2> QED  BY <2>1
<1>6. Solves(flatten)
  BY <1>5
<1> HIDE DEF flatten
<1>7. \A i \in 1 .. n : flatten[i] = IF i = 1 THEN ss[i] ELSE flatten[i - 1] \o ss[i]
  BY <1>6
<1>8. \A k \in 1 .. n : flatten[k] = g[k]
  <2> DEFINE Same == {k \in 0 .. n : k = 0 \/ flatten[k] = g[k]}
  <2>1. 0 \in Same
    BY <1>1
  <2>2. ASSUME NEW k \in 1 .. n, k - 1 \in Same
        PROVE  k \in Same
    <3>1. CASE k = 1
      BY <1>1, <1>7, <1>f, <3>1
    <3>2. CASE k # 1
      <4>1. k \in 0 .. n /\ k - 1 # 0 /\ flatten[k - 1] = g[k - 1]
        BY <1>1, <2>2, <3>2
      <4>2. flatten[k] = flatten[k - 1] \o ss[k] /\ g[k] = g[k - 1] \o ss[k]
        BY <1>4, <1>7, <3>2
      <4>3. flatten[k] = g[k]
        BY <4>1, <4>2
      <4> QED  BY <4>1, <4>3
    <3> QED  BY <3>1, <3>2
  <2> HIDE DEF Same
  <2>3. \A k \in 0 .. n : k \in Same
    BY <1>1, <2>1, <2>2, StepByStep
  <2>4. \A k \in 1 .. n : k \in 0 .. n /\ k # 0
    BY <1>1
  <2> QED  BY <2>3, <2>4 DEF Same
<1>9. FlattenSeq(ss) = g[n]
  <2>1. CASE n = 0
    BY <1>2, <1>4, <1>e, <2>1
  <2>2. CASE n # 0
    BY <1>1, <1>2, <1>8, <2>2
  <2> QED  BY <2>1, <2>2
<1> QED  BY <1>3, <1>9 DEF n

LEMMA FlatAppend ==
  ASSUME NEW Y, NEW ss \in Seq(Seq(Y)), NEW s \in Seq(Y)
  PROVE  /\ FlattenSeq(ss) \in Seq(Y)
         /\ FlattenSeq(Append(ss, s)) = FlattenSeq(ss) \o s
<1> DEFINE n == Len(ss)
           tt == Append(ss, s)
<1>1. /\ tt \in Seq(Seq(Y)) /\ Len(tt) = n + 1 /\ n \in Nat
      /\ (\A k \in 1 .. n : tt[k] = ss[k]) /\ tt[n + 1] = s
  BY AppendProperties, LenProperties
<1>2. PICK g : Flats(g, ss, n, Y) /\ FlattenSeq(ss) = g[n]
  BY FlatIsFlats
<1>3. PICK h : Flats(h, tt, n + 1, Y) /\ FlattenSeq(tt) = h[n + 1]
  BY <1>1, FlatIsFlats
<1> HIDE DEF n, tt
<1>4. \A k \in 0 .. n : g[k] = h[k]
  <2> DEFINE Same == {k \in 0 .. n : g[k] = h[k]}
  <2>1. 0 \in Same
    BY <1>1, <1>2, <1>3 DEF Flats
  <2>2. ASSUME NEW k \in 1 .. n, k - 1 \in Same
        PROVE  k \in Same
    <3>1. k \in 1 .. n + 1 /\ tt[k] = ss[k]
      BY <1>1
    <3>2. g[k] = g[k - 1] \o ss[k] /\ h[k] = h[k - 1] \o tt[k]
      BY <1>2, <1>3, <3>1 DEF Flats
    <3>3. g[k] = h[k]
      BY <2>2, <3>1, <3>2
    <3> QED  BY <1>1, <3>3
  <2> HIDE DEF Same
  <2>3. \A k \in 0 .. n : k \in Same
    BY <1>1, <2>1, <2>2, StepByStep
  <2> QED  BY <2>3 DEF Same
<1>5. n \in 0 .. n /\ n + 1 \in 1 .. n + 1
  BY <1>1
<1>6. h[n + 1] = h[n] \o tt[n + 1]
  <2>1. \A k \in 1 .. n + 1 : h[k] = h[k - 1] \o tt[k]
    BY <1>3 DEF Flats
  <2>2. PICK m \in 1 .. n + 1 : m = n + 1
    BY <1>5
  <2>3. h[m] = h[m - 1] \o tt[m]
    BY <2>1
  <2>4. h[m] = h[n + 1] /\ tt[m] = tt[n + 1] /\ m - 1 = n
    BY <1>1, <2>2
  <2> QED  BY <2>3, <2>4
<1>7. h[n] = g[n]
  BY <1>4, <1>5
<1>8. g[n] \in Seq(Y)
  BY <1>2, <1>5 DEF Flats
<1> QED  BY <1>1, <1>2, <1>3, <1>6, <1>7, <1>8 DEF tt

LEMMA FlatNil == FlattenSeq(<<>>) = <<>>
<1>1. Len(<<>>) = 0
  BY EmptySeq
<1> QED  BY <1>1 DEF FlattenSeq

(* The sequences that function g makes of the members of s, one after the   *)
(* other.                                                                   *)
FlatMap(g, s) == FlattenSeq([i \in 1 .. Len(s) |-> g[s[i]]])

LEMMA FlatMapNil == ASSUME NEW g PROVE FlatMap(g, <<>>) = <<>>
<1>1. Len(<<>>) = 0
  BY EmptySeq
<1>2. [i \in 1 .. Len(<<>>) |-> g[<<>>[i]]] = <<>>
  BY <1>1
<1> QED  BY <1>2, FlatNil DEF FlatMap

Maker(g, X, Y) == g \in [X -> Seq(Y)]

LEMMA FlatMapAppend ==
  ASSUME NEW X, NEW Y, NEW g, Maker(g, X, Y), NEW s \in Seq(X)
  PROVE  /\ FlatMap(g, s) \in Seq(Y)
         /\ \A x \in X : FlatMap(g, Append(s, x)) = FlatMap(g, s) \o g[x]
<1> DEFINE M(t) == [i \in 1 .. Len(t) |-> g[t[i]]]
<1>1. ASSUME NEW t \in Seq(X)
      PROVE  M(t) \in Seq(Seq(Y)) /\ Len(M(t)) = Len(t) /\ Len(t) \in Nat
  <2>1. Len(t) \in Nat /\ \A i \in 1 .. Len(t) : t[i] \in X
    BY LenProperties, ElementOfSeq
  <2>2. M(t) \in [1 .. Len(t) -> Seq(Y)]
    BY <2>1 DEF Maker
  <2>3. M(t) \in Seq(Seq(Y))
    BY <2>1, <2>2, SeqDef
  <2> QED  BY <2>1, <2>3, LenProperties
<1>2. FlatMap(g, s) \in Seq(Y)
  <2>1. <<>> \in Seq(Y)
    BY EmptySeq
  <2>2. FlattenSeq(M(s)) \in Seq(Y)
    <3>1. M(s) \in Seq(Seq(Y))
      BY <1>1
    <3> HIDE DEF M
    <3> QED  BY <2>1, <3>1, FlatAppend
  <2> QED  BY <2>2 DEF FlatMap
<1>3. ASSUME NEW x \in X
      PROVE  FlatMap(g, Append(s, x)) = FlatMap(g, s) \o g[x]
  <2> DEFINE t == Append(s, x)
             n == Len(s)
  <2>1. /\ t \in Seq(X) /\ Len(t) = n + 1 /\ n \in Nat
        /\ (\A i \in 1 .. n : t[i] = s[i]) /\ t[n + 1] = x
    BY AppendProperties, LenProperties
  <2>2. /\ M(s) \in Seq(Seq(Y)) /\ Len(M(s)) = n
        /\ M(t) \in Seq(Seq(Y)) /\ Len(M(t)) = n + 1
    <3> HIDE DEF M
    <3> QED  BY <1>1, <2>1
  <2>3. g[x] \in Seq(Y)
    BY DEF Maker
  <2>4. M(t) = Append(M(s), g[x])
    <3>1. /\ Append(M(s), g[x]) \in Seq(Seq(Y)) /\ Len(Append(M(s), g[x])) = n + 1
          /\ \A i \in 1 .. n : Append(M(s), g[x])[i] = M(s)[i]
          /\ Append(M(s), g[x])[n + 1] = g[x]
      <4> HIDE DEF M, t, n
      <4> QED  BY <2>2, <2>3, AppendProperties
    <3>2. /\ \A i \in 1 .. n + 1 : M(t)[i] = g[t[i]]
          /\ \A i \in 1 .. n : M(s)[i] = g[s[i]]
      BY <2>1
    <3> HIDE DEF M, t, n
    <3>3. ASSUME NEW i \in 1 .. n + 1
          PROVE  M(t)[i] = Append(M(s), g[x])[i]
      <4>1. CASE i = n + 1
        BY <2>1, <3>1, <3>2, <4>1
      <4>2. CASE i # n + 1
        <5>1. i \in 1 .. n
          BY <2>1, <4>2
        <5>2. M(t)[i] = g[t[i]] /\ t[i] = s[i] /\ M(s)[i] = g[s[i]]
          BY <2>1, <3>2, <5>1
        <5>3. Append(M(s), g[x])[i] = M(s)[i]
          BY <3>1, <5>1
        <5> QED  BY <5>2, <5>3
      <4> QED  BY <4>1, <4>2
    <3>4. Len(M(t)) = Len(Append(M(s), g[x])) /\ \A i \in 1 .. Len(M(t)) : M(t)[i] = Append(M(s), g[x])[i]
      BY <2>2, <3>1, <3>3
    <3> QED  BY <2>2, <3>1, <3>4, SeqEqual
  <2>5. FlattenSeq(Append(M(s), g[x])) = FlattenSeq(M(s)) \o g[x]
    <3> HIDE DEF M, t, n
    <3> QED  BY <2>2, <2>3, FlatAppend
  <2>6. FlatMap(g, t) = FlattenSeq(M(t)) /\ FlatMap(g, s) = FlattenSeq(M(s))
    BY DEF FlatMap
  <2> HIDE DEF M
  <2> QED  BY <2>4, <2>5, <2>6
<1> QED  BY <1>2, <1>3

LEMMA FlatMapConcat ==
  ASSUME NEW X, NEW Y, NEW g, Maker(g, X, Y), NEW s \in Seq(X), NEW t \in Seq(X)
  PROVE  FlatMap(g, s \o t) = FlatMap(g, s) \o FlatMap(g, t)
<1> DEFINE P == {u \in Seq(X) : FlatMap(g, s \o u) = FlatMap(g, s) \o FlatMap(g, u)}
<1>0. \A v \in Seq(X) : FlatMap(g, v) \in Seq(Y)
  BY FlatMapAppend
<1>a. \A a, b, c \in Seq(Y) : (a \o b) \o c = a \o (b \o c)
  BY ConcatAssociative
<1>1. <<>> \in P
  <2>1. s \o <<>> = s /\ <<>> \in Seq(X)
    BY ConcatEmptySeq, EmptySeq
  <2>2. FlatMap(g, s) \o <<>> = FlatMap(g, s)
    BY <1>0, ConcatEmptySeq
  <2> QED  BY <2>1, <2>2, FlatMapNil
<1>2. ASSUME NEW u \in Seq(X), NEW x \in X, u \in P
      PROVE  Append(u, x) \in P
  <2>1. Append(u, x) \in Seq(X) /\ s \o u \in Seq(X)
    BY AppendProperties, ConcatProperties
  <2>2. s \o Append(u, x) = Append(s \o u, x)
    <3>1. Append(u, x) = u \o <<x>> /\ Append(s \o u, x) = (s \o u) \o <<x>> /\ <<x>> \in Seq(X)
      BY <2>1, AppendIsConcat
    <3> QED  BY <3>1, ConcatAssociative
  <2>3. FlatMap(g, Append(s \o u, x)) = FlatMap(g, s \o u) \o g[x]
    <3> DEFINE v == s \o u
    <3>1. v \in Seq(X)
      BY <2>1
    <3> HIDE DEF v
    <3>2. FlatMap(g, Append(v, x)) = FlatMap(g, v) \o g[x]
      BY <3>1, FlatMapAppend
    <3> QED  BY <3>2 DEF v
  <2>4. FlatMap(g, Append(u, x)) = FlatMap(g, u) \o g[x]
    BY FlatMapAppend
  <2>5. (FlatMap(g, s) \o FlatMap(g, u)) \o g[x] = FlatMap(g, s) \o (FlatMap(g, u) \o g[x])
    <3>1. g[x] \in Seq(Y)
      BY DEF Maker
    <3> DEFINE a == FlatMap(g, s)
               b == FlatMap(g, u)
               c == g[x]
    <3>2. a \in Seq(Y) /\ b \in Seq(Y) /\ c \in Seq(Y)
      BY <1>0, <3>1
    <3> HIDE DEF a, b, c, P
    <3>3. (a \o b) \o c = a \o (b \o c)
      BY <1>a, <3>2
    <3> QED  BY <3>3 DEF a, b, c
  <2>6. FlatMap(g, s \o u) = FlatMap(g, s) \o FlatMap(g, u)
    BY <1>2
  <2>7. FlatMap(g, s \o Append(u, x)) = FlatMap(g, s) \o FlatMap(g, Append(u, x))
    BY <2>2, <2>3, <2>4, <2>5, <2>6
  <2> QED  BY <2>1, <2>7
<1> HIDE DEF P
<1>3. t \in P
  BY <1>1, <1>2, EverySequence
<1> QED  BY <1>3 DEF P

(* What g makes of the sequences in ss.                                     *)
Mapped(g, X) == [s \in Seq(X) |-> FlatMap(g, s)]

LEMMA FlatMapFlat ==
  ASSUME NEW X, NEW Y, NEW g, Maker(g, X, Y), NEW ss \in Seq(Seq(X))
  PROVE  FlatMap(g, FlattenSeq(ss)) = FlatMap(Mapped(g, X), ss)
<1> DEFINE h == Mapped(g, X)
           P == {tt \in Seq(Seq(X)) : FlatMap(g, FlattenSeq(tt)) = FlatMap(h, tt)}
<1>0. Maker(h, Seq(X), Y)
  <2>1. \A s \in Seq(X) : FlatMap(g, s) \in Seq(Y)
    BY FlatMapAppend
  <2> QED  BY <2>1 DEF Mapped, Maker
<1>1. <<>> \in P
  BY EmptySeq, FlatNil, FlatMapNil
<1>2. ASSUME NEW tt \in Seq(Seq(X)), NEW s \in Seq(X), tt \in P
      PROVE  Append(tt, s) \in P
  <2>1. Append(tt, s) \in Seq(Seq(X))
    BY AppendProperties
  <2>2. FlattenSeq(Append(tt, s)) = FlattenSeq(tt) \o s /\ FlattenSeq(tt) \in Seq(X)
    BY FlatAppend
  <2>3. FlatMap(g, FlattenSeq(tt) \o s) = FlatMap(g, FlattenSeq(tt)) \o FlatMap(g, s)
    BY <2>2, FlatMapConcat
  <2>4. h[s] = FlatMap(g, s)
    BY DEF Mapped
  <2> HIDE DEF h
  <2>5. FlatMap(h, Append(tt, s)) = FlatMap(h, tt) \o h[s]
    BY <1>0, FlatMapAppend
  <2>6. FlatMap(g, FlattenSeq(tt)) = FlatMap(h, tt)
    BY <1>2
  <2>7. FlatMap(g, FlattenSeq(Append(tt, s))) = FlatMap(h, Append(tt, s))
    BY <2>2, <2>3, <2>4, <2>5, <2>6
  <2> QED  BY <2>1, <2>7
<1> HIDE DEF P
<1>3. ss \in P
  BY <1>1, <1>2, EverySequence
<1> QED  BY <1>3 DEF P

-----------------------------------------------------------------------------
(* Sums of sequences, and the size of a record.                             *)

(* g[k] is the sum of the first k numbers.                                  *)
Sums(g, numbers, n) ==
  /\ g \in [0 .. n -> Nat] /\ g[0] = 0
  /\ \A k \in 1 .. n : g[k] = g[k - 1] + numbers[k]

LEMMA SumsExist ==
  ASSUME NEW numbers \in Seq(Nat)
  PROVE  \E g : Sums(g, numbers, Len(numbers))
<1> DEFINE n == Len(numbers)
           Has == {k \in 0 .. n : \E g : Sums(g, numbers, k)}
<1>1. n \in Nat /\ \A k \in 1 .. n : numbers[k] \in Nat
  BY LenProperties, ElementOfSeq
<1>2. 0 \in Has
  <2>1. Sums([j \in 0 .. 0 |-> 0], numbers, 0)
    BY DEF Sums
  <2> QED  BY <1>1, <2>1
<1>3. ASSUME NEW k \in 1 .. n, k - 1 \in Has
      PROVE  k \in Has
  <2>1. PICK g : Sums(g, numbers, k - 1)
    BY <1>3
  <2> DEFINE e == g[k - 1] + numbers[k]
             h == [j \in 0 .. k |-> IF j = k THEN e ELSE g[j]]
  <2>2. g \in [0 .. k - 1 -> Nat] /\ g[0] = 0 /\ k \in Nat /\ k >= 1
    BY <1>1, <2>1 DEF Sums
  <2>3. e \in Nat
    <3>1. g[k - 1] \in Nat /\ numbers[k] \in Nat
      BY <1>1, <2>2
    <3> QED  BY <3>1
  <2> HIDE DEF e
  <2>4. h \in [0 .. k -> Nat] /\ h[0] = 0
    BY <2>2, <2>3
  <2>5. ASSUME NEW j \in 1 .. k
        PROVE  h[j] = h[j - 1] + numbers[j]
    <3>1. j - 1 \in 0 .. k - 1 /\ h[j - 1] = g[j - 1]
      BY <2>2
    <3>2. CASE j = k
      <4>1. h[j] = e /\ h[j - 1] = g[k - 1] /\ numbers[j] = numbers[k]
        BY <2>2, <3>1, <3>2
      <4>2. e = g[k - 1] + numbers[k]
        BY DEF e
      <4> HIDE DEF h
      <4> QED  BY <4>1, <4>2
    <3>3. CASE j # k
      <4>1. j \in 1 .. k - 1 /\ h[j] = g[j]
        BY <2>2, <3>3
      <4> QED  BY <2>1, <3>1, <4>1 DEF Sums
    <3> QED  BY <3>2, <3>3
  <2> HIDE DEF h
  <2>6. Sums(h, numbers, k)
    BY <2>4, <2>5 DEF Sums
  <2> QED  BY <1>1, <2>6
<1> HIDE DEF Has, n
<1>4. \A k \in 0 .. n : k \in Has
  BY <1>1, <1>2, <1>3, StepByStep
<1> QED  BY <1>1, <1>4 DEF Has, n

LEMMA TotalIsSum ==
  ASSUME NEW numbers \in Seq(Nat)
  PROVE  \E g : Sums(g, numbers, Len(numbers)) /\ Total(numbers) = g[Len(numbers)]
<1> DEFINE n == Len(numbers)
           Solves(g) == g = [k \in 0 .. n |-> IF k = 0 THEN 0 ELSE g[k - 1] + numbers[k]]
           sum == CHOOSE g : Solves(g)
<1>1. n \in Nat /\ \A k \in 1 .. n : numbers[k] \in Nat
  BY LenProperties, ElementOfSeq
<1>2. Total(numbers) = sum[n]
  BY DEF Total
<1>3. PICK g : Sums(g, numbers, n)
  BY SumsExist
<1> HIDE DEF n
<1>4. g \in [0 .. n -> Nat] /\ g[0] = 0 /\ \A k \in 1 .. n : g[k] = g[k - 1] + numbers[k]
  BY <1>3 DEF Sums
<1>5. Solves(g)
  <2>1. \A k \in 0 .. n : g[k] = IF k = 0 THEN 0 ELSE g[k - 1] + numbers[k]
    <3> SUFFICES ASSUME NEW k \in 0 .. n
                 PROVE  g[k] = IF k = 0 THEN 0 ELSE g[k - 1] + numbers[k]
      OBVIOUS
    <3>1. CASE k = 0
      BY <1>4, <3>1
    <3>2. CASE k # 0
      <4>1. k \in 1 .. n
        BY <1>1, <3>2
      <4>2. g[k] = g[k - 1] + numbers[k]
        BY <1>4, <4>1
      <4> QED  BY <3>2, <4>2
    <3> QED  BY <3>1, <3>2
  <2>2. g = [k \in 0 .. n |-> g[k]]
    BY <1>4
  <2> QED  BY <2>1, <2>2
<1>6. Solves(sum)
  BY <1>5
<1> HIDE DEF sum
<1>7. \A k \in 0 .. n : sum[k] = IF k = 0 THEN 0 ELSE sum[k - 1] + numbers[k]
  BY <1>6
<1>8. \A k \in 0 .. n : sum[k] = g[k]
  <2> DEFINE Same == {k \in 0 .. n : sum[k] = g[k]}
  <2>1. 0 \in Same
    <3>1. 0 \in 0 .. n
      BY <1>1
    <3> QED  BY <1>4, <1>7, <3>1
  <2>2. ASSUME NEW k \in 1 .. n, k - 1 \in Same
        PROVE  k \in Same
    <3>1. k \in 0 .. n /\ k # 0 /\ sum[k - 1] = g[k - 1]
      BY <1>1, <2>2
    <3>2. sum[k] = sum[k - 1] + numbers[k] /\ g[k] = g[k - 1] + numbers[k]
      BY <1>4, <1>7, <3>1
    <3>3. sum[k] = g[k]
      BY <3>1, <3>2
    <3> QED  BY <3>1, <3>3
  <2> HIDE DEF Same
  <2>3. \A k \in 0 .. n : k \in Same
    BY <1>1, <2>1, <2>2, StepByStep
  <2> QED  BY <2>3 DEF Same
<1>9. Total(numbers) = g[n]
  <2>1. n \in 0 .. n
    BY <1>1
  <2> QED  BY <1>2, <1>8, <2>1
<1> QED  BY <1>3, <1>9 DEF n

LEMMA TotalNatural ==
  ASSUME NEW numbers \in Seq(Nat)
  PROVE  Total(numbers) \in Nat
<1>1. PICK g : Sums(g, numbers, Len(numbers)) /\ Total(numbers) = g[Len(numbers)]
  BY TotalIsSum
<1>2. Len(numbers) \in 0 .. Len(numbers)
  BY LenProperties
<1> QED  BY <1>1, <1>2 DEF Sums

(* The sum of numbers that are all the same.                                *)
LEMMA TotalOfEqual ==
  ASSUME NEW numbers \in Seq(Nat), NEW z \in Nat, \A i \in 1 .. Len(numbers) : numbers[i] = z
  PROVE  Total(numbers) = Len(numbers) * z
<1> DEFINE n == Len(numbers)
<1>1. PICK g : Sums(g, numbers, n) /\ Total(numbers) = g[n]
  BY TotalIsSum
<1>2. n \in Nat /\ \A i \in 1 .. n : numbers[i] = z
  BY LenProperties
<1> HIDE DEF n
<1>3. g[0] = 0 /\ \A k \in 1 .. n : g[k] = g[k - 1] + z
  BY <1>1, <1>2 DEF Sums
<1> DEFINE Fit == {k \in 0 .. n : g[k] = k * z}
<1>4. 0 \in Fit
  BY <1>2, <1>3
<1>5. ASSUME NEW k \in 1 .. n, k - 1 \in Fit
      PROVE  k \in Fit
  <2>1. k \in 0 .. n /\ k \in Int /\ g[k - 1] = (k - 1) * z
    BY <1>2, <1>5
  <2>2. g[k] = g[k - 1] + z
    BY <1>3
  <2>3. (k - 1) * z + z = k * z
    BY <2>1
  <2>4. g[k] = k * z
    BY <2>1, <2>2, <2>3
  <2> QED  BY <2>1, <2>4
<1> HIDE DEF Fit
<1>6. \A k \in 0 .. n : k \in Fit
  BY <1>2, <1>4, <1>5, StepByStep
<1>7. n \in 0 .. n
  BY <1>2
<1>8. g[n] = n * z
  BY <1>6, <1>7 DEF Fit
<1> QED  BY <1>1, <1>8 DEF n

LEMMA TotalAppend ==
  ASSUME NEW numbers \in Seq(Nat), NEW z \in Nat
  PROVE  Total(Append(numbers, z)) = Total(numbers) + z
<1> DEFINE n == Len(numbers)
           more == Append(numbers, z)
<1>1. /\ more \in Seq(Nat) /\ Len(more) = n + 1 /\ n \in Nat
      /\ (\A k \in 1 .. n : more[k] = numbers[k]) /\ more[n + 1] = z
  BY AppendProperties, LenProperties
<1>2. PICK g : Sums(g, numbers, n) /\ Total(numbers) = g[n]
  BY TotalIsSum
<1>3. PICK h : Sums(h, more, n + 1) /\ Total(more) = h[n + 1]
  BY <1>1, TotalIsSum
<1> HIDE DEF n, more
<1>4. \A k \in 0 .. n : g[k] = h[k]
  <2> DEFINE Same == {k \in 0 .. n : g[k] = h[k]}
  <2>1. 0 \in Same
    BY <1>1, <1>2, <1>3 DEF Sums
  <2>2. ASSUME NEW k \in 1 .. n, k - 1 \in Same
        PROVE  k \in Same
    <3>1. k \in 1 .. n + 1 /\ more[k] = numbers[k]
      BY <1>1
    <3>2. g[k] = g[k - 1] + numbers[k] /\ h[k] = h[k - 1] + more[k]
      BY <1>2, <1>3, <3>1 DEF Sums
    <3>3. g[k] = h[k]
      BY <2>2, <3>1, <3>2
    <3> QED  BY <1>1, <3>3
  <2> HIDE DEF Same
  <2>3. \A k \in 0 .. n : k \in Same
    BY <1>1, <2>1, <2>2, StepByStep
  <2> QED  BY <2>3 DEF Same
<1>5. n \in 0 .. n /\ n + 1 \in 1 .. n + 1
  BY <1>1
<1>6. h[n + 1] = h[n] + more[n + 1]
  <2>1. \A k \in 1 .. n + 1 : h[k] = h[k - 1] + more[k]
    BY <1>3 DEF Sums
  <2>2. PICK m \in 1 .. n + 1 : m = n + 1
    BY <1>5
  <2>3. h[m] = h[m - 1] + more[m]
    BY <2>1
  <2>4. h[m] = h[n + 1] /\ more[m] = more[n + 1] /\ m - 1 = n
    BY <1>1, <2>2
  <2> QED  BY <2>3, <2>4
<1>7. h[n] = g[n]
  BY <1>4, <1>5
<1> QED  BY <1>1, <1>2, <1>3, <1>6, <1>7 DEF more

(* The sums of the lists of fields, field by field.                         *)
LEMMA CartesianIs21 ==
  /\ <<4, 4, 4, 1, 8>> \in Seq(Nat) /\ Len(<<4, 4, 4, 1, 8>>) = 5
  /\ <<4, 4, 4, 1, 8>>[1] = 4 /\ Total(<<4, 4, 4, 1, 8>>) = 21
<1> DEFINE list == <<4, 4, 4, 1, 8>>
<1>1. list \in Seq(Nat) /\ Len(list) = 5
  OBVIOUS
<1>2. /\ list[1] = 4 /\ list[2] = 4 /\ list[3] = 4 /\ list[4] = 1
      /\ list[5] = 8
  OBVIOUS
<1> HIDE DEF list
<1>3. PICK g : Sums(g, list, 5) /\ Total(list) = g[5]
  BY <1>1, TotalIsSum
<1>4. g[0] = 0 /\ \A k \in 1 .. 5 : g[k] = g[k - 1] + list[k]
  BY <1>3 DEF Sums
<1>5. /\ g[1] = g[0] + list[1] /\ g[2] = g[1] + list[2] /\ g[3] = g[2] + list[3]
      /\ g[4] = g[3] + list[4] /\ g[5] = g[4] + list[5]
  BY <1>4
<1>6. g[5] = 21
  BY <1>2, <1>4, <1>5
<1> QED  BY <1>1, <1>2, <1>3, <1>6 DEF list

LEMMA SphericalIs17 ==
  /\ <<4, 2, 2, 1, 8>> \in Seq(Nat) /\ Len(<<4, 2, 2, 1, 8>>) = 5
  /\ <<4, 2, 2, 1, 8>>[1] = 4 /\ Total(<<4, 2, 2, 1, 8>>) = 17
<1> DEFINE list == <<4, 2, 2, 1, 8>>
<1>1. list \in Seq(Nat) /\ Len(list) = 5
  OBVIOUS
<1>2. /\ list[1] = 4 /\ list[2] = 2 /\ list[3] = 2 /\ list[4] = 1
      /\ list[5] = 8
  OBVIOUS
<1> HIDE DEF list
<1>3. PICK g : Sums(g, list, 5) /\ Total(list) = g[5]
  BY <1>1, TotalIsSum
<1>4. g[0] = 0 /\ \A k \in 1 .. 5 : g[k] = g[k - 1] + list[k]
  BY <1>3 DEF Sums
<1>5. /\ g[1] = g[0] + list[1] /\ g[2] = g[1] + list[2] /\ g[3] = g[2] + list[3]
      /\ g[4] = g[3] + list[4] /\ g[5] = g[4] + list[5]
  BY <1>4
<1>6. g[5] = 17
  BY <1>2, <1>4, <1>5
<1> QED  BY <1>1, <1>2, <1>3, <1>6 DEF list

LEMMA ExtendedIs22 ==
  /\ <<4, 4, 4, 1, 1, 8>> \in Seq(Nat) /\ Len(<<4, 4, 4, 1, 1, 8>>) = 6
  /\ <<4, 4, 4, 1, 1, 8>>[1] = 4 /\ Total(<<4, 4, 4, 1, 1, 8>>) = 22
<1> DEFINE list == <<4, 4, 4, 1, 1, 8>>
<1>1. list \in Seq(Nat) /\ Len(list) = 6
  OBVIOUS
<1>2. /\ list[1] = 4 /\ list[2] = 4 /\ list[3] = 4 /\ list[4] = 1
      /\ list[5] = 1 /\ list[6] = 8
  OBVIOUS
<1> HIDE DEF list
<1>3. PICK g : Sums(g, list, 6) /\ Total(list) = g[6]
  BY <1>1, TotalIsSum
<1>4. g[0] = 0 /\ \A k \in 1 .. 6 : g[k] = g[k - 1] + list[k]
  BY <1>3 DEF Sums
<1>5. /\ g[1] = g[0] + list[1] /\ g[2] = g[1] + list[2] /\ g[3] = g[2] + list[3]
      /\ g[4] = g[3] + list[4] /\ g[5] = g[4] + list[5] /\ g[6] = g[5] + list[6]
  BY <1>4
<1>6. g[6] = 22
  BY <1>2, <1>4, <1>5
<1> QED  BY <1>1, <1>2, <1>3, <1>6 DEF list

LEMMA ExtendedSphericalIs18 ==
  /\ <<4, 2, 2, 1, 1, 8>> \in Seq(Nat) /\ Len(<<4, 2, 2, 1, 1, 8>>) = 6
  /\ <<4, 2, 2, 1, 1, 8>>[1] = 4 /\ Total(<<4, 2, 2, 1, 1, 8>>) = 18
<1> DEFINE list == <<4, 2, 2, 1, 1, 8>>
<1>1. list \in Seq(Nat) /\ Len(list) = 6
  OBVIOUS
<1>2. /\ list[1] = 4 /\ list[2] = 2 /\ list[3] = 2 /\ list[4] = 1
      /\ list[5] = 1 /\ list[6] = 8
  OBVIOUS
<1> HIDE DEF list
<1>3. PICK g : Sums(g, list, 6) /\ Total(list) = g[6]
  BY <1>1, TotalIsSum
<1>4. g[0] = 0 /\ \A k \in 1 .. 6 : g[k] = g[k - 1] + list[k]
  BY <1>3 DEF Sums
<1>5. /\ g[1] = g[0] + list[1] /\ g[2] = g[1] + list[2] /\ g[3] = g[2] + list[3]
      /\ g[4] = g[3] + list[4] /\ g[5] = g[4] + list[5] /\ g[6] = g[5] + list[6]
  BY <1>4
<1>6. g[6] = 18
  BY <1>2, <1>4, <1>5
<1> QED  BY <1>1, <1>2, <1>3, <1>6 DEF list

LEMMA DualIs36 ==
  /\ <<4, 4, 4, 1, 1, 4, 4, 4, 1, 1, 8>> \in Seq(Nat) /\ Len(<<4, 4, 4, 1, 1, 4, 4, 4, 1, 1, 8>>) = 11
  /\ <<4, 4, 4, 1, 1, 4, 4, 4, 1, 1, 8>>[1] = 4 /\ Total(<<4, 4, 4, 1, 1, 4, 4, 4, 1, 1, 8>>) = 36
<1> DEFINE list == <<4, 4, 4, 1, 1, 4, 4, 4, 1, 1, 8>>
<1>1. list \in Seq(Nat) /\ Len(list) = 11
  OBVIOUS
<1>2. /\ list[1] = 4 /\ list[2] = 4 /\ list[3] = 4 /\ list[4] = 1
      /\ list[5] = 1 /\ list[6] = 4 /\ list[7] = 4 /\ list[8] = 4
      /\ list[9] = 1 /\ list[10] = 1 /\ list[11] = 8
  OBVIOUS
<1> HIDE DEF list
<1>3. PICK g : Sums(g, list, 11) /\ Total(list) = g[11]
  BY <1>1, TotalIsSum
<1>4. g[0] = 0 /\ \A k \in 1 .. 11 : g[k] = g[k - 1] + list[k]
  BY <1>3 DEF Sums
<1>5. /\ g[1] = g[0] + list[1] /\ g[2] = g[1] + list[2] /\ g[3] = g[2] + list[3]
      /\ g[4] = g[3] + list[4] /\ g[5] = g[4] + list[5] /\ g[6] = g[5] + list[6]
      /\ g[7] = g[6] + list[7] /\ g[8] = g[7] + list[8] /\ g[9] = g[8] + list[9]
      /\ g[10] = g[9] + list[10] /\ g[11] = g[10] + list[11]
  BY <1>4
<1>6. g[11] = 36
  BY <1>2, <1>4, <1>5
<1> QED  BY <1>1, <1>2, <1>3, <1>6 DEF list

LEMMA DualSphericalIs24 ==
  /\ <<2, 2, 4, 1, 1, 4, 1, 1, 8>> \in Seq(Nat) /\ Len(<<2, 2, 4, 1, 1, 4, 1, 1, 8>>) = 9
  /\ <<2, 2, 4, 1, 1, 4, 1, 1, 8>>[1] = 2 /\ Total(<<2, 2, 4, 1, 1, 4, 1, 1, 8>>) = 24
<1> DEFINE list == <<2, 2, 4, 1, 1, 4, 1, 1, 8>>
<1>1. list \in Seq(Nat) /\ Len(list) = 9
  OBVIOUS
<1>2. /\ list[1] = 2 /\ list[2] = 2 /\ list[3] = 4 /\ list[4] = 1
      /\ list[5] = 1 /\ list[6] = 4 /\ list[7] = 1 /\ list[8] = 1
      /\ list[9] = 8
  OBVIOUS
<1> HIDE DEF list
<1>3. PICK g : Sums(g, list, 9) /\ Total(list) = g[9]
  BY <1>1, TotalIsSum
<1>4. g[0] = 0 /\ \A k \in 1 .. 9 : g[k] = g[k - 1] + list[k]
  BY <1>3 DEF Sums
<1>5. /\ g[1] = g[0] + list[1] /\ g[2] = g[1] + list[2] /\ g[3] = g[2] + list[3]
      /\ g[4] = g[3] + list[4] /\ g[5] = g[4] + list[5] /\ g[6] = g[5] + list[6]
      /\ g[7] = g[6] + list[7] /\ g[8] = g[7] + list[8] /\ g[9] = g[8] + list[9]
  BY <1>4
<1>6. g[9] = 24
  BY <1>2, <1>4, <1>5
<1> QED  BY <1>1, <1>2, <1>3, <1>6 DEF list

LEMMA AppendFirst ==
  ASSUME NEW S, NEW s \in Seq(S), NEW x \in S, Len(s) > 0
  PROVE  Append(s, x)[1] = s[1]
<1>1. Len(s) \in Nat /\ 1 \in 1 .. Len(s)
  BY LenProperties
<1>2. \A i \in 1 .. Len(s) : Append(s, x)[i] = s[i]
  BY AppendProperties
<1> QED  BY <1>1, <1>2

(* The list of the fields is as long as what the writer writes.             *)
LEMMA FieldsAreSize ==
  ASSUME NEW fw \in Firmwares, NEW type \in DataTypes, Numbered(fw) => type \in {0, 1}
  PROVE  /\ Fields(fw, type) \in Seq(Nat) /\ Total(Fields(fw, type)) = RecordSize(fw, type)
         /\ Head(Fields(fw, type)) \in 1 .. 4 /\ RecordSize(fw, type) \in 17 .. 36
<1> DEFINE number == IF Numbered(fw) THEN <<1>> ELSE <<>>
           one == IF Numbered(fw) THEN 1 ELSE 0
           long == <<4, 4, 4, 1, 8>>
           short == <<4, 2, 2, 1, 8>>
<1>1. RecordSize(fw, type) = PointSize(type) + 8 + one
  BY DEF RecordSize
<1>2. one \in {0, 1}
  OBVIOUS
<1>3. ASSUME NEW list \in Seq(Nat), Len(list) = 5, list[1] = 4
      PROVE  /\ list \o number \in Seq(Nat) /\ Head(list \o number) = 4
             /\ Total(list \o number) = Total(list) + one
  <2>1. CASE Numbered(fw)
    <3>1. list \o <<1>> = Append(list, 1)
      BY <1>3, AppendIsConcat
    <3>2. Total(Append(list, 1)) = Total(list) + 1
      BY <1>3, TotalAppend
    <3>3. Append(list, 1) \in Seq(Nat)
      BY <1>3, AppendProperties
    <3>4. Head(Append(list, 1)) = 4
      <4> DEFINE more == Append(list, 1)
      <4>1. 1 \in Nat /\ Len(list) > 0
        BY <1>3
      <4>2. more[1] = 4
        BY <1>3, <4>1, AppendFirst
      <4> HIDE DEF more
      <4>3. Head(more) = 4
        BY <4>2
      <4> QED  BY <4>3 DEF more
    <3> QED  BY <2>1, <3>1, <3>2, <3>3, <3>4
  <2>2. CASE ~Numbered(fw)
    <3>1. list \o <<>> = list
      BY <1>3, ConcatEmptySeq
    <3>2. Head(list) = 4
      BY <1>3
    <3>3. Total(list) \in Nat
      BY <1>3, TotalNatural
    <3> QED  BY <1>3, <2>2, <3>1, <3>2, <3>3
  <2> QED  BY <2>1, <2>2
<1>4. CASE type = 0
  <2>1. Fields(fw, type) = long \o number /\ PointSize(type) = 13
    BY <1>4 DEF Fields, PointSize
  <2>2. long \in Seq(Nat) /\ Len(long) = 5 /\ long[1] = 4 /\ Total(long) = 21
    BY CartesianIs21
  <2> HIDE DEF long, number, one
  <2>3. /\ long \o number \in Seq(Nat) /\ Head(long \o number) = 4
        /\ Total(long \o number) = 21 + one
    BY <1>3, <2>2
  <2>4. RecordSize(fw, type) = 21 + one
    BY <1>1, <1>2, <2>1
  <2>5. RecordSize(fw, type) \in 17 .. 36
    BY <1>2, <2>4
  <2> DEFINE whole == long \o number
  <2>6. /\ Fields(fw, type) = whole /\ whole \in Seq(Nat) /\ Head(whole) = 4
        /\ Total(whole) = 21 + one
    BY <2>1, <2>3
  <2> HIDE DEF whole
  <2>7. Head(whole) \in 1 .. 4
    BY <2>6
  <2> QED  BY <2>4, <2>5, <2>6, <2>7
<1>5. CASE type = 1
  <2>1. Fields(fw, type) = short \o number /\ PointSize(type) = 9
    BY <1>5 DEF Fields, PointSize
  <2>2. short \in Seq(Nat) /\ Len(short) = 5 /\ short[1] = 4 /\ Total(short) = 17
    BY SphericalIs17
  <2> HIDE DEF short, number, one
  <2>3. /\ short \o number \in Seq(Nat) /\ Head(short \o number) = 4
        /\ Total(short \o number) = 17 + one
    BY <1>3, <2>2
  <2>4. RecordSize(fw, type) = 17 + one
    BY <1>1, <1>2, <2>1
  <2>5. RecordSize(fw, type) \in 17 .. 36
    BY <1>2, <2>4
  <2> DEFINE whole == short \o number
  <2>6. /\ Fields(fw, type) = whole /\ whole \in Seq(Nat) /\ Head(whole) = 4
        /\ Total(whole) = 17 + one
    BY <2>1, <2>3
  <2> HIDE DEF whole
  <2>7. Head(whole) \in 1 .. 4
    BY <2>6
  <2> QED  BY <2>4, <2>5, <2>6, <2>7
<1>6. CASE type = 2
  <2> DEFINE list == <<4, 4, 4, 1, 1, 8>>
  <2>1. ~Numbered(fw)
    BY <1>6
  <2>2. Fields(fw, type) = list /\ RecordSize(fw, type) = 22
    BY <1>1, <1>6, <2>1 DEF Fields, PointSize
  <2>3. list \in Seq(Nat) /\ Total(list) = 22
    BY ExtendedIs22
  <2>4. Head(list) = 4
    OBVIOUS
  <2> HIDE DEF list
  <2> QED  BY <2>2, <2>3, <2>4
<1>7. CASE type = 3
  <2> DEFINE list == <<4, 2, 2, 1, 1, 8>>
  <2>1. ~Numbered(fw)
    BY <1>7
  <2>2. Fields(fw, type) = list /\ RecordSize(fw, type) = 18
    BY <1>1, <1>7, <2>1 DEF Fields, PointSize
  <2>3. list \in Seq(Nat) /\ Total(list) = 18
    BY ExtendedSphericalIs18
  <2>4. Head(list) = 4
    OBVIOUS
  <2> HIDE DEF list
  <2> QED  BY <2>2, <2>3, <2>4
<1>8. CASE type = 4
  <2> DEFINE list == <<4, 4, 4, 1, 1, 4, 4, 4, 1, 1, 8>>
  <2>1. ~Numbered(fw)
    BY <1>8
  <2>2. Fields(fw, type) = list /\ RecordSize(fw, type) = 36
    BY <1>1, <1>8, <2>1 DEF Fields, PointSize
  <2>3. list \in Seq(Nat) /\ Total(list) = 36
    BY DualIs36
  <2>4. Head(list) = 4
    OBVIOUS
  <2> HIDE DEF list
  <2> QED  BY <2>2, <2>3, <2>4
<1>9. CASE type = 5
  <2> DEFINE list == <<2, 2, 4, 1, 1, 4, 1, 1, 8>>
  <2>1. ~Numbered(fw)
    BY <1>9
  <2>2. Fields(fw, type) = list /\ RecordSize(fw, type) = 24
    BY <1>1, <1>9, <2>1 DEF Fields, PointSize
  <2>3. list \in Seq(Nat) /\ Total(list) = 24
    BY DualSphericalIs24
  <2>4. Head(list) = 2
    OBVIOUS
  <2> HIDE DEF list
  <2> QED  BY <2>2, <2>3, <2>4
<1> QED  BY <1>4, <1>5, <1>6, <1>7, <1>8, <1>9 DEF DataTypes

-----------------------------------------------------------------------------
(* What the converters read.                                                *)

ShotKinds == PointKinds \cup {"garbage"}
Shots == [of : Nat, i : Nat, kind : ShotKinds]
FileRecords == [point : Shots, type : DataTypes, return : 1 .. 3, at : Nat, time : Nat]
WholeTableRows == [point : Shots, return : 1 .. 3]
TableRows == [point : Shots, return : 0 .. 3]
Files ==
  [fw : Firmwares, type : DataTypes, recs : Seq(FileRecords), rest : Nat, last : Shots,
   headed : BOOLEAN]

Readable(f) == f \in Files /\ (Numbered(f.fw) => f.type \in {0, 1})

LEMMA GarbageIsShot == Garbage \in Shots
<1> QED  BY DEF Garbage, Shots, ShotKinds

LEMMA StrideIsSize ==
  ASSUME NEW f, Readable(f)
  PROVE  /\ Stride(f) = RecordSize(f.fw, f.type) /\ Stride(f) \in 17 .. 36
         /\ Head(Fields(f.fw, f.type)) \in 1 .. 4
<1>1. f.fw \in Firmwares /\ f.type \in DataTypes /\ (Numbered(f.fw) => f.type \in {0, 1})
  BY DEF Readable, Files
<1>2. /\ Total(Fields(f.fw, f.type)) = RecordSize(f.fw, f.type)
      /\ Head(Fields(f.fw, f.type)) \in 1 .. 4 /\ RecordSize(f.fw, f.type) \in 17 .. 36
  BY <1>1, FieldsAreSize
<1> QED  BY <1>2 DEF Stride

(* A file whose records have the size that the header's type tells has as   *)
(* many bytes as whole strides and the cut record.                          *)
LEMMA BytesOfFile ==
  ASSUME NEW f, Readable(f)
  PROVE  /\ Bytes(f) \in Nat
         /\ (\A k \in 1 .. Len(f.recs) : f.recs[k].type = f.type)
              => Bytes(f) = Len(f.recs) * Stride(f) + f.rest
<1> DEFINE n == Len(f.recs)
           sizes == [i \in DOMAIN f.recs |-> RecordSize(f.fw, f.recs[i].type)]
<1>1. f.recs \in Seq(FileRecords) /\ f.rest \in Nat /\ f.fw \in Firmwares
  BY DEF Readable, Files
<1>2. n \in Nat /\ DOMAIN f.recs = 1 .. n /\ \A k \in 1 .. n : f.recs[k].type \in DataTypes
  <2>1. n \in Nat /\ DOMAIN f.recs = 1 .. n /\ \A k \in 1 .. n : f.recs[k] \in FileRecords
    BY <1>1, LenProperties, ElementOfSeq
  <2> QED  BY <2>1 DEF FileRecords
<1>3. \A type \in DataTypes : RecordSize(f.fw, type) \in Nat
  BY DEF RecordSize, PointSize, DataTypes
<1>4. sizes \in Seq(Nat) /\ Len(sizes) = n
  <2>1. sizes \in [1 .. n -> Nat]
    BY <1>2, <1>3
  <2>2. sizes \in Seq(Nat)
    BY <1>2, <2>1, SeqDef
  <2> QED  BY <1>2, <2>1, <2>2, LenProperties
<1>5. Bytes(f) = Total(sizes) + f.rest
  BY DEF Bytes
<1>6. \A k \in 1 .. n : sizes[k] = RecordSize(f.fw, f.recs[k].type)
  BY <1>2
<1> HIDE DEF n, sizes
<1>7. Total(sizes) \in Nat
  BY <1>4, TotalNatural
<1>8. ASSUME \A k \in 1 .. n : f.recs[k].type = f.type
      PROVE  Bytes(f) = n * Stride(f) + f.rest
  <2>1. Stride(f) = RecordSize(f.fw, f.type) /\ Stride(f) \in Nat
    BY StrideIsSize
  <2>2. \A k \in 1 .. Len(sizes) : sizes[k] = Stride(f)
    BY <1>4, <1>6, <1>8, <2>1
  <2>3. Total(sizes) = Len(sizes) * Stride(f)
    BY <1>4, <2>1, <2>2, TotalOfEqual
  <2> QED  BY <1>4, <1>5, <2>3
<1> QED  BY <1>1, <1>5, <1>7, <1>8 DEF n

LEMMA RowIsWhole ==
  ASSUME NEW f, Readable(f), NEW k \in Nat \ {0}
  PROVE  Rows(f, k) \in Seq(WholeTableRows)
<1>1. Row(f, k) \in WholeTableRows
  <2>1. CASE InStep(f, k)
    <3>1. f.recs \in Seq(FileRecords) /\ k \in 1 .. Len(f.recs)
      BY <2>1, LenProperties DEF InStep, Readable, Files
    <3>2. f.recs[k] \in FileRecords
      BY <3>1, ElementOfSeq
    <3>3. f.recs[k].point \in Shots /\ f.recs[k].return \in 1 .. 3
      BY <3>2 DEF FileRecords
    <3> QED  BY <2>1, <3>3 DEF Row, WholeTableRows
  <2>2. CASE ~InStep(f, k)
    BY <2>2, GarbageIsShot DEF Row, WholeTableRows
  <2> QED  BY <2>1, <2>2
<1>2. [Row(f, k) EXCEPT !.return = 2] \in WholeTableRows
  BY <1>1 DEF WholeTableRows
<1> QED  BY <1>1, <1>2 DEF Rows

(* All whole rows have the number of a return.                              *)
LEMMA WholeRowsAreWhole ==
  ASSUME NEW f, Readable(f)
  PROVE  /\ Bytes(f) \div Stride(f) \in Nat
         /\ [k \in 1 .. (Bytes(f) \div Stride(f)) |-> Rows(f, k)] \in Seq(Seq(WholeTableRows))
         /\ WholeRows(f) \in Seq(WholeTableRows)
<1> DEFINE n == Bytes(f) \div Stride(f)
           rows == [k \in 1 .. n |-> Rows(f, k)]
<1>1. Bytes(f) \in Nat /\ Stride(f) \in 17 .. 36
  BY BytesOfFile, StrideIsSize
<1>2. n \in Nat
  BY <1>1
<1> HIDE DEF n
<1>3. \A k \in 1 .. n : Rows(f, k) \in Seq(WholeTableRows)
  BY <1>2, RowIsWhole
<1>4. rows \in Seq(Seq(WholeTableRows))
  <2>1. rows \in [1 .. n -> Seq(WholeTableRows)]
    BY <1>3
  <2> HIDE DEF rows
  <2> QED  BY <1>2, <2>1, SeqDef
<1>5. FlattenSeq(rows) \in Seq(WholeTableRows)
  <2>1. <<>> \in Seq(WholeTableRows)
    BY EmptySeq
  <2> HIDE DEF rows
  <2> QED  BY <1>4, <2>1, FlatAppend
<1> QED  BY <1>2, <1>4, <1>5 DEF WholeRows, n

(* Where the LAS converter writes a file, so few bytes are left that the    *)
(* CSV converter has no cut row.                                            *)
LEMMA LasRowsAreCsvRows ==
  ASSUME NEW f, Readable(f), LasSucceeds(f)
  PROVE  LasRows(f) = CsvRows(f)
<1> DEFINE left == Bytes(f) % Stride(f)
           clipped == [point |-> f.last, return |-> 0]
           more == IF Numbered(f.fw) /\ left = Stride(f) - 1 THEN <<clipped>> ELSE <<>>
<1>1. Bytes(f) \in Nat /\ Stride(f) \in 17 .. 36 /\ Head(Fields(f.fw, f.type)) \in 1 .. 4
  BY BytesOfFile, StrideIsSize
<1>2. left < Head(Fields(f.fw, f.type))
  BY DEF LasSucceeds
<1>3. left # Stride(f) - 1
  BY <1>1, <1>2
<1>4. CsvRows(f) = WholeRows(f) \o <<>>
  BY <1>3 DEF CsvRows
<1>5. WholeRows(f) \o <<>> = WholeRows(f)
  BY WholeRowsAreWhole, ConcatEmptySeq
<1> QED  BY <1>4, <1>5 DEF LasRows

-----------------------------------------------------------------------------
(* The records kept of a packet.                                            *)

Listed(rec, n, Z) == rec \in [1 .. n -> Z]
Part(K, rec, i) == IF i \in K THEN <<rec[i]>> ELSE <<>>
Filtered(K, rec, n) == FlattenSeq([i \in 1 .. n |-> Part(K, rec, i)])

(* The members of s are records, in their order.                            *)
Chosen(s, rec, n) ==
  \E at \in [1 .. Len(s) -> 1 .. n] :
    /\ \A k \in 1 .. Len(s) : s[k] = rec[at[k]]
    /\ \A j, k \in 1 .. Len(s) : j < k => at[j] < at[k]

Extends(K, rec, m) == Filtered(K, rec, m) = Filtered(K, rec, m - 1) \o Part(K, rec, m)

LEMMA FilteredAppend ==
  ASSUME NEW Z, NEW n \in Nat, NEW K, NEW rec, Listed(rec, n, Z)
  PROVE  \A m \in 1 .. n : Extends(K, rec, m)
<1> SUFFICES ASSUME NEW m \in 1 .. n
             PROVE  Filtered(K, rec, m) = Filtered(K, rec, m - 1) \o Part(K, rec, m)
  BY DEF Extends
<1> DEFINE M(k) == [i \in 1 .. k |-> Part(K, rec, i)]
           e == Part(K, rec, m)
           ss == M(m - 1)
           tt == M(m)
<1>1. \A i \in 1 .. n : Part(K, rec, i) \in Seq(Z)
  BY EmptySeq DEF Listed, Part
<1>2. /\ ss \in Seq(Seq(Z)) /\ Len(ss) = m - 1 /\ tt \in Seq(Seq(Z)) /\ Len(tt) = m
      /\ \A i \in 1 .. m - 1 : ss[i] = tt[i]
  <2>1. m \in Nat /\ m - 1 \in Nat
    OBVIOUS
  <2>2. ss \in [1 .. m - 1 -> Seq(Z)] /\ tt \in [1 .. m -> Seq(Z)] /\ \A i \in 1 .. m - 1 : ss[i] = tt[i]
    BY <1>1
  <2> HIDE DEF ss, tt
  <2>3. ss \in Seq(Seq(Z)) /\ tt \in Seq(Seq(Z))
    BY <2>1, <2>2, SeqDef
  <2> QED  BY <2>1, <2>2, <2>3, LenProperties
<1>3. e \in Seq(Z) /\ tt[m] = e
  BY <1>1
<1>4. FlattenSeq(ss) = Filtered(K, rec, m - 1) /\ FlattenSeq(tt) = Filtered(K, rec, m)
  BY DEF Filtered
<1> HIDE DEF e, ss, tt, M
<1>5. tt = Append(ss, e)
  <2>1. /\ Append(ss, e) \in Seq(Seq(Z)) /\ Len(Append(ss, e)) = m - 1 + 1
        /\ (\A i \in 1 .. m - 1 : Append(ss, e)[i] = ss[i]) /\ Append(ss, e)[m - 1 + 1] = e
    BY <1>2, <1>3, AppendProperties
  <2>2. m - 1 + 1 = m
    OBVIOUS
  <2>3. ASSUME NEW i \in 1 .. m
        PROVE  tt[i] = Append(ss, e)[i]
    <3>1. CASE i = m
      BY <1>3, <2>1, <2>2, <3>1
    <3>2. CASE i # m
      <4>1. i \in 1 .. m - 1
        BY <3>2
      <4> QED  BY <1>2, <2>1, <4>1
    <3> QED  BY <3>1, <3>2
  <2>4. Len(tt) = Len(Append(ss, e)) /\ \A i \in 1 .. Len(tt) : tt[i] = Append(ss, e)[i]
    BY <1>2, <2>1, <2>2, <2>3
  <2> QED  BY <1>2, <2>1, <2>4, SeqEqual
<1>6. FlattenSeq(Append(ss, e)) = FlattenSeq(ss) \o e
  BY <1>2, <1>3, FlatAppend
<1> QED  BY <1>4, <1>5, <1>6 DEF e

LEMMA FilteredIsChosen ==
  ASSUME NEW Z, NEW n \in Nat, NEW K, NEW rec, Listed(rec, n, Z)
  PROVE  Filtered(K, rec, n) \in Seq(Z) /\ Chosen(Filtered(K, rec, n), rec, n)
<1> DEFINE F(m) == Filtered(K, rec, m)
           Has == {m \in 0 .. n : F(m) \in Seq(Z) /\ Chosen(F(m), rec, m)}
<1>1. 0 \in Has
  <2>1. [i \in 1 .. 0 |-> Part(K, rec, i)] = <<>>
    OBVIOUS
  <2>2. F(0) = <<>>
    BY <2>1, FlatNil DEF Filtered
  <2> HIDE DEF F
  <2>3. F(0) \in Seq(Z) /\ Len(F(0)) = 0
    BY <2>2, EmptySeq
  <2>4. [k \in 1 .. 0 |-> 0] \in [1 .. 0 -> 1 .. 0]
    OBVIOUS
  <2>5. Chosen(F(0), rec, 0)
    BY <2>3, <2>4 DEF Chosen
  <2> QED  BY <2>3, <2>5
<1>2. ASSUME NEW m \in 1 .. n, m - 1 \in Has
      PROVE  m \in Has
  <2> DEFINE s == F(m - 1)
  <2>1. s \in Seq(Z) /\ Chosen(s, rec, m - 1) /\ m \in 0 .. n /\ rec[m] \in Z
    BY <1>2 DEF Listed
  <2>2. F(m) = s \o Part(K, rec, m)
    <3>1. \A i \in 1 .. n : Extends(K, rec, i)
      BY FilteredAppend
    <3> QED  BY <3>1 DEF Extends
  <2> HIDE DEF s, F
  <2>3. CASE m \in K
    <3>1. F(m) = s \o <<rec[m]>>
      BY <2>2, <2>3 DEF Part
    <3>2. s \o <<rec[m]>> = Append(s, rec[m])
      BY <2>1, AppendIsConcat
    <3> DEFINE t == Append(s, rec[m])
               l == Len(s)
    <3>3. /\ t \in Seq(Z) /\ l \in Nat /\ Len(t) = l + 1 /\ t[l + 1] = rec[m]
          /\ \A k \in 1 .. l : t[k] = s[k]
      BY <2>1, AppendProperties, LenProperties
    <3> HIDE DEF t
    <3>4. PICK at \in [1 .. l -> 1 .. m - 1] :
            /\ \A k \in 1 .. l : s[k] = rec[at[k]]
            /\ \A j, k \in 1 .. l : j < k => at[j] < at[k]
      BY <2>1 DEF Chosen
    <3> HIDE DEF l
    <3> DEFINE on == [k \in 1 .. l + 1 |-> IF k = l + 1 THEN m ELSE at[k]]
    <3>5. /\ on \in [1 .. l + 1 -> 1 .. m] /\ on[l + 1] = m
          /\ \A k \in 1 .. l : on[k] = at[k] /\ on[k] \in 1 .. m - 1
      BY <3>3, <3>4
    <3>e. \A k \in 1 .. l + 1 : k = l + 1 \/ k \in 1 .. l
      BY <3>3
    <3> HIDE DEF on
    <3>6. \A k \in 1 .. l + 1 : t[k] = rec[on[k]]
      BY <3>3, <3>4, <3>5, <3>e
    <3>7. \A j, k \in 1 .. l + 1 : j < k => on[j] < on[k]
      <4> SUFFICES ASSUME NEW j \in 1 .. l + 1, NEW k \in 1 .. l + 1, j < k
                   PROVE  on[j] < on[k]
        OBVIOUS
      <4>1. j \in 1 .. l
        BY <3>3
      <4>2. CASE k = l + 1
        BY <3>5, <4>1, <4>2
      <4>3. CASE k \in 1 .. l
        BY <3>4, <3>5, <4>1, <4>3
      <4> QED  BY <3>e, <4>2, <4>3
    <3>8. Chosen(t, rec, m)
      BY <3>3, <3>5, <3>6, <3>7 DEF Chosen
    <3> QED  BY <2>1, <3>1, <3>2, <3>3, <3>8 DEF t
  <2>4. CASE m \notin K
    <3>1. F(m) = s
      <4>1. F(m) = s \o <<>>
        BY <2>2, <2>4 DEF Part
      <4> QED  BY <2>1, <4>1, ConcatEmptySeq
    <3>2. Chosen(s, rec, m)
      <4>1. PICK at \in [1 .. Len(s) -> 1 .. m - 1] :
              /\ \A k \in 1 .. Len(s) : s[k] = rec[at[k]]
              /\ \A j, k \in 1 .. Len(s) : j < k => at[j] < at[k]
        BY <2>1 DEF Chosen
      <4>2. at \in [1 .. Len(s) -> 1 .. m]
        BY <4>1
      <4> QED  BY <4>1, <4>2 DEF Chosen
    <3> QED  BY <2>1, <3>1, <3>2
  <2> QED  BY <2>3, <2>4
<1> HIDE DEF Has, F
<1>3. \A m \in 0 .. n : m \in Has
  BY <1>1, <1>2, StepByStep
<1> QED  BY <1>3 DEF Has, F

-----------------------------------------------------------------------------
(* The records of a packet.                                                 *)

(* The times of the points in a packet never fall and, in pace, stay in it. *)
LEMMA OffsetsRise ==
  ASSUME NEW fw \in Firmwares, NEW type \in DataTypes
  PROVE  /\ \A i \in Nat : Offset(fw, type, i) \in Nat
         /\ \A i, j \in Nat : i <= j => Offset(fw, type, i) <= Offset(fw, type, j)
<1>1. Step(type) \in {10, 4, 2} /\ Pace(type) \in {10, 4, 2} /\ Pace(type) <= Step(type)
  BY DEF Step, Pace
<1>2. CASE fw = 1
  <2>1. \A i \in Nat : Offset(fw, type, i) = (i + 1) * Step(type) - Pace(type)
    BY <1>2 DEF Offset
  <2> QED  BY <1>1, <2>1
<1>3. CASE fw = 2
  <2>1. \A i \in Nat : Offset(fw, type, i) = (i \div 2) * 10
    BY <1>3 DEF Offset
  <2>2. \A i \in Nat : i \div 2 \in Nat
    OBVIOUS
  <2>3. \A i, j \in Nat : i <= j => i \div 2 <= j \div 2
    OBVIOUS
  <2> QED  BY <2>1, <2>2, <2>3
<1>4. CASE fw = 3
  <2>1. \A i \in Nat : Offset(fw, type, i) = (i \div 3) * 17
    BY <1>4 DEF Offset
  <2>2. \A i \in Nat : i \div 3 \in Nat
    OBVIOUS
  <2>3. \A i, j \in Nat : i <= j => i \div 3 <= j \div 3
    OBVIOUS
  <2> QED  BY <2>1, <2>2, <2>3
<1> QED  BY <1>2, <1>3, <1>4 DEF Firmwares

(* The type does not matter where a pulse has several returns.              *)
LEMMA OffsetInSpan ==
  ASSUME NEW fw \in Firmwares, NEW type \in DataTypes \ {3, 5}, NEW sent \in DataTypes,
         fw = 1 => sent = type, NEW n \in Nat \ {0}
  PROVE  Offset(fw, type, n - 1) <= Span(fw, sent, n) /\ Span(fw, sent, n) \in Nat
<1>1. Pace(sent) \in {10, 4, 2}
  BY DEF Pace
<1>2. CASE fw = 1
  <2>1. Step(type) = Pace(sent)
    BY <1>2 DEF Step
  <2>2. Offset(fw, type, n - 1) = (n - 1 + 1) * Step(type) - Pace(type) /\ Span(fw, sent, n) = n * Pace(sent)
    BY <1>2 DEF Offset, Span
  <2> QED  BY <1>1, <1>2, <2>1, <2>2
<1>3. CASE fw = 2
  <2>1. Offset(fw, type, n - 1) = ((n - 1) \div 2) * 10 /\ Span(fw, sent, n) = ((n + 1) \div 2) * 10
    BY <1>3 DEF Offset, Span
  <2>2. (n - 1) \div 2 <= (n + 1) \div 2 /\ (n - 1) \div 2 \in Nat /\ (n + 1) \div 2 \in Nat
    OBVIOUS
  <2> QED  BY <2>1, <2>2
<1>4. CASE fw = 3
  <2>1. Offset(fw, type, n - 1) = ((n - 1) \div 3) * 17 /\ Span(fw, sent, n) = ((n + 2) \div 3) * 17
    BY <1>4 DEF Offset, Span
  <2>2. (n - 1) \div 3 <= (n + 2) \div 3 /\ (n - 1) \div 3 \in Nat /\ (n + 2) \div 3 \in Nat
    OBVIOUS
  <2> QED  BY <2>1, <2>2
<1> QED  BY <1>2, <1>3, <1>4 DEF Firmwares

LEMMA SpanIsPositive ==
  ASSUME NEW fw \in Firmwares, NEW sent \in DataTypes, NEW n \in Nat \ {0}
  PROVE  Span(fw, sent, n) \in Nat \ {0}
<1>1. Pace(sent) \in {10, 4, 2}
  BY DEF Pace
<1>2. CASE fw = 1
  <2>1. Span(fw, sent, n) = n * Pace(sent)
    BY <1>2 DEF Span
  <2> QED  BY <1>1, <2>1
<1>3. CASE fw = 2
  <2>1. Span(fw, sent, n) = ((n + 1) \div 2) * 10
    BY <1>3 DEF Span
  <2>2. (n + 1) \div 2 \in Nat \ {0}
    OBVIOUS
  <2> QED  BY <2>1, <2>2
<1>4. CASE fw = 3
  <2>1. Span(fw, sent, n) = ((n + 2) \div 3) * 17
    BY <1>4 DEF Span
  <2>2. (n + 2) \div 3 \in Nat \ {0}
    OBVIOUS
  <2> QED  BY <2>1, <2>2
<1> QED  BY <1>2, <1>3, <1>4 DEF Firmwares

LEMMA ReturnIsNumber ==
  ASSUME NEW fw \in Firmwares, NEW i \in Nat
  PROVE  Return(fw, i) \in 1 .. 3
<1>1. CASE fw = 1
  BY <1>1 DEF Return, Numbered
<1>2. CASE fw = 2
  BY <1>2 DEF Return, Numbered
<1>3. CASE fw = 3
  BY <1>3 DEF Return, Numbered
<1> QED  BY <1>1, <1>2, <1>3 DEF Firmwares

(* Times before midnight and times after it are as far apart as their       *)
(* stamps.                                                                  *)
LEMMA StampsKeepPace ==
  ASSUME lidar.day \in Nat
  PROVE  /\ \A time \in Nat : Stamp(time) \in Nat
         /\ \A from, to \in Nat :
              from <= to /\ ~Midnight(from, to) => Stamp(to) - Stamp(from) = to - from
         /\ \A from, to \in Nat : from <= to => Stamp(to) - Stamp(from) <= to - from
<1> QED  BY DEF Stamp, Midnight

(* All points of a packet, as records, and those that are kept.             *)
AllRecords(points, type, time, n) ==
  [i \in 1 .. n |-> [point |-> points[i], type |-> type, return |-> Return(lidar.kind.fw, i - 1),
                     at |-> time, time |-> Stamp(time) + Offset(lidar.kind.fw, type, i - 1)]]
KeptOnes(points, type, n) ==
  {i \in 1 .. n : points[i] = Garbage \/ Kept(points[i].kind, type, lidar.kind.mid100)}

LEMMA RecordsAreFiltered ==
  ASSUME NEW points, NEW type, NEW time, NEW n, n = Len(points)
  PROVE  Records(points, type, time)
           = Filtered(KeptOnes(points, type, n), AllRecords(points, type, time, n), n)
<1> DEFINE K == KeptOnes(points, type, n)
           rec == AllRecords(points, type, time, n)
           Whole(i) == [point |-> points[i], type |-> type, return |-> Return(lidar.kind.fw, i - 1),
                        at |-> time, time |-> Stamp(time) + Offset(lidar.kind.fw, type, i - 1)]
           IsKept(i) == points[i] = Garbage \/ Kept(points[i].kind, type, lidar.kind.mid100)
<1>1. Records(points, type, time) = FlattenSeq([i \in 1 .. n |-> Only(IsKept(i), Whole(i))])
  BY DEF Records
<1>2. Filtered(K, rec, n) = FlattenSeq([i \in 1 .. n |-> Part(K, rec, i)])
  BY DEF Filtered
<1>3. ASSUME NEW i \in 1 .. n
      PROVE  Only(IsKept(i), Whole(i)) = Part(K, rec, i)
  <2>1. i \in K <=> IsKept(i)
    BY DEF KeptOnes
  <2>2. rec[i] = Whole(i)
    BY DEF AllRecords
  <2> HIDE DEF K, rec, Whole, IsKept
  <2> QED  BY <2>1, <2>2 DEF Only, Part
<1> HIDE DEF K, rec, Whole, IsKept
<1>4. [i \in 1 .. n |-> Only(IsKept(i), Whole(i))] = [i \in 1 .. n |-> Part(K, rec, i)]
  BY <1>3
<1> QED  BY <1>1, <1>2, <1>4 DEF K, rec

(* What a packet adds to the file: records of one type and one packet whose *)
(* times never fall and lie from that of the packet to that of its end.     *)
PacketFits(new, type, time, end) ==
  /\ new \in Seq(FileRecords)
  /\ \A k \in 1 .. Len(new) :
       new[k].type = type /\ new[k].at = time /\ Stamp(time) <= new[k].time /\ new[k].time <= end
  /\ \A j, k \in 1 .. Len(new) : j < k => new[j].time <= new[k].time

LEMMA RecordsFit ==
  ASSUME lidar.kind.fw \in Firmwares, lidar.day \in Nat, NEW type \in DataTypes, NEW time \in Nat,
         PerPacket \in Nat \ {0}, NEW n \in 0 .. PerPacket, NEW points, n = Len(points),
         \A i \in 1 .. n : points[i] \in Shots
  PROVE  PacketFits(Records(points, type, time), type, time,
                    Stamp(time) + Offset(lidar.kind.fw, type, PerPacket - 1))
<1> DEFINE fw == lidar.kind.fw
           K == KeptOnes(points, type, n)
           rec == AllRecords(points, type, time, n)
           new == Records(points, type, time)
           off == [i \in 0 .. PerPacket - 1 |-> Offset(fw, type, i)]
           stamp == Stamp(time)
           end == stamp + Offset(fw, type, PerPacket - 1)
<1>0. stamp \in Nat
  BY StampsKeepPace
<1>1. n \in Nat /\ \A i \in 1 .. n : i - 1 \in Nat /\ i - 1 \in 0 .. PerPacket - 1
  OBVIOUS
<1>2. /\ off \in [0 .. PerPacket - 1 -> Nat]
      /\ \A i, j \in 0 .. PerPacket - 1 : i <= j => off[i] <= off[j]
      /\ end = stamp + off[PerPacket - 1]
      /\ \A i \in 1 .. n : off[i - 1] = Offset(fw, type, i - 1)
  <2>1. /\ \A i \in Nat : Offset(fw, type, i) \in Nat
        /\ \A i, j \in Nat : i <= j => Offset(fw, type, i) <= Offset(fw, type, j)
    BY OffsetsRise
  <2>2. \A i \in 0 .. PerPacket - 1 : i \in Nat /\ off[i] = Offset(fw, type, i)
    OBVIOUS
  <2>3. PerPacket - 1 \in 0 .. PerPacket - 1
    OBVIOUS
  <2>4. off \in [0 .. PerPacket - 1 -> Nat]
    <3>1. \A i \in 0 .. PerPacket - 1 : Offset(fw, type, i) \in Nat
      BY <2>1, <2>2
    <3> QED  BY <3>1
  <2> HIDE DEF off, fw
  <2>5. \A i, j \in 0 .. PerPacket - 1 : i <= j => off[i] <= off[j]
    BY <2>1, <2>2
  <2>6. end = stamp + off[PerPacket - 1]
    BY <2>2, <2>3
  <2>7. \A i \in 1 .. n : off[i - 1] = Offset(fw, type, i - 1)
    BY <1>1, <2>2
  <2> HIDE DEF end
  <2> QED  BY <2>4, <2>5, <2>6, <2>7
<1>3. \A i \in 1 .. n : /\ rec[i] \in FileRecords /\ rec[i].type = type
                        /\ rec[i].time = stamp + off[i - 1] /\ rec[i].at = time
  <2> SUFFICES ASSUME NEW i \in 1 .. n
               PROVE  /\ rec[i] \in FileRecords /\ rec[i].type = type
                      /\ rec[i].time = stamp + off[i - 1] /\ rec[i].at = time
    OBVIOUS
  <2>1. rec[i] = [point |-> points[i], type |-> type, return |-> Return(fw, i - 1),
                  at |-> time, time |-> stamp + off[i - 1]]
    BY <1>2 DEF AllRecords
  <2>2. Return(fw, i - 1) \in 1 .. 3
    BY <1>1, ReturnIsNumber
  <2>3. stamp + off[i - 1] \in Nat /\ points[i] \in Shots
    <3> HIDE DEF off
    <3>1. i - 1 \in 0 .. PerPacket - 1
      BY <1>1
    <3>2. off[i - 1] \in Nat
      BY <1>2, <3>1
    <3> HIDE DEF stamp
    <3> QED  BY <1>0, <3>2
  <2> HIDE DEF rec, off, fw, stamp
  <2> QED  BY <2>1, <2>2, <2>3 DEF FileRecords
<1>4. Listed(rec, n, FileRecords)
  <2>1. rec = [i \in 1 .. n |-> rec[i]]
    BY DEF AllRecords
  <2> HIDE DEF rec
  <2> QED  BY <1>3, <2>1 DEF Listed
<1>5. new = Filtered(K, rec, n)
  BY RecordsAreFiltered
<1> HIDE DEF K, rec, new, off, fw, end, stamp
<1>6. new \in Seq(FileRecords) /\ Chosen(new, rec, n)
  BY <1>1, <1>4, <1>5, FilteredIsChosen
<1>7. PICK at \in [1 .. Len(new) -> 1 .. n] :
        /\ \A k \in 1 .. Len(new) : new[k] = rec[at[k]]
        /\ \A j, k \in 1 .. Len(new) : j < k => at[j] < at[k]
  BY <1>6 DEF Chosen
<1>8. ASSUME NEW k \in 1 .. Len(new)
      PROVE  new[k].type = type /\ new[k].at = time /\ stamp <= new[k].time /\ new[k].time <= end
  <2>1. at[k] \in 1 .. n /\ new[k] = rec[at[k]]
    BY <1>7
  <2>2. new[k].type = type /\ new[k].at = time /\ new[k].time = stamp + off[at[k] - 1]
    BY <1>3, <2>1
  <2>3. at[k] - 1 \in 0 .. PerPacket - 1 /\ PerPacket - 1 \in 0 .. PerPacket - 1 /\ at[k] - 1 <= PerPacket - 1
    BY <1>1, <2>1
  <2>4. off[at[k] - 1] <= off[PerPacket - 1] /\ off[at[k] - 1] \in Nat /\ off[PerPacket - 1] \in Nat
    BY <1>2, <2>3
  <2> QED  BY <1>0, <1>2, <2>2, <2>4
<1>9. ASSUME NEW j \in 1 .. Len(new), NEW k \in 1 .. Len(new), j < k
      PROVE  new[j].time <= new[k].time
  <2>1. at[k] \in 1 .. n /\ new[k] = rec[at[k]] /\ at[j] \in 1 .. n /\ new[j] = rec[at[j]]
    BY <1>7
  <2>2. new[k].time = stamp + off[at[k] - 1] /\ new[j].time = stamp + off[at[j] - 1]
    BY <1>3, <2>1
  <2>3. at[j] < at[k]
    BY <1>7, <1>9
  <2>4. at[k] - 1 \in 0 .. PerPacket - 1 /\ at[j] - 1 \in 0 .. PerPacket - 1 /\ at[j] - 1 <= at[k] - 1
    BY <1>1, <2>1, <2>3
  <2>5. off[at[j] - 1] <= off[at[k] - 1] /\ off[at[j] - 1] \in Nat /\ off[at[k] - 1] \in Nat
    BY <1>2, <2>4
  <2> QED  BY <1>0, <2>2, <2>5
<1> QED  BY <1>6, <1>8, <1>9 DEF PacketFits, new, end, stamp, fw

-----------------------------------------------------------------------------
(* The inductive invariant.                                                 *)

CaptureTyped ==
  /\ lidar \in [kind : Sensors, type : DataTypes, clock : Nat, day : Nat, packets : Nat, switched : BOOLEAN]
  /\ lidar.type \in lidar.kind.types
  /\ thread \in [at : {"idle", "consumes", "delays", "writes", "closed", "refused", "died", "crashed"},
                 stopped : BOOLEAN, steady : BOOLEAN, type : DataTypes, asked : Nat, began : Nat,
                 start : Nat, now : Nat, polled : BOOLEAN, wait : Nat, duration : Nat,
                 imu : 0 .. MaxSamples]
  /\ file \in Files
  /\ table \in [kind : {"none", "csv", "las", "error"}, rows : Seq(TableRows), imu : Nat,
                deleted : BOOLEAN]

(* The header of a file is of the capture; a file is written to only before *)
(* it is converted.                                                         *)
HeaderFits ==
  /\ thread.at \in {"delays", "writes"} => thread.type \in lidar.kind.types
  /\ thread.at \in {"idle", "consumes", "delays"} => file = NoFile /\ due = <<>>
  /\ thread.at = "writes" =>
       file.headed /\ file.fw = lidar.kind.fw /\ file.type = thread.type /\ file.rest = 0
  /\ Numbered(file.fw) => file.type \in {0, 1}
  /\ thread.at \in {"idle", "consumes", "delays", "writes"} => table.kind = "none"

TableFits ==
  /\ table.kind \in {"none", "error"} => ~table.deleted
  /\ table.kind \in {"csv", "las"} => table.rows = CsvRows(file)

CaptureInv == CaptureTyped /\ HeaderFits /\ TableFits

LEMMA SensorFacts ==
  ASSUME CaptureConstants, CaptureTyped
  PROVE  /\ lidar.kind.fw \in Firmwares /\ lidar.kind.types \subseteq DataTypes
         /\ Numbered(lidar.kind.fw) => lidar.kind.types \subseteq {0, 1}
         /\ lidar.type \in DataTypes /\ lidar.clock \in Nat /\ lidar.day \in Nat
         /\ PerPacket \in Nat \ {0}
         /\ PacketSpan \in Nat \ {0} /\ TakenFor \in DataTypes
<1>1. lidar.kind \in Sensors /\ lidar.type \in DataTypes /\ lidar.clock \in Nat /\ lidar.day \in Nat
      /\ thread.type \in DataTypes
  BY DEF CaptureTyped
<1>2. /\ lidar.kind.fw \in Firmwares /\ lidar.kind.types \subseteq DataTypes
      /\ Numbered(lidar.kind.fw) => lidar.kind.types \subseteq {0, 1}
      /\ PerPacket \in Nat \ {0}
  BY <1>1 DEF CaptureConstants
<1>3. PacketSpan \in Nat \ {0}
  BY <1>1, <1>2, SpanIsPositive DEF PacketSpan
<1>4. TakenFor \in DataTypes
  BY <1>1 DEF TakenFor
<1> QED  BY <1>1, <1>2, <1>3, <1>4

LEMMA Arrived ==
  ASSUME CaptureConstants, CaptureTyped, NEW time \in Times, Arrives(time)
  PROVE  /\ time \in Nat /\ lidar.clock <= time
         /\ lidar' \in [kind : Sensors, type : DataTypes, clock : Nat, day : Nat, packets : Nat, switched : BOOLEAN]
         /\ lidar'.kind = lidar.kind /\ lidar'.type = lidar.type
         /\ lidar'.day = lidar.day
         /\ lidar'.clock = time + PacketSpan /\ lidar.clock <= lidar'.clock /\ time < lidar'.clock
<1>1. lidar.clock \in Nat /\ PacketSpan \in Nat \ {0}
  BY SensorFacts
<1>2. time \in Nat /\ lidar.clock <= time
  BY <1>1 DEF Times
<1>3. lidar' = [lidar EXCEPT !.packets = @ + 1, !.clock = time + PacketSpan]
  BY DEF Arrives
<1>4. time + PacketSpan \in Nat
  BY <1>1, <1>2
<1>5. /\ lidar' \in [kind : Sensors, type : DataTypes, clock : Nat, day : Nat, packets : Nat, switched : BOOLEAN]
      /\ lidar'.kind = lidar.kind /\ lidar'.type = lidar.type /\ lidar'.clock = time + PacketSpan
      /\ lidar'.day = lidar.day
  <2>1. lidar \in [kind : Sensors, type : DataTypes, clock : Nat, day : Nat, packets : Nat, switched : BOOLEAN]
    BY DEF CaptureTyped
  <2> DEFINE e == time + PacketSpan
             p == lidar.packets + 1
  <2>2. lidar' = [lidar EXCEPT !.packets = p, !.clock = e] /\ e \in Nat /\ p \in Nat
    BY <1>3, <1>4, <2>1
  <2> HIDE DEF e, p
  <2>3. /\ lidar' \in [kind : Sensors, type : DataTypes, clock : Nat, day : Nat, packets : Nat, switched : BOOLEAN]
        /\ lidar'.kind = lidar.kind /\ lidar'.type = lidar.type /\ lidar'.clock = e
        /\ lidar'.day = lidar.day
    BY <2>1, <2>2
  <2> QED  BY <2>3 DEF e
<1> QED  BY <1>1, <1>2, <1>5

(* The packet of WritePoints.                                               *)
LEMMA PointsAreShots ==
  ASSUME CaptureConstants, CaptureTyped, NEW kinds \in [1 .. PerPacket -> PointKinds]
  PROVE  /\ Len(Points(kinds)) = PerPacket
         /\ \A i \in 1 .. PerPacket : Points(kinds)[i] \in Shots
<1> DEFINE points == Points(kinds)
<1>1. PerPacket \in Nat /\ lidar.packets \in Nat
  BY DEF CaptureConstants, CaptureTyped
<1>2. Len(kinds) = PerPacket
  BY <1>1
<1>3. /\ points = [i \in 1 .. PerPacket |-> [of |-> lidar.packets, i |-> i, kind |-> kinds[i]]]
      /\ Len(points) = PerPacket
  BY <1>1, <1>2 DEF Points
<1>4. \A i \in 1 .. PerPacket : points[i] = [of |-> lidar.packets, i |-> i, kind |-> kinds[i]] /\ i \in Nat
  BY <1>1, <1>3
<1> HIDE DEF points
<1>5. ASSUME NEW i \in 1 .. PerPacket
      PROVE  points[i] \in Shots
  <2> DEFINE kind == kinds[i]
  <2>1. kind \in ShotKinds
    BY DEF ShotKinds
  <2>2. points[i] = [of |-> lidar.packets, i |-> i, kind |-> kind] /\ i \in Nat
    BY <1>4
  <2> HIDE DEF kind
  <2> QED  BY <1>1, <2>1, <2>2 DEF Shots
<1> QED  BY <1>3, <1>5 DEF points

LEMMA WrittenFits ==
  ASSUME CaptureConstants, CaptureTyped, NEW time \in Nat, NEW kinds \in [1 .. PerPacket -> PointKinds]
  PROVE  PacketFits(RecordsWritten(Points(kinds), time), TakenFor, time,
                    Stamp(time) + Offset(lidar.kind.fw, TakenFor, PerPacket - 1))
<1>1. lidar.kind.fw \in Firmwares /\ TakenFor \in DataTypes /\ PerPacket \in Nat \ {0}
      /\ lidar.type \in DataTypes /\ lidar.day \in Nat
  BY SensorFacts
<1>2. CASE TakenFor = lidar.type
  <2> DEFINE points == Points(kinds)
  <2>2. /\ PerPacket = Len(points)
        /\ \A i \in 1 .. PerPacket : points[i] \in Shots
    BY PointsAreShots
  <2> HIDE DEF points
  <2>5. PerPacket \in 0 .. PerPacket
    BY <1>1
  <2>6. PacketFits(Records(points, TakenFor, time), TakenFor, time,
                   Stamp(time) + Offset(lidar.kind.fw, TakenFor, PerPacket - 1))
    BY <1>1, <2>2, <2>5, RecordsFit
  <2>7. RecordsWritten(points, time) = Records(points, TakenFor, time)
    BY <1>2 DEF RecordsWritten
  <2> QED  BY <2>6, <2>7 DEF points
<1>3. CASE TakenFor # lidar.type
  <2> DEFINE n == IF Reached < PerPacket THEN Reached ELSE PerPacket
             points == [i \in 1 .. n |-> Garbage]
  <2>1. Reached \in Nat
    <3> DEFINE a == PerPacket * PointSize(lidar.type)
    <3>1. \A type \in DataTypes : PointSize(type) \in {9, 10, 13, 14, 16, 28}
      BY DEF PointSize, DataTypes
    <3>2. PointSize(lidar.type) \in Nat /\ PointSize(TakenFor) \in {9, 10, 13, 14, 16, 28}
      BY <1>1, <3>1
    <3>3. a \in Nat
      BY <1>1, <3>2
    <3> HIDE DEF a
    <3>4. /\ a \div 9 \in Nat /\ a \div 10 \in Nat /\ a \div 13 \in Nat
          /\ a \div 14 \in Nat /\ a \div 16 \in Nat /\ a \div 28 \in Nat
      BY <3>3
    <3>5. a \div PointSize(TakenFor) \in Nat
      BY <3>2, <3>4
    <3> QED  BY <3>5 DEF Reached, a
  <2>2. n \in 0 .. PerPacket /\ n \in Nat
    BY <1>1, <2>1
  <2> HIDE DEF n
  <2>3. /\ Len(points) = n
        /\ \A i \in 1 .. n : points[i] = Garbage
    BY <2>2
  <2> HIDE DEF points
  <2>4. \A i \in 1 .. n : points[i] \in Shots
    BY <2>3, GarbageIsShot
  <2>5. PacketFits(Records(points, TakenFor, time), TakenFor, time,
                   Stamp(time) + Offset(lidar.kind.fw, TakenFor, PerPacket - 1))
    BY <1>1, <2>2, <2>3, <2>4, RecordsFit
  <2>6. RecordsWritten(Points(kinds), time) = Records(points, TakenFor, time)
    BY <1>3 DEF RecordsWritten, points, n
  <2> QED  BY <2>5, <2>6
<1> QED  BY <1>2, <1>3

LEMMA InitCapture ==
  ASSUME CaptureConstants, CaptureInit
  PROVE  CaptureInv
<1>0. PICK kind \in Sensors, day \in Days :
        \E type \in kind.types :
          lidar = [kind |-> kind, type |-> type, clock |-> 0, day |-> day, packets |-> 0,
                   switched |-> FALSE]
  BY DEF CaptureInit
<1>1. PICK type \in kind.types :
        lidar = [kind |-> kind, type |-> type, clock |-> 0, day |-> day, packets |-> 0,
                 switched |-> FALSE]
  BY <1>0
<1>2. type \in DataTypes /\ day \in Nat /\ 0 \in 0 .. MaxSamples
  <2>1. type \in DataTypes
    BY <1>1 DEF CaptureConstants
  <2>2. day \in Nat /\ MaxSamples \in Nat
    BY DEF CaptureConstants
  <2> QED  BY <2>1, <2>2
<1>3. /\ file = NoFile /\ due = <<>>
      /\ thread = [at |-> "idle", stopped |-> FALSE, steady |-> TRUE, type |-> 0,
                   asked |-> 0, began |-> 0, start |-> 0, now |-> 0, polled |-> TRUE,
                   wait |-> 0, duration |-> 0, imu |-> 0]
      /\ table = [kind |-> "none", rows |-> <<>>, imu |-> 0, deleted |-> FALSE]
  BY DEF CaptureInit
<1>4. file \in Files /\ Len(file.recs) = 0 /\ file.fw = 1 /\ file.type = 0
  BY <1>3, GarbageIsShot DEF NoFile, Files, Firmwares, DataTypes
<1>5. CaptureTyped
  BY <1>1, <1>2, <1>3, <1>4 DEF CaptureTyped, DataTypes
<1>6. HeaderFits /\ TableFits
  BY <1>3, <1>4 DEF HeaderFits, TableFits
<1> QED  BY <1>5, <1>6 DEF CaptureInv

(* The actions that leave the file and the table.                           *)
LEMMA SwitchKeeps ==
  ASSUME CaptureConstants, CaptureInv, Switch
  PROVE  CaptureInv'
<1> USE DEF CaptureInv
<1>1. PICK type \in lidar.kind.types : lidar' = [lidar EXCEPT !.type = type, !.switched = TRUE]
  BY DEF Switch
<1>2. UNCHANGED <<thread, file, due, table>>
  BY DEF Switch
<1>3. type \in DataTypes
  BY <1>1, SensorFacts
<1>4. lidar' \in [kind : Sensors, type : DataTypes, clock : Nat, day : Nat, packets : Nat, switched : BOOLEAN]
      /\ lidar'.kind = lidar.kind /\ lidar'.type = type /\ lidar'.clock = lidar.clock
  BY <1>1, <1>3 DEF CaptureTyped
<1>5. CaptureTyped'
  BY <1>1, <1>2, <1>4 DEF CaptureTyped
<1>6. HeaderFits'
  BY <1>2, <1>4 DEF HeaderFits
<1>7. TableFits'
  BY <1>2 DEF TableFits
<1> QED  BY <1>5, <1>6, <1>7

LEMMA SaveDataToFileKeeps ==
  ASSUME CaptureConstants, CaptureInv, SaveDataToFile
  PROVE  CaptureInv'
<1> USE DEF CaptureInv
<1>1. PICK wait \in Waits, duration \in Durations :
        thread' = [thread EXCEPT !.at = "consumes", !.wait = wait, !.duration = duration]
  BY DEF SaveDataToFile
<1>2. thread.at = "idle" /\ UNCHANGED <<lidar, file, due, table>>
  BY DEF SaveDataToFile
<1>3. wait \in Nat /\ duration \in Nat
  BY DEF CaptureConstants
<1>4. CaptureTyped'
  BY <1>1, <1>2, <1>3 DEF CaptureTyped
<1>5. thread'.at = "consumes"
  BY <1>1 DEF CaptureTyped
<1>7. HeaderFits'
  BY <1>2, <1>5 DEF HeaderFits
<1>8. TableFits'
  BY <1>2 DEF TableFits
<1> QED  BY <1>4, <1>7, <1>8

LEMMA DurationOverKeeps ==
  ASSUME CaptureConstants, CaptureInv, DurationOver
  PROVE  CaptureInv'
<1> USE DEF CaptureInv
<1>1. /\ thread.at = "writes" /\ thread' = [thread EXCEPT !.at = "closed"]
      /\ UNCHANGED <<lidar, file, due, table>>
  BY DEF DurationOver
<1>2. CaptureTyped'
  BY <1>1 DEF CaptureTyped
<1>3. thread'.at = "closed"
  BY <1>1 DEF CaptureTyped
<1>4. HeaderFits'
  BY <1>1, <1>3 DEF HeaderFits
<1>5. TableFits'
  BY <1>1 DEF TableFits
<1> QED  BY <1>2, <1>4, <1>5

LEMMA HeadedFits ==
  ASSUME CaptureConstants, CaptureInv, thread.type \in lidar.kind.types
  PROVE  /\ Headed \in Files /\ Len(Headed.recs) = 0 /\ Headed.headed /\ Headed.rest = 0
         /\ Headed.fw = lidar.kind.fw /\ Headed.type = thread.type
         /\ Numbered(Headed.fw) => Headed.type \in {0, 1}
<1>1. /\ lidar.kind.fw \in Firmwares /\ thread.type \in DataTypes
      /\ Numbered(lidar.kind.fw) => thread.type \in {0, 1}
  BY SensorFacts DEF CaptureInv
<1>2. /\ NoFile \in Files /\ NoFile.rest = 0 /\ Len(NoFile.recs) = 0
  <2>1. <<>> \in Seq(FileRecords) /\ Len(<<>>) = 0
    BY EmptySeq
  <2> QED  BY <2>1, GarbageIsShot DEF NoFile, Files, Firmwares, DataTypes
<1>3. Headed = [NoFile EXCEPT !.fw = lidar.kind.fw, !.type = thread.type, !.headed = TRUE]
  BY DEF Headed
<1>4. /\ Headed \in Files /\ Headed.fw = lidar.kind.fw /\ Headed.type = thread.type
      /\ Headed.headed /\ Headed.rest = NoFile.rest /\ Headed.recs = NoFile.recs
  BY <1>1, <1>2, <1>3 DEF Files
<1> QED  BY <1>1, <1>2, <1>4

LEMMA CloseKeeps ==
  ASSUME CaptureConstants, CaptureInv, Close
  PROVE  CaptureInv'
<1> USE DEF CaptureInv
<1>1. /\ thread.at \in {"delays", "writes"} /\ thread' = [thread EXCEPT !.at = "closed", !.stopped = TRUE]
      /\ file' = IF thread.at = "delays" THEN Headed ELSE file
      /\ UNCHANGED <<lidar, due, table>>
  BY DEF Close
<1>2. thread'.at = "closed"
  BY <1>1 DEF CaptureTyped
<1>3. /\ Headed \in Files /\ Len(Headed.recs) = 0
      /\ Numbered(Headed.fw) => Headed.type \in {0, 1}
  BY <1>1, HeadedFits DEF HeaderFits
<1>4. CaptureTyped'
  BY <1>1, <1>3 DEF CaptureTyped
<1>5. HeaderFits'
  <2>1. Numbered(file'.fw) => file'.type \in {0, 1}
    BY <1>1, <1>3 DEF HeaderFits
  <2> QED  BY <1>2, <2>1 DEF HeaderFits
<1>6. TableFits'
  BY <1>1 DEF TableFits, HeaderFits, CaptureTyped
<1> QED  BY <1>4, <1>5, <1>6

LEMMA ConsumeKeeps ==
  ASSUME CaptureConstants, CaptureInv, Consume
  PROVE  CaptureInv'
<1> USE DEF CaptureInv
<1>1. PICK time \in Times, next \in {"delays", "refused"} :
        /\ Arrives(time)
        /\ thread' = [thread EXCEPT !.at = next, !.type = lidar.type, !.asked = time,
                        !.began = time, !.start = Stamp(time), !.now = Stamp(time)]
  BY DEF Consume
<1>2. thread.at = "consumes" /\ UNCHANGED <<file, due, table>>
  BY DEF Consume
<1>3. /\ time \in Nat
      /\ lidar' \in [kind : Sensors, type : DataTypes, clock : Nat, day : Nat, packets : Nat, switched : BOOLEAN]
      /\ lidar'.kind = lidar.kind /\ lidar'.type = lidar.type
  BY <1>1, Arrived
<1>4. lidar.type \in DataTypes /\ lidar.type \in lidar.kind.types /\ Stamp(time) \in Nat
  BY <1>3, SensorFacts, StampsKeepPace DEF CaptureTyped
<1> DEFINE stamp == Stamp(time)
<1>5. CaptureTyped'
  <2>1. thread' = [thread EXCEPT !.at = next, !.type = lidar.type, !.asked = time,
                     !.began = time, !.start = stamp, !.now = stamp]
    BY <1>1
  <2>2. stamp \in Nat
    BY <1>4
  <2> HIDE DEF stamp
  <2> QED  BY <1>2, <1>3, <1>4, <2>1, <2>2 DEF CaptureTyped
<1>6. thread'.at = next /\ thread'.type = lidar.type
  BY <1>1 DEF CaptureTyped
<1>7. HeaderFits'
  BY <1>2, <1>3, <1>4, <1>6 DEF HeaderFits
<1>8. TableFits'
  BY <1>2 DEF TableFits
<1> QED  BY <1>5, <1>7, <1>8

LEMMA DelayKeeps ==
  ASSUME CaptureConstants, CaptureInv, Delay
  PROVE  CaptureInv'
<1> USE DEF CaptureInv
<1>1. PICK time \in Times :
        /\ Arrives(time)
        /\ IF Stamp(time) - thread.start > thread.wait
             THEN /\ thread' = [thread EXCEPT !.at = "writes", !.began = time,
                                  !.start = Stamp(time), !.now = Stamp(time)]
                  /\ file' = Headed
             ELSE /\ thread' = [thread EXCEPT !.now = Stamp(time)]
                  /\ UNCHANGED file
  BY DEF Delay
<1>2. thread.at = "delays" /\ UNCHANGED <<due, table>>
  BY DEF Delay
<1> DEFINE stamp == Stamp(time)
<1>3. /\ time \in Nat
      /\ lidar' \in [kind : Sensors, type : DataTypes, clock : Nat, day : Nat, packets : Nat, switched : BOOLEAN]
      /\ lidar'.kind = lidar.kind /\ lidar'.type = lidar.type
  BY <1>1, Arrived
<1>4. /\ Headed \in Files /\ Headed.headed /\ Headed.rest = 0
      /\ Headed.fw = lidar.kind.fw /\ Headed.type = thread.type
      /\ Numbered(Headed.fw) => Headed.type \in {0, 1}
  BY <1>2, HeadedFits DEF HeaderFits
<1>5. stamp \in Nat
  BY <1>3, SensorFacts, StampsKeepPace
<1>6. TableFits'
  BY <1>2 DEF TableFits, HeaderFits, CaptureTyped
<1>7. CASE stamp - thread.start > thread.wait
  <2>1. /\ thread' = [thread EXCEPT !.at = "writes", !.began = time, !.start = stamp, !.now = stamp]
        /\ file' = Headed
    BY <1>1, <1>7
  <2> HIDE DEF stamp
  <2>2. thread'.at = "writes" /\ thread'.type = thread.type
    BY <2>1 DEF CaptureTyped
  <2>3. CaptureTyped'
    BY <1>2, <1>3, <1>4, <1>5, <2>1 DEF CaptureTyped
  <2>4. HeaderFits'
    BY <1>2, <1>3, <1>4, <2>1, <2>2 DEF HeaderFits
  <2> QED  BY <1>6, <2>3, <2>4
<1>8. CASE ~(stamp - thread.start > thread.wait)
  <2>1. thread' = [thread EXCEPT !.now = stamp] /\ UNCHANGED file
    BY <1>1, <1>8
  <2> HIDE DEF stamp
  <2>2. thread'.at = "delays" /\ thread'.type = thread.type
    BY <1>2, <2>1 DEF CaptureTyped
  <2>3. CaptureTyped'
    BY <1>2, <1>3, <1>5, <2>1 DEF CaptureTyped
  <2>4. HeaderFits'
    BY <1>2, <1>3, <2>1, <2>2 DEF HeaderFits
  <2> QED  BY <1>6, <2>3, <2>4
<1> QED  BY <1>7, <1>8

LEMMA ReadImuKeeps ==
  ASSUME CaptureConstants, CaptureInv, ReadImu
  PROVE  CaptureInv'
<1> USE DEF CaptureInv
<1>1. thread.at = "writes" /\ thread.imu < MaxSamples /\ UNCHANGED <<lidar, file, due, table>>
  BY DEF ReadImu
<1>2. PICK age \in Ages :
        /\ lidar.clock + PacketSpan - age >= 0
        /\ thread' = [thread EXCEPT !.now = Stamp(lidar.clock + PacketSpan - age),
                         !.imu = @ + 1, !.polled = TRUE]
  BY DEF ReadImu
<1> DEFINE taken == lidar.clock + PacketSpan - age
           stamp == Stamp(taken)
           count == thread.imu + 1
<1>3. taken \in Nat
  BY <1>2, SensorFacts DEF CaptureConstants
<1>4. stamp \in Nat
  <2> HIDE DEF taken
  <2> QED  BY <1>3, SensorFacts, StampsKeepPace
<1>5. count \in 0 .. MaxSamples
  BY <1>1 DEF CaptureTyped, CaptureConstants
<1>6. thread' = [thread EXCEPT !.now = stamp, !.imu = count, !.polled = TRUE]
  BY <1>2
<1> HIDE DEF stamp, count, taken
<1>7. CaptureTyped'
  BY <1>1, <1>4, <1>5, <1>6 DEF CaptureTyped
<1>8. thread'.at = thread.at /\ thread'.type = thread.type
  BY <1>6 DEF CaptureTyped
<1>9. HeaderFits'
  BY <1>1, <1>8 DEF HeaderFits
<1>10. TableFits'
  BY <1>1 DEF TableFits
<1> QED  BY <1>7, <1>9, <1>10

(* The packet that WritePoints adds to the file.                            *)
LEMMA PacketIsWritten ==
  ASSUME CaptureConstants, CaptureTyped, WritePoints
  PROVE  \E time \in Times, new \in Seq(FileRecords), end \in Nat :
           /\ Arrives(time) /\ PacketFits(new, TakenFor, time, end)
           /\ end = Stamp(time) + Offset(lidar.kind.fw, TakenFor, PerPacket - 1)
           /\ file' \in Files /\ file'.recs = file.recs \o new
           /\ file'.fw = file.fw /\ file'.type = file.type
           /\ file'.headed = file.headed /\ file'.rest = file.rest
           /\ thread' \in [at : {"writes", "died"}, stopped : BOOLEAN, steady : BOOLEAN,
                            type : DataTypes, asked : Nat, began : Nat, start : Nat, now : Nat,
                            polled : BOOLEAN, wait : Nat, duration : Nat, imu : 0 .. MaxSamples]
           /\ thread' = [thread EXCEPT !.at = thread'.at, !.now = end, !.polled = FALSE,
                            !.steady = thread'.steady]
<1>1. thread.at = "writes"
  BY DEF WritePoints
<1>2. PICK time \in Times, kinds \in [1 .. PerPacket -> PointKinds] :
        /\ Arrives(time)
        /\ file' = [file EXCEPT !.recs = @ \o RecordsWritten(Points(kinds), time)]
        /\ thread' = [thread EXCEPT
             !.at = IF Reached < PerPacket THEN "died" ELSE @,
             !.now = Stamp(time) + Offset(lidar.kind.fw, TakenFor, PerPacket - 1),
             !.polled = FALSE,
             !.steady = @ /\ lidar.type = thread.type]
  BY DEF WritePoints
<1> DEFINE new == RecordsWritten(Points(kinds), time)
           end == Stamp(time) + Offset(lidar.kind.fw, TakenFor, PerPacket - 1)
           recs == file.recs
<1>3. time \in Nat
  BY <1>2, Arrived
<1>4. PacketFits(new, TakenFor, time, end)
  BY <1>3, WrittenFits
<1>5. end \in Nat
  <2> DEFINE stamp == Stamp(time)
             offset == Offset(lidar.kind.fw, TakenFor, PerPacket - 1)
  <2>1. stamp \in Nat
    BY <1>3, SensorFacts, StampsKeepPace
  <2>2. offset \in Nat
    <3>1. PerPacket - 1 \in Nat
      BY SensorFacts
    <3> QED  BY <3>1, SensorFacts, OffsetsRise
  <2> HIDE DEF stamp, offset
  <2>3. stamp + offset \in Nat
    BY <2>1, <2>2
  <2> QED  BY <2>3 DEF stamp, offset
<1>6. file' = [file EXCEPT !.recs = recs \o new] /\ file \in Files /\ recs \in Seq(FileRecords)
  BY <1>2 DEF CaptureTyped, Files
<1>7. new \in Seq(FileRecords)
  BY <1>4 DEF PacketFits
<1>8. recs \o new \in Seq(FileRecords)
  <2> HIDE DEF new, recs
  <2> QED  BY <1>6, <1>7, ConcatProperties
<1>9. /\ file' \in Files /\ file'.recs = recs \o new /\ file'.fw = file.fw /\ file'.type = file.type
      /\ file'.headed = file.headed /\ file'.rest = file.rest
  <2> HIDE DEF new
  <2> QED  BY <1>6, <1>8 DEF Files
<1>10. /\ thread' \in [at : {"writes", "died"}, stopped : BOOLEAN, steady : BOOLEAN,
                        type : DataTypes, asked : Nat, began : Nat, start : Nat, now : Nat,
                        polled : BOOLEAN, wait : Nat, duration : Nat, imu : 0 .. MaxSamples]
       /\ thread' = [thread EXCEPT !.at = thread'.at, !.now = end, !.polled = FALSE,
                        !.steady = thread'.steady]
  <2> DEFINE at == IF Reached < PerPacket THEN "died" ELSE thread.at
             steady == thread.steady /\ lidar.type = thread.type
  <2>1. thread' = [thread EXCEPT !.at = at, !.now = end, !.polled = FALSE, !.steady = steady]
    BY <1>2
  <2>2. at \in {"writes", "died"}
    BY <1>1
  <2>3. steady \in BOOLEAN
    OBVIOUS
  <2> HIDE DEF at, end, steady
  <2>4. thread'.at = at /\ thread'.steady = steady
    BY <2>1 DEF CaptureTyped
  <2>5. thread' \in [at : {"writes", "died"}, stopped : BOOLEAN, steady : BOOLEAN,
                     type : DataTypes, asked : Nat, began : Nat, start : Nat, now : Nat,
                     polled : BOOLEAN, wait : Nat, duration : Nat, imu : 0 .. MaxSamples]
    BY <1>5, <2>1, <2>2, <2>3 DEF CaptureTyped
  <2> QED  BY <2>1, <2>4, <2>5
<1>11. end = Stamp(time) + Offset(lidar.kind.fw, TakenFor, PerPacket - 1)
  OBVIOUS
<1>12. Arrives(time)
  BY <1>2
<1> HIDE DEF new, end, recs
<1> DEFINE PacketWritten(t, n, e) ==
      /\ Arrives(t) /\ PacketFits(n, TakenFor, t, e)
      /\ e = Stamp(t) + Offset(lidar.kind.fw, TakenFor, PerPacket - 1)
      /\ file' \in Files /\ file'.recs = file.recs \o n
      /\ file'.fw = file.fw /\ file'.type = file.type
      /\ file'.headed = file.headed /\ file'.rest = file.rest
      /\ thread' \in [at : {"writes", "died"}, stopped : BOOLEAN, steady : BOOLEAN,
                       type : DataTypes, asked : Nat, began : Nat, start : Nat, now : Nat,
                       polled : BOOLEAN, wait : Nat, duration : Nat, imu : 0 .. MaxSamples]
      /\ thread' = [thread EXCEPT !.at = thread'.at, !.now = e, !.polled = FALSE,
                       !.steady = thread'.steady]
<1>13. PacketWritten(time, new, end)
  BY <1>4, <1>9, <1>10, <1>11, <1>12, Zenon DEF recs
<1>14. \E t \in Times, n \in Seq(FileRecords), e \in Nat : PacketWritten(t, n, e)
  <2> HIDE DEF PacketWritten
  <2> QED  BY <1>5, <1>7, <1>13
<1> QED  BY <1>14

LEMMA WritePointsKeeps ==
  ASSUME CaptureConstants, CaptureInv, WritePoints
  PROVE  CaptureInv'
<1> USE DEF CaptureInv
<1>1. thread.at = "writes" /\ UNCHANGED table
  BY DEF WritePoints
<1>2. PICK time \in Times, new \in Seq(FileRecords), end \in Nat :
        /\ Arrives(time)
        /\ file' \in Files /\ file'.fw = file.fw /\ file'.type = file.type
        /\ file'.headed = file.headed /\ file'.rest = file.rest
        /\ thread' \in [at : {"writes", "died"}, stopped : BOOLEAN, steady : BOOLEAN,
                         type : DataTypes, asked : Nat, began : Nat, start : Nat, now : Nat,
                         polled : BOOLEAN, wait : Nat, duration : Nat, imu : 0 .. MaxSamples]
        /\ thread' = [thread EXCEPT !.at = thread'.at, !.now = end, !.polled = FALSE,
                         !.steady = thread'.steady]
  BY PacketIsWritten
<1>3. /\ lidar' \in [kind : Sensors, type : DataTypes, clock : Nat, day : Nat, packets : Nat, switched : BOOLEAN]
      /\ lidar'.kind = lidar.kind /\ lidar'.type = lidar.type
  BY <1>2, Arrived
<1>4. thread'.at \in {"writes", "died"} /\ thread'.type = thread.type
  BY <1>2 DEF CaptureTyped
<1>5. CaptureTyped'
  <2>1. thread'.at \in {"idle", "consumes", "delays", "writes", "closed", "refused", "died", "crashed"}
    BY <1>4
  <2>2. thread' \in [at : {"idle", "consumes", "delays", "writes", "closed", "refused", "died", "crashed"},
                     stopped : BOOLEAN, steady : BOOLEAN, type : DataTypes, asked : Nat, began : Nat,
                     start : Nat, now : Nat, polled : BOOLEAN, wait : Nat, duration : Nat,
                     imu : 0 .. MaxSamples]
    BY <1>2, <2>1
  <2> QED  BY <1>1, <1>2, <1>3, <2>2 DEF CaptureTyped
<1>6. HeaderFits'
  BY <1>1, <1>2, <1>3, <1>4 DEF HeaderFits
<1>7. TableFits'
  BY <1>1 DEF TableFits, HeaderFits
<1> QED  BY <1>5, <1>6, <1>7

LEMMA SizeIsPositive ==
  ASSUME NEW fw
  PROVE  \A type \in DataTypes : RecordSize(fw, type) \in Nat \ {0}
<1>1. \A type \in DataTypes : PointSize(type) \in 9 .. 28
  BY DEF PointSize, DataTypes
<1> QED  BY <1>1 DEF RecordSize

(* What a crash leaves are the first records of the file.                   *)
LEMMA CrashCuts ==
  ASSUME CaptureConstants, CaptureTyped, Crash
  PROVE  /\ file' \in Files /\ file'.fw = file.fw /\ file'.type = file.type
         /\ Len(file.recs) \in Nat /\ Len(file'.recs) \in 0 .. Len(file.recs)
         /\ \A k \in 1 .. Len(file'.recs) : file'.recs[k] = file.recs[k]
<1> DEFINE recs == file.recs
<1>4. recs \in Seq(FileRecords) /\ file \in Files /\ Len(recs) \in Nat
      /\ \A k \in 1 .. Len(recs) : recs[k] \in FileRecords
  <2>1. recs \in Seq(FileRecords) /\ file \in Files
    BY DEF CaptureTyped, Files
  <2> HIDE DEF recs
  <2> QED  BY <2>1, LenProperties, ElementOfSeq
<1>5. /\ file' \in Files /\ file'.fw = file.fw /\ file'.type = file.type
      /\ Len(file'.recs) \in 0 .. Len(recs)
      /\ \A k \in 1 .. Len(file'.recs) : file'.recs[k] = recs[k]
  <2>1. CASE file' = [file EXCEPT !.headed = FALSE]
    <3>1. file' \in Files /\ file'.fw = file.fw /\ file'.type = file.type /\ file'.recs = recs
      BY <1>4, <2>1 DEF Files
    <3> HIDE DEF recs
    <3> QED  BY <1>4, <3>1
  <2>2. CASE \E n \in 0 .. Len(file.recs) :
               \E rest \in IF n = Len(file.recs) THEN {0}
                           ELSE {0, 3, 4, RecordSize(file.fw, file.recs[n + 1].type) - 1} :
                 file' = [file EXCEPT !.recs = SubSeq(@, 1, n), !.rest = rest,
                            !.last = IF rest = 0 THEN Garbage ELSE file.recs[n + 1].point]
    <3>1. PICK n \in 0 .. Len(file.recs) :
               \E rest \in IF n = Len(file.recs) THEN {0}
                           ELSE {0, 3, 4, RecordSize(file.fw, file.recs[n + 1].type) - 1} :
                 file' = [file EXCEPT !.recs = SubSeq(@, 1, n), !.rest = rest,
                            !.last = IF rest = 0 THEN Garbage ELSE file.recs[n + 1].point]
      BY <2>2
    <3>2. PICK rest \in IF n = Len(file.recs) THEN {0}
                        ELSE {0, 3, 4, RecordSize(file.fw, file.recs[n + 1].type) - 1} :
                 file' = [file EXCEPT !.recs = SubSeq(@, 1, n), !.rest = rest,
                            !.last = IF rest = 0 THEN Garbage ELSE file.recs[n + 1].point]
      BY <3>1
    <3> DEFINE head == SubSeq(recs, 1, n)
               cut == IF rest = 0 THEN Garbage ELSE recs[n + 1].point
    <3>3. n # Len(recs) => recs[n + 1] \in FileRecords
      <4> HIDE DEF recs
      <4> SUFFICES ASSUME n # Len(recs)
                   PROVE  recs[n + 1] \in FileRecords
        OBVIOUS
      <4>1. n \in 0 .. Len(recs)
        BY <3>1 DEF recs
      <4>2. n + 1 \in 1 .. Len(recs)
        BY <1>4, <4>1
      <4> QED  BY <1>4, <4>2
    <3>4. rest \in Nat
      <4>1. CASE n = Len(recs)
        BY <3>2, <4>1
      <4>2. CASE n # Len(recs)
        <5> DEFINE z == RecordSize(file.fw, recs[n + 1].type)
        <5>1. \A type \in DataTypes : RecordSize(file.fw, type) \in Nat \ {0}
          BY SizeIsPositive
        <5>2. recs[n + 1].type \in DataTypes
          BY <3>3, <4>2 DEF FileRecords
        <5>3. z \in Nat \ {0}
          BY <5>1, <5>2
        <5>4. rest \in {0, 3, 4, z - 1}
          BY <3>2, <4>2
        <5> HIDE DEF z
        <5> QED  BY <5>3, <5>4
      <4> QED  BY <4>1, <4>2
    <3>5. cut \in Shots
      <4>1. CASE rest = 0
        BY <4>1, GarbageIsShot
      <4>2. CASE rest # 0
        <5>1. n # Len(recs)
          BY <3>2, <4>2
        <5>2. recs[n + 1].point \in Shots
          BY <3>3, <5>1 DEF FileRecords
        <5> QED  BY <4>2, <5>2
      <4> QED  BY <4>1, <4>2
    <3>6. head \in Seq(FileRecords) /\ Len(head) = n /\ \A k \in 1 .. n : head[k] = recs[k]
      <4>1. n \in 0 .. Len(recs)
        OBVIOUS
      <4> HIDE DEF recs
      <4>2. \A k \in 1 .. n : k \in 1 .. Len(recs) /\ recs[k] \in FileRecords
        BY <1>4, <4>1
      <4> QED  BY <1>4, <4>1, <4>2, SubSeqProperties
    <3>7. file' = [file EXCEPT !.recs = head, !.rest = rest, !.last = cut]
      BY <3>2
    <3> HIDE DEF head, cut
    <3>8. file' \in Files /\ file'.fw = file.fw /\ file'.type = file.type /\ file'.recs = head
      BY <1>4, <3>4, <3>5, <3>6, <3>7 DEF Files
    <3> HIDE DEF recs
    <3>9. n \in 0 .. Len(recs)
      BY <3>1 DEF recs
    <3> QED  BY <3>6, <3>8, <3>9
  <2> QED  BY <2>1, <2>2 DEF Crash
<1> QED  BY <1>4, <1>5

LEMMA CrashKeeps ==
  ASSUME CaptureConstants, CaptureInv, Crash
  PROVE  CaptureInv'
<1> USE DEF CaptureInv
<1>1. /\ thread.at = "writes" /\ thread' = [thread EXCEPT !.at = "crashed"]
      /\ UNCHANGED <<lidar, due, table>>
  BY DEF Crash
<1>2. file' \in Files /\ file'.fw = file.fw /\ file'.type = file.type
  BY CrashCuts
<1>3. CaptureTyped' /\ thread'.at = "crashed"
  BY <1>1, <1>2 DEF CaptureTyped
<1>4. HeaderFits'
  BY <1>1, <1>2, <1>3 DEF HeaderFits
<1>5. TableFits'
  BY <1>1 DEF HeaderFits, TableFits
<1> QED  BY <1>3, <1>4, <1>5

LEMMA FileIsReadable ==
  ASSUME CaptureInv
  PROVE  Readable(file)
<1> QED  BY DEF CaptureInv, CaptureTyped, HeaderFits, Readable

LEMMA RowsAreTableRows ==
  ASSUME NEW f, Readable(f)
  PROVE  WholeRows(f) \in Seq(TableRows) /\ CsvRows(f) \in Seq(TableRows)
<1> DEFINE clipped == [point |-> f.last, return |-> 0]
<1>1. WholeRows(f) \in Seq(TableRows)
  <2>1. \A s \in Seq(WholeTableRows) : s \in Seq(TableRows)
    <3>1. WholeTableRows \subseteq TableRows
      BY DEF WholeTableRows, TableRows
    <3> QED  BY <3>1
  <2> QED  BY <2>1, WholeRowsAreWhole
<1>2. <<clipped>> \in Seq(TableRows) /\ <<>> \in Seq(TableRows)
  <2>1. f.last \in Shots
    BY DEF Readable, Files
  <2>2. clipped \in TableRows
    BY <2>1 DEF TableRows
  <2> QED  BY <2>2, EmptySeq
<1> HIDE DEF clipped
<1>3. CsvRows(f) = WholeRows(f) \o <<clipped>> \/ CsvRows(f) = WholeRows(f) \o <<>>
  BY DEF CsvRows, clipped
<1>4. WholeRows(f) \o <<clipped>> \in Seq(TableRows) /\ WholeRows(f) \o <<>> \in Seq(TableRows)
  BY <1>1, <1>2, ConcatProperties
<1> QED  BY <1>1, <1>3, <1>4

LEMMA ConvertToCsvKeeps ==
  ASSUME CaptureConstants, CaptureInv, ConvertToCsv
  PROVE  CaptureInv'
<1>1. Ended /\ UNCHANGED <<lidar, thread, file, due>>
  BY DEF ConvertToCsv
<1>2. CASE table' = [kind |-> "csv", rows |-> CsvRows(file), imu |-> thread.imu, deleted |-> TRUE]
  <2>1. CsvRows(file) \in Seq(TableRows)
    BY FileIsReadable, RowsAreTableRows
  <2>2. CaptureTyped'
    BY <1>1, <1>2, <2>1 DEF CaptureInv, CaptureTyped
  <2>3. HeaderFits' /\ TableFits'
    BY <1>1, <1>2 DEF CaptureInv, HeaderFits, TableFits, Ended
  <2> QED  BY <2>2, <2>3 DEF CaptureInv
<1>3. CASE table' = NotConverted(0)
  <2>1. CaptureTyped'
    BY <1>1, <1>3 DEF CaptureInv, CaptureTyped, NotConverted
  <2>2. HeaderFits' /\ TableFits'
    BY <1>1, <1>3 DEF CaptureInv, CaptureTyped, HeaderFits, TableFits, Ended, NotConverted
  <2> QED  BY <2>1, <2>2 DEF CaptureInv
<1> QED  BY <1>2, <1>3 DEF ConvertToCsv

LEMMA ConvertToLasKeeps ==
  ASSUME CaptureConstants, CaptureInv, ConvertToLas
  PROVE  CaptureInv'
<1>1. Ended /\ UNCHANGED <<lidar, thread, file, due>>
  BY DEF ConvertToLas
<1>2. CASE /\ LasSucceeds(file)
           /\ table' = [kind |-> "las", rows |-> LasRows(file), imu |-> thread.imu, deleted |-> TRUE]
  <2>1. CsvRows(file) \in Seq(TableRows) /\ LasRows(file) = CsvRows(file)
    BY <1>2, FileIsReadable, RowsAreTableRows, LasRowsAreCsvRows
  <2>2. CaptureTyped'
    BY <1>1, <1>2, <2>1 DEF CaptureInv, CaptureTyped
  <2>3. HeaderFits'
    BY <1>1, <1>2 DEF CaptureInv, HeaderFits, Ended
  <2>4. TableFits'
    <3>1. UNCHANGED file
      BY <1>1
    <3> QED  BY <1>2, <2>1, <3>1 DEF TableFits
  <2> QED  BY <2>2, <2>3, <2>4 DEF CaptureInv
<1>3. ASSUME NEW imu \in Nat, table' = NotConverted(imu)
      PROVE  CaptureInv'
  <2>1. CaptureTyped'
    BY <1>1, <1>3 DEF CaptureInv, CaptureTyped, NotConverted
  <2>2. HeaderFits' /\ TableFits'
    BY <1>1, <1>3 DEF CaptureInv, CaptureTyped, HeaderFits, TableFits, Ended, NotConverted
  <2> QED  BY <2>1, <2>2 DEF CaptureInv
<1>4. \/ \E imu \in Nat : table' = NotConverted(imu)
      \/ /\ LasSucceeds(file)
         /\ table' = [kind |-> "las", rows |-> LasRows(file), imu |-> thread.imu, deleted |-> TRUE]
  <2>1. thread.imu \in Nat /\ 0 \in Nat
    BY DEF CaptureInv, CaptureTyped
  <2>2. CASE ~file.headed
    BY <2>1, <2>2 DEF ConvertToLas
  <2>3. CASE file.headed /\ ~LasTakes(file)
    BY <2>1, <2>3 DEF ConvertToLas
  <2>4. CASE file.headed /\ LasTakes(file) /\ ~LasSucceeds(file)
    BY <2>1, <2>4 DEF ConvertToLas
  <2>5. CASE file.headed /\ LasTakes(file) /\ LasSucceeds(file)
    BY <2>5 DEF ConvertToLas
  <2> QED  BY <2>2, <2>3, <2>4, <2>5
<1> QED  BY <1>2, <1>3, <1>4

LEMMA CaptureStep ==
  ASSUME CaptureConstants, CaptureInv, [CaptureNext]_captureVars
  PROVE  CaptureInv'
<1>1. CASE UNCHANGED captureVars
  BY <1>1 DEF captureVars, CaptureInv, CaptureTyped, HeaderFits, TableFits
<1> QED  BY <1>1, SwitchKeeps, SaveDataToFileKeeps, CloseKeeps, ConsumeKeeps, DelayKeeps,
            WritePointsKeeps, ReadImuKeeps, DurationOverKeeps, CrashKeeps, ConvertToCsvKeeps, ConvertToLasKeeps DEF CaptureNext

-----------------------------------------------------------------------------
(* The hits of a file.                                                      *)

LEMMA FlatMapOne ==
  ASSUME NEW X, NEW Y, NEW g, Maker(g, X, Y), NEW x \in X
  PROVE  FlatMap(g, <<x>>) = g[x] /\ g[x] \in Seq(Y)
<1>1. <<>> \in Seq(X)
  BY EmptySeq
<1>2. FlatMap(g, Append(<<>>, x)) = FlatMap(g, <<>>) \o g[x]
  <2> DEFINE e == <<>>
  <2>1. e \in Seq(X)
    BY <1>1
  <2> HIDE DEF e
  <2>2. \A y \in X : FlatMap(g, Append(e, y)) = FlatMap(g, e) \o g[y]
    BY <2>1, FlatMapAppend
  <2> QED  BY <2>2 DEF e
<1>3. Append(<<>>, x) = <<x>>
  OBVIOUS
<1>4. g[x] \in Seq(Y)
  BY DEF Maker
<1>5. <<>> \o g[x] = g[x]
  BY <1>4, ConcatEmptySeq
<1> QED  BY <1>2, <1>3, <1>4, <1>5, FlatMapNil

(* What is made of what is made.                                            *)
Twice(g, h, X) == [x \in X |-> FlatMap(g, h[x])]

LEMMA FlatMapTwice ==
  ASSUME NEW X, NEW Y, NEW Z, NEW g, Maker(g, Y, Z), NEW h, Maker(h, X, Y), NEW s \in Seq(X)
  PROVE  /\ FlatMap(g, FlatMap(h, s)) = FlatMap(Twice(g, h, X), s)
         /\ Maker(Twice(g, h, X), X, Z)
<1> DEFINE n == Len(s)
           ss == [i \in 1 .. n |-> h[s[i]]]
           m == Mapped(g, Y)
           f == Twice(g, h, X)
<1>1. n \in Nat /\ \A i \in 1 .. n : s[i] \in X
  BY LenProperties, ElementOfSeq
<1>2. \A x \in X : h[x] \in Seq(Y)
  BY DEF Maker
<1>3. ss \in Seq(Seq(Y)) /\ Len(ss) = n
  <2>1. ss \in [1 .. n -> Seq(Y)]
    BY <1>1, <1>2
  <2> HIDE DEF n, ss
  <2>2. ss \in Seq(Seq(Y))
    BY <1>1, <2>1, SeqDef
  <2> QED  BY <1>1, <2>1, <2>2, LenProperties
<1>4. FlatMap(h, s) = FlattenSeq(ss)
  BY DEF FlatMap
<1>5. FlatMap(g, FlattenSeq(ss)) = FlatMap(m, ss)
  <2> HIDE DEF ss
  <2> QED  BY <1>3, FlatMapFlat
<1>6. FlatMap(m, ss) = FlattenSeq([i \in 1 .. n |-> m[ss[i]]])
  <2> HIDE DEF ss, m, n
  <2> QED  BY <1>3 DEF FlatMap
<1>7. FlatMap(f, s) = FlattenSeq([i \in 1 .. n |-> f[s[i]]])
  BY DEF FlatMap
<1>8. ASSUME NEW i \in 1 .. n
      PROVE  m[ss[i]] = f[s[i]]
  <2>1. ss[i] = h[s[i]] /\ s[i] \in X
    BY <1>1
  <2>2. h[s[i]] \in Seq(Y)
    BY <1>2, <2>1
  <2> HIDE DEF ss, n
  <2> QED  BY <2>1, <2>2 DEF Mapped, Twice
<1> HIDE DEF ss, m, f, n
<1>9. [i \in 1 .. n |-> m[ss[i]]] = [i \in 1 .. n |-> f[s[i]]]
  BY <1>8
<1>10. Maker(f, X, Z)
  <2>1. \A t \in Seq(Y) : FlatMap(g, t) \in Seq(Z)
    BY FlatMapAppend
  <2>2. \A x \in X : FlatMap(g, h[x]) \in Seq(Z)
    BY <1>2, <2>1
  <2> QED  BY <2>2 DEF f, Twice, Maker
<1> QED  BY <1>4, <1>5, <1>6, <1>7, <1>9, <1>10 DEF f

(* A row if it is a hit, the rows of a record, and the hits among them.     *)
HitOf == [row \in TableRows |-> Only(Numbers(row) /\ IsHit(row), row)]
RowsOf(type) ==
  [r \in FileRecords |->
     LET row == [point |-> r.point, return |-> r.return]
     IN IF type \in {4, 5} THEN <<row, [row EXCEPT !.return = 2]>> ELSE <<row>>]
HitsOf(type) == Twice(HitOf, RowsOf(type), FileRecords)
Recorded(f) == FlatMap(HitsOf(f.type), f.recs)

LEMMA HitOfMakes == Maker(HitOf, TableRows, TableRows)
<1>1. \A row \in TableRows : Only(Numbers(row) /\ IsHit(row), row) \in Seq(TableRows)
  BY EmptySeq DEF Only
<1> QED  BY <1>1 DEF Maker, HitOf

LEMMA RowsOfMakes ==
  ASSUME NEW type
  PROVE  Maker(RowsOf(type), FileRecords, TableRows)
<1> DEFINE Whole(r) == [point |-> r.point, return |-> r.return]
           Second(r) == [Whole(r) EXCEPT !.return = 2]
<1>1. ASSUME NEW r \in FileRecords
      PROVE  Whole(r) \in TableRows /\ Second(r) \in TableRows
  <2>1. r.point \in Shots /\ r.return \in 1 .. 3
    BY DEF FileRecords
  <2>2. Whole(r) \in TableRows
    BY <2>1 DEF TableRows
  <2> HIDE DEF Whole
  <2>3. Second(r) \in TableRows
    BY <2>2 DEF TableRows
  <2> QED  BY <2>2, <2>3
<1>2. RowsOf(type) = [r \in FileRecords |->
        IF type \in {4, 5} THEN <<Whole(r), Second(r)>> ELSE <<Whole(r)>>]
  BY DEF RowsOf
<1> HIDE DEF Whole, Second
<1>3. \A r \in FileRecords : <<Whole(r), Second(r)>> \in Seq(TableRows) /\ <<Whole(r)>> \in Seq(TableRows)
  BY <1>1
<1> QED  BY <1>2, <1>3 DEF Maker

LEMMA HitsAreMapped ==
  ASSUME NEW rows \in Seq(TableRows)
  PROVE  Hits(rows) = FlatMap(HitOf, rows)
<1> DEFINE n == Len(rows)
           Hit(i) == Only(Numbers(rows[i]) /\ IsHit(rows[i]), rows[i])
<1>1. \A i \in 1 .. n : rows[i] \in TableRows
  BY LenProperties, ElementOfSeq
<1>2. Hits(rows) = FlattenSeq([i \in 1 .. n |-> Hit(i)])
  BY DEF Hits
<1>3. FlatMap(HitOf, rows) = FlattenSeq([i \in 1 .. n |-> HitOf[rows[i]]])
  BY DEF FlatMap
<1> HIDE DEF n
<1>4. \A i \in 1 .. n : HitOf[rows[i]] = Hit(i)
  BY <1>1 DEF HitOf
<1> HIDE DEF Hit
<1>5. [i \in 1 .. n |-> HitOf[rows[i]]] = [i \in 1 .. n |-> Hit(i)]
  BY <1>4
<1> QED  BY <1>2, <1>3, <1>5

(* A file of one type is read record by record.                             *)
LEMMA DivOfProduct ==
  ASSUME NEW n \in Nat, NEW z \in Nat \ {0}, NEW r \in 0 .. z - 1
  PROVE  (n * z + r) \div z = n
<1> QED  OBVIOUS

LEMMA WholeRowsOfOneType ==
  ASSUME NEW f, Readable(f), \A k \in 1 .. Len(f.recs) : f.recs[k].type = f.type,
         f.rest < Stride(f)
  PROVE  WholeRows(f) = FlatMap(RowsOf(f.type), f.recs)
<1> DEFINE n == Len(f.recs)
           z == Stride(f)
<1>1. z \in 17 .. 36 /\ z = RecordSize(f.fw, f.type) /\ f.rest < z
  BY StrideIsSize
<1>2. f.rest \in Nat /\ f.recs \in Seq(FileRecords)
  BY DEF Readable, Files
<1>3. n \in Nat /\ \A k \in 1 .. n : f.recs[k] \in FileRecords
  BY <1>2, LenProperties, ElementOfSeq
<1>4. Bytes(f) = n * z + f.rest
  BY BytesOfFile
<1> HIDE DEF n, z
<1>5. Bytes(f) \div z = n
  <2>1. f.rest \in 0 .. z - 1 /\ z \in Nat \ {0}
    BY <1>1, <1>2
  <2>2. (n * z + f.rest) \div z = n
    BY <1>3, <2>1, DivOfProduct
  <2> QED  BY <1>4, <2>2
<1>6. WholeRows(f) = FlattenSeq([k \in 1 .. n |-> Rows(f, k)])
  BY <1>5 DEF WholeRows, z
<1>7. FlatMap(RowsOf(f.type), f.recs) = FlattenSeq([k \in 1 .. n |-> RowsOf(f.type)[f.recs[k]]])
  BY DEF FlatMap, n
<1>8. ASSUME NEW k \in 1 .. n
      PROVE  Rows(f, k) = RowsOf(f.type)[f.recs[k]]
  <2> DEFINE row == [point |-> f.recs[k].point, return |-> f.recs[k].return]
  <2>1. InStep(f, k)
    <3>1. \A j \in 1 .. k : RecordSize(f.fw, f.recs[j].type) = Stride(f)
      BY <1>1, <1>3 DEF n, z
    <3> QED  BY <1>3, <3>1 DEF InStep, n
  <2>2. Row(f, k) = row
    BY <2>1 DEF Row
  <2>3. RowsOf(f.type)[f.recs[k]]
          = IF f.type \in {4, 5} THEN <<row, [row EXCEPT !.return = 2]>> ELSE <<row>>
    BY <1>3 DEF RowsOf
  <2> HIDE DEF row
  <2> QED  BY <2>2, <2>3 DEF Rows
<1>9. [k \in 1 .. n |-> Rows(f, k)] = [k \in 1 .. n |-> RowsOf(f.type)[f.recs[k]]]
  BY <1>8
<1> QED  BY <1>6, <1>7, <1>9

LEMMA HitsOfFile ==
  ASSUME NEW f, Readable(f), \A k \in 1 .. Len(f.recs) : f.recs[k].type = f.type,
         f.rest < Stride(f)
  PROVE  Hits(CsvRows(f)) = Recorded(f)
<1> DEFINE whole == WholeRows(f)
           clipped == [point |-> f.last, return |-> 0]
<1>1. whole \in Seq(TableRows) /\ CsvRows(f) \in Seq(TableRows)
  BY RowsAreTableRows
<1>2. f.recs \in Seq(FileRecords) /\ f.last \in Shots
  BY DEF Readable, Files
<1>3. FlatMap(HitOf, whole) = Recorded(f)
  <2>1. whole = FlatMap(RowsOf(f.type), f.recs)
    BY WholeRowsOfOneType
  <2>2. Maker(HitOf, TableRows, TableRows) /\ Maker(RowsOf(f.type), FileRecords, TableRows)
    BY HitOfMakes, RowsOfMakes
  <2> HIDE DEF whole
  <2>3. FlatMap(HitOf, FlatMap(RowsOf(f.type), f.recs))
          = FlatMap(Twice(HitOf, RowsOf(f.type), FileRecords), f.recs)
    BY <1>2, <2>2, FlatMapTwice
  <2> QED  BY <2>1, <2>3 DEF Recorded, HitsOf
<1>4. CsvRows(f) = whole \o <<>> \/ CsvRows(f) = whole \o <<clipped>>
  BY DEF CsvRows
<1>5. clipped \in TableRows /\ HitOf[clipped] = <<>>
  <2>1. clipped \in TableRows /\ clipped.return = 0
    BY <1>2 DEF TableRows
  <2>2. ~Numbers(clipped)
    BY <2>1 DEF Numbers
  <2> HIDE DEF clipped
  <2> QED  BY <2>1, <2>2 DEF HitOf, Only
<1> HIDE DEF whole, clipped
<1>6. FlatMap(HitOf, CsvRows(f)) = FlatMap(HitOf, whole)
  <2>1. CASE CsvRows(f) = whole \o <<>>
    BY <1>1, <2>1, ConcatEmptySeq
  <2>2. CASE CsvRows(f) = whole \o <<clipped>>
    <3>1. whole \o <<clipped>> = Append(whole, clipped)
      BY <1>1, <1>5, AppendIsConcat
    <3>2. FlatMap(HitOf, Append(whole, clipped)) = FlatMap(HitOf, whole) \o HitOf[clipped]
      <4>1. \A x \in TableRows : FlatMap(HitOf, Append(whole, x)) = FlatMap(HitOf, whole) \o HitOf[x]
        <5> DEFINE hit == HitOf
        <5>1. whole \in Seq(TableRows) /\ Maker(hit, TableRows, TableRows)
          BY <1>1, HitOfMakes
        <5> HIDE DEF hit
        <5>2. \A x \in TableRows : FlatMap(hit, Append(whole, x)) = FlatMap(hit, whole) \o hit[x]
          BY <5>1, FlatMapAppend
        <5> QED  BY <5>2 DEF hit
      <4> QED  BY <1>5, <4>1
    <3>3. FlatMap(HitOf, whole) \in Seq(TableRows)
      BY <1>1, HitOfMakes, FlatMapAppend
    <3>4. FlatMap(HitOf, whole) \o <<>> = FlatMap(HitOf, whole)
      BY <3>3, ConcatEmptySeq
    <3> QED  BY <1>5, <2>2, <3>1, <3>2, <3>4
  <2> QED  BY <1>4, <2>1, <2>2
<1> QED  BY <1>1, <1>3, <1>6, HitsAreMapped

-----------------------------------------------------------------------------
(* The hits of a packet.                                                    *)

LEMMA TwoMakePair ==
  ASSUME NEW X, NEW x \in X, NEW y \in X
  PROVE  <<x>> \in Seq(X) /\ Append(<<x>>, y) = <<x, y>> /\ <<x>> \o <<y>> = <<x, y>>
<1> DEFINE s == <<x>>
           t == <<x, y>>
           u == Append(s, y)
<1>1. s \in Seq(X) /\ Len(s) = 1 /\ s[1] = x
  OBVIOUS
<1>2. t \in Seq(X) /\ Len(t) = 2 /\ t[1] = x /\ t[2] = y
  OBVIOUS
<1> HIDE DEF s, t
<1>3. /\ u \in Seq(X) /\ Len(u) = Len(s) + 1
      /\ \A i \in 1 .. Len(s) : u[i] = s[i]
      /\ u[Len(s) + 1] = y
  <2>1. s \in Seq(X)
    BY <1>1
  <2> QED  BY <2>1, AppendProperties
<1> HIDE DEF u
<1>4. Len(u) = 2 /\ u[1] = x /\ u[2] = y
  BY <1>1, <1>3
<1>5. \A i \in 1 .. 2 : u[i] = t[i]
  <2>1. \A i \in 1 .. 2 : i = 1 \/ i = 2
    OBVIOUS
  <2> QED  BY <1>2, <1>4, <2>1
<1>6. u = t
  BY <1>2, <1>3, <1>4, <1>5, SeqEqual
<1>7. u = s \o <<y>>
  BY <1>1, AppendIsConcat DEF u
<1> QED  BY <1>1, <1>6, <1>7 DEF s, t, u

Two(x, y) == <<x, y>>

LEMMA FlatMapTwo ==
  ASSUME NEW X, NEW Y, NEW g, Maker(g, X, Y)
  PROVE  \A x, y \in X : FlatMap(g, Two(x, y)) = g[x] \o g[y]
<1> SUFFICES ASSUME NEW x \in X, NEW y \in X
             PROVE  FlatMap(g, <<x, y>>) = g[x] \o g[y]
  BY DEF Two
<1> DEFINE e == <<x>>
<1>1. e \in Seq(X) /\ Append(e, y) = <<x, y>>
  BY TwoMakePair
<1>2. FlatMap(g, e) = g[x]
  BY FlatMapOne
<1> HIDE DEF e
<1>3. \A z \in X : FlatMap(g, Append(e, z)) = FlatMap(g, e) \o g[z]
  BY <1>1, FlatMapAppend
<1> QED  BY <1>1, <1>2, <1>3

LEMMA FilteredMapped ==
  ASSUME NEW X, NEW Y, NEW g, Maker(g, X, Y), NEW n \in Nat, NEW K, NEW rec, Listed(rec, n, X)
  PROVE  FlatMap(g, Filtered(K, rec, n)) = FlattenSeq([i \in 1 .. n |-> FlatMap(g, Part(K, rec, i))])
<1> DEFINE ss == [i \in 1 .. n |-> Part(K, rec, i)]
           m == Mapped(g, X)
<1>1. \A i \in 1 .. n : Part(K, rec, i) \in Seq(X)
  BY EmptySeq DEF Part, Listed
<1>2. ss \in Seq(Seq(X)) /\ Len(ss) = n
  <2>1. ss \in [1 .. n -> Seq(X)]
    BY <1>1
  <2> HIDE DEF ss
  <2>2. ss \in Seq(Seq(X))
    BY <2>1, SeqDef
  <2> QED  BY <2>1, <2>2, LenProperties
<1>3. Filtered(K, rec, n) = FlattenSeq(ss)
  BY DEF Filtered
<1>4. \A i \in 1 .. n : m[ss[i]] = FlatMap(g, Part(K, rec, i))
  BY <1>1 DEF Mapped
<1> HIDE DEF ss, m
<1>5. FlatMap(g, FlattenSeq(ss)) = FlatMap(m, ss)
  BY <1>2, FlatMapFlat DEF m
<1>6. FlatMap(m, ss) = FlattenSeq([i \in 1 .. n |-> m[ss[i]]])
  BY <1>2 DEF FlatMap
<1>7. [i \in 1 .. n |-> m[ss[i]]] = [i \in 1 .. n |-> FlatMap(g, Part(K, rec, i))]
  BY <1>4
<1> QED  BY <1>3, <1>5, <1>6, <1>7

LEMMA AllRecordsAreListed ==
  ASSUME lidar.kind.fw \in Firmwares, lidar.day \in Nat, NEW type \in DataTypes,
         NEW time \in Nat, NEW n \in Nat, NEW points, \A i \in 1 .. n : points[i] \in Shots
  PROVE  Listed(AllRecords(points, type, time, n), n, FileRecords)
<1> DEFINE fw == lidar.kind.fw
           rec == AllRecords(points, type, time, n)
<1>1. \A i \in Nat : Offset(fw, type, i) \in Nat
  BY OffsetsRise
<1>2. ASSUME NEW i \in 1 .. n
      PROVE  rec[i] \in FileRecords
  <2> DEFINE t == Stamp(time) + Offset(fw, type, i - 1)
  <2>1. i - 1 \in Nat
    OBVIOUS
  <2>2. Offset(fw, type, i - 1) \in Nat
    BY <1>1, <2>1
  <2>3. t \in Nat /\ Return(fw, i - 1) \in 1 .. 3
    <3>1. Stamp(time) \in Nat
      BY StampsKeepPace
    <3> QED  BY <2>1, <2>2, <3>1, ReturnIsNumber
  <2>4. rec[i] = [point |-> points[i], type |-> type, return |-> Return(fw, i - 1), at |-> time,
                  time |-> t]
    BY DEF AllRecords
  <2> HIDE DEF rec, fw, t
  <2> QED  BY <2>3, <2>4 DEF FileRecords
<1>3. rec = [i \in 1 .. n |-> rec[i]]
  BY DEF AllRecords
<1> HIDE DEF rec
<1> QED  BY <1>2, <1>3 DEF Listed, rec

LEMMA HitsOfRows ==
  /\ \A x \in TableRows : FlatMap(HitOf, <<x>>) = HitOf[x]
  /\ \A x, y \in TableRows : FlatMap(HitOf, Two(x, y)) = HitOf[x] \o HitOf[y]
<1> DEFINE hit == HitOf
           X == TableRows
<1>1. Maker(hit, X, X)
  BY HitOfMakes
<1> HIDE DEF hit, X
<1>2. \A x \in X : FlatMap(hit, <<x>>) = hit[x]
  BY <1>1, FlatMapOne
<1>3. \A x, y \in X : FlatMap(hit, Two(x, y)) = hit[x] \o hit[y]
  BY <1>1, FlatMapTwo
<1> QED  BY <1>2, <1>3 DEF hit, X

(* A hit is kept, and makes the rows that are due.                          *)
LEMMA HitsOfRecord ==
  ASSUME NEW type \in DataTypes, NEW r \in FileRecords,
         NEW row, row = [point |-> r.point, return |-> r.return]
  PROVE  HitsOf(type)[r] = IF r.point.kind # "hit" THEN <<>>
                           ELSE IF type \in {4, 5} THEN <<row, [row EXCEPT !.return = 2]>> ELSE <<row>>
<1> DEFINE row2 == [row EXCEPT !.return = 2]
<1>1. r.point \in Shots /\ r.return \in 1 .. 3
  BY DEF FileRecords
<1>2. row \in TableRows /\ row.return # 0 /\ row.point = r.point
  BY <1>1 DEF TableRows
<1>3. row2 \in TableRows /\ row2.return # 0 /\ row2.point = r.point
  BY <1>2 DEF TableRows
<1>4. HitsOf(type)[r] = FlatMap(HitOf, RowsOf(type)[r])
  BY DEF HitsOf, Twice
<1>5. RowsOf(type)[r] = IF type \in {4, 5} THEN <<row, row2>> ELSE <<row>>
  BY DEF RowsOf
<1> HIDE DEF row2
<1>6. /\ HitOf[row] = IF r.point.kind = "hit" THEN <<row>> ELSE <<>>
      /\ HitOf[row2] = IF r.point.kind = "hit" THEN <<row2>> ELSE <<>>
  BY <1>2, <1>3 DEF HitOf, Only, Numbers, IsHit
<1>7. /\ FlatMap(HitOf, <<row>>) = HitOf[row]
      /\ FlatMap(HitOf, <<row, row2>>) = HitOf[row] \o HitOf[row2]
  <2>1. FlatMap(HitOf, Two(row, row2)) = HitOf[row] \o HitOf[row2]
    BY <1>2, <1>3, HitsOfRows
  <2> QED  BY <1>2, <2>1, HitsOfRows DEF Two
<1>8. <<row>> \o <<row2>> = <<row, row2>> /\ <<>> \o <<>> = <<>>
  <2>1. <<row>> \o <<row2>> = <<row, row2>>
    <3> DEFINE X == TableRows
    <3>1. row \in X /\ row2 \in X
      BY <1>2, <1>3
    <3> HIDE DEF X
    <3> QED  BY <3>1, TwoMakePair
  <2>2. <<>> \o <<>> = <<>>
    BY EmptySeq, ConcatEmptySeq
  <2> QED  BY <2>1, <2>2
<1>9. FlatMap(HitOf, RowsOf(type)[r]) = IF r.point.kind # "hit" THEN <<>>
                           ELSE IF type \in {4, 5} THEN <<row, row2>> ELSE <<row>>
  BY <1>5, <1>6, <1>7, <1>8
<1> QED  BY <1>4, <1>9 DEF row2

LEMMA HitsOfPacket ==
  ASSUME lidar.kind.fw \in Firmwares, lidar.day \in Nat, NEW type \in DataTypes,
         NEW time \in Nat, NEW n \in Nat, NEW points, n = Len(points), \A i \in 1 .. n : points[i] \in Shots
  PROVE  FlatMap(HitsOf(type), Records(points, type, time)) = RowsDue(points, type)
<1> DEFINE fw == lidar.kind.fw
           g == HitsOf(type)
           K == KeptOnes(points, type, n)
           rec == AllRecords(points, type, time, n)
           row(i) == [point |-> points[i], return |-> Return(fw, i - 1)]
           rows(i) == IF type \in {4, 5} THEN <<row(i), [row(i) EXCEPT !.return = 2]>> ELSE <<row(i)>>
           hits(i) == IF points[i].kind = "hit" THEN rows(i) ELSE <<>>
<1>1. Records(points, type, time) = Filtered(K, rec, n)
  BY RecordsAreFiltered
<1>2. Listed(rec, n, FileRecords)
  BY AllRecordsAreListed
<1>3. Maker(g, FileRecords, TableRows)
  BY HitOfMakes, RowsOfMakes, FlatMapTwice, EmptySeq DEF HitsOf
<1>4. FlatMap(g, Filtered(K, rec, n)) = FlattenSeq([i \in 1 .. n |-> FlatMap(g, Part(K, rec, i))])
  <2> HIDE DEF g, K, rec
  <2> QED  BY <1>2, <1>3, FilteredMapped
<1>5. RowsDue(points, type) = FlattenSeq([i \in 1 .. n |-> hits(i)])
  BY DEF RowsDue
<1>6. ASSUME NEW i \in 1 .. n
      PROVE  FlatMap(g, Part(K, rec, i)) = hits(i)
  <2>1. rec[i] \in FileRecords
    BY <1>2 DEF Listed
  <2>2. rec[i].point = points[i] /\ rec[i].return = Return(fw, i - 1)
    BY DEF AllRecords
  <2>3. g[rec[i]] = hits(i)
    <3>1. row(i) = [point |-> rec[i].point, return |-> rec[i].return]
      BY <2>2
    <3>2. g[rec[i]] = IF rec[i].point.kind # "hit" THEN <<>> ELSE rows(i)
      <4> HIDE DEF rec, g
      <4> QED  BY <2>1, <3>1, HitsOfRecord DEF g
    <3> HIDE DEF rec, g, rows
    <3> QED  BY <2>2, <3>2
  <2>4. points[i].kind = "hit" => i \in K
    BY DEF KeptOnes, Kept, DataTypes
  <2>5. CASE i \in K
    <3>1. Part(K, rec, i) = <<rec[i]>>
      BY <2>5 DEF Part
    <3> HIDE DEF rec, g, hits
    <3>2. FlatMap(g, <<rec[i]>>) = g[rec[i]]
      BY <1>3, <2>1, FlatMapOne
    <3> QED  BY <2>3, <3>1, <3>2
  <2>6. CASE i \notin K
    <3>1. Part(K, rec, i) = <<>>
      BY <2>6 DEF Part
    <3>2. hits(i) = <<>>
      BY <2>4, <2>6
    <3> HIDE DEF rec, g, hits
    <3> QED  BY <3>1, <3>2, FlatMapNil
  <2> QED  BY <2>5, <2>6
<1> HIDE DEF rec, K, g, hits
<1>7. [i \in 1 .. n |-> FlatMap(g, Part(K, rec, i))] = [i \in 1 .. n |-> hits(i)]
  BY <1>6
<1> QED  BY <1>1, <1>4, <1>5, <1>7 DEF g

-----------------------------------------------------------------------------
(* What the file has of the packets that are due.                           *)

LEMMA ConcatIsPrefix ==
  ASSUME NEW S, NEW s \in Seq(S), NEW t \in Seq(S)
  PROVE  IsPrefix(s, s \o t)
<1> DEFINE u == s \o t
           n == Len(s)
<1>1. /\ u \in Seq(S) /\ Len(u) = n + Len(t) /\ n \in Nat /\ Len(t) \in Nat
      /\ \A i \in 1 .. n : u[i] = s[i]
  BY ConcatProperties, LenProperties
<1>2. \A i \in 1 .. n : s[i] \in S
  BY ElementOfSeq
<1> HIDE DEF u, n
<1>3. /\ SubSeq(s, 1, n) \in Seq(S) /\ Len(SubSeq(s, 1, n)) = n
      /\ \A i \in 1 .. n : SubSeq(s, 1, n)[i] = s[i]
  BY <1>1, <1>2, SubSeqProperties
<1>4. /\ SubSeq(u, 1, n) \in Seq(S) /\ Len(SubSeq(u, 1, n)) = n
      /\ \A i \in 1 .. n : SubSeq(u, 1, n)[i] = u[i]
  <2>1. \A i \in 1 .. n : u[i] \in S
    BY <1>1, <1>2
  <2> QED  BY <1>1, <2>1, SubSeqProperties
<1>5. SubSeq(s, 1, n) = SubSeq(u, 1, n)
  BY <1>1, <1>3, <1>4, SeqEqual
<1>6. n <= Len(u)
  BY <1>1
<1> QED  BY <1>5, <1>6 DEF IsPrefix, u, n

LogFits(f, d, at) ==
  /\ f.rest < Stride(f)
  /\ \A k \in 1 .. Len(f.recs) : f.recs[k].type = f.type
  /\ at # "crashed" => Recorded(f) = d
  /\ IsPrefix(Recorded(f), d)

CaptureLog ==
  /\ due \in Seq(TableRows)
  /\ thread.steady => LogFits(file, due, thread.at)

LEMMA HitsOfMakes ==
  ASSUME NEW type
  PROVE  Maker(HitsOf(type), FileRecords, TableRows)
<1>1. Maker(RowsOf(type), FileRecords, TableRows) /\ Maker(HitOf, TableRows, TableRows)
  BY RowsOfMakes, HitOfMakes
<1> DEFINE h == RowsOf(type)
           g == HitOf
<1>2. Maker(h, FileRecords, TableRows) /\ Maker(g, TableRows, TableRows)
  BY <1>1
<1>3. <<>> \in Seq(FileRecords)
  BY EmptySeq
<1> HIDE DEF h, g
<1>4. Maker(Twice(g, h, FileRecords), FileRecords, TableRows)
  BY <1>2, <1>3, FlatMapTwice
<1> QED  BY <1>4 DEF g, h, HitsOf

LEMMA RecordedIsRows ==
  ASSUME NEW f, f.recs \in Seq(FileRecords)
  PROVE  Recorded(f) \in Seq(TableRows)
<1> DEFINE g == HitsOf(f.type)
           s == f.recs
<1>1. Maker(g, FileRecords, TableRows) /\ s \in Seq(FileRecords)
  BY HitsOfMakes
<1>2. Recorded(f) = FlatMap(g, s)
  BY DEF Recorded
<1> HIDE DEF g, s
<1>3. FlatMap(g, s) \in Seq(TableRows)
  BY <1>1, FlatMapAppend
<1> QED  BY <1>2, <1>3

LEMMA EqualIsPrefix ==
  ASSUME NEW S, NEW s \in Seq(S)
  PROVE  IsPrefix(s, s)
<1>1. s \o <<>> = s /\ <<>> \in Seq(S)
  BY ConcatEmptySeq, EmptySeq
<1>2. \A t \in Seq(S) : IsPrefix(s, s \o t)
  BY ConcatIsPrefix
<1>3. PICK t \in Seq(S) : t = <<>>
  BY <1>1
<1>4. IsPrefix(s, s \o t)
  BY <1>2
<1> QED  BY <1>1, <1>3, <1>4

LEMMA NothingIsDue ==
  ASSUME NEW f, Readable(f), Len(f.recs) = 0, f.rest = 0, NEW at
  PROVE  LogFits(f, <<>>, at)
<1>1. f.recs \in Seq(FileRecords) /\ f.recs = <<>>
  BY EmptySeq DEF Readable, Files
<1>2. Stride(f) \in 17 .. 36
  BY StrideIsSize
<1>3. Recorded(f) = <<>>
  BY <1>1, FlatMapNil DEF Recorded
<1>4. IsPrefix(<<>>, <<>>)
  <2>1. <<>> \in Seq(TableRows)
    BY EmptySeq
  <2> DEFINE s == <<>>
  <2>2. s \in Seq(TableRows)
    BY <2>1
  <2> HIDE DEF s
  <2>3. IsPrefix(s, s)
    BY <2>2, EqualIsPrefix
  <2> QED  BY <2>3 DEF s
<1>5. f.rest < Stride(f)
  BY <1>2
<1>6. \A k \in 1 .. Len(f.recs) : f.recs[k].type = f.type
  OBVIOUS
<1> QED  BY <1>3, <1>4, <1>5, <1>6 DEF LogFits

LEMMA PacketIsDue ==
  ASSUME CaptureConstants, CaptureTyped, NEW time \in Nat, NEW kinds \in [1 .. PerPacket -> PointKinds]
  PROVE  LET new == Records(Points(kinds), lidar.type, time)
             d == RowsDue(Points(kinds), lidar.type)
         IN /\ new \in Seq(FileRecords) /\ \A k \in 1 .. Len(new) : new[k].type = lidar.type
            /\ d \in Seq(TableRows) /\ FlatMap(HitsOf(lidar.type), new) = d
<1> DEFINE points == Points(kinds)
           type == lidar.type
           new == Records(points, type, time)
           d == RowsDue(points, type)
           g == HitsOf(type)
           end == Stamp(time) + Offset(lidar.kind.fw, type, PerPacket - 1)
<1>1. lidar.kind.fw \in Firmwares /\ type \in DataTypes /\ PerPacket \in Nat \ {0}
      /\ lidar.day \in Nat
  BY SensorFacts
<1>2. /\ PerPacket = Len(points) /\ PerPacket \in 0 .. PerPacket
      /\ \A i \in 1 .. PerPacket : points[i] \in Shots
  BY <1>1, PointsAreShots
<1> HIDE DEF points
<1>3. PacketFits(new, type, time, end)
  <2> HIDE DEF type
  <2> QED  BY <1>1, <1>2, RecordsFit
<1>4. new \in Seq(FileRecords) /\ \A k \in 1 .. Len(new) : new[k].type = type
  <2> HIDE DEF new, type, end
  <2> QED  BY <1>3 DEF PacketFits
<1>5. FlatMap(g, new) = d
  <2> HIDE DEF type
  <2> QED  BY <1>1, <1>2, HitsOfPacket DEF g
<1>6. FlatMap(g, new) \in Seq(TableRows)
  <2>1. Maker(g, FileRecords, TableRows)
    BY HitsOfMakes
  <2> HIDE DEF g, new
  <2> QED  BY <1>4, <2>1, FlatMapAppend
<1> HIDE DEF new, d, g, type
<1> QED  BY <1>4, <1>5, <1>6 DEF new, d, g, type, points

LEMMA InitLog ==
  ASSUME CaptureConstants, CaptureInit
  PROVE  CaptureLog
<1>1. file = NoFile /\ due = <<>>
  BY DEF CaptureInit
<1>2. Readable(file)
  BY InitCapture, FileIsReadable
<1>3. Len(file.recs) = 0 /\ file.rest = 0
  BY <1>1 DEF NoFile
<1>4. LogFits(file, <<>>, thread.at)
  BY <1>2, <1>3, NothingIsDue
<1>5. due \in Seq(TableRows)
  BY <1>1, EmptySeq
<1> QED  BY <1>1, <1>4, <1>5 DEF CaptureLog

(* Most actions leave the file and what is due of it.                       *)
LEMMA LogStays ==
  ASSUME CaptureLog, UNCHANGED <<file, due>>, thread'.steady = thread.steady,
         thread.at = "crashed" => thread'.at = "crashed"
  PROVE  CaptureLog'
<1> QED  BY DEF CaptureLog, LogFits, Recorded, Stride

LEMMA LogStarts ==
  ASSUME due = <<>>, UNCHANGED due, Readable(file'), Len(file'.recs) = 0, file'.rest = 0
  PROVE  CaptureLog'
<1>1. \A f, at : Readable(f) /\ Len(f.recs) = 0 /\ f.rest = 0 => LogFits(f, <<>>, at)
  BY NothingIsDue
<1>2. LogFits(file', <<>>, thread'.at)
  BY <1>1
<1>3. due' \in Seq(TableRows)
  BY EmptySeq
<1>4. (thread.steady => LogFits(file, due, thread.at))' = (thread'.steady => LogFits(file', due', thread'.at))
  BY DEF LogFits, Recorded, Stride
<1> QED  BY <1>2, <1>3, <1>4 DEF CaptureLog

LEMMA HeadedIsReadable ==
  ASSUME CaptureConstants, CaptureInv, thread.at = "delays"
  PROVE  Readable(Headed) /\ Len(Headed.recs) = 0 /\ Headed.rest = 0 /\ due = <<>>
<1>1. thread.type \in lidar.kind.types /\ due = <<>>
  BY DEF CaptureInv, HeaderFits
<1> QED  BY <1>1, HeadedFits DEF Readable

LEMMA QuietLog ==
  ASSUME CaptureConstants, CaptureInv, CaptureLog,
         Switch \/ SaveDataToFile \/ Consume \/ ReadImu \/ DurationOver \/ ConvertToCsv \/ ConvertToLas
  PROVE  CaptureLog'
<1> USE DEF CaptureInv
<1>1. CASE Switch
  BY <1>1, LogStays DEF Switch
<1>2. CASE SaveDataToFile
  <2>1. PICK wait \in Waits, duration \in Durations :
          thread' = [thread EXCEPT !.at = "consumes", !.wait = wait, !.duration = duration]
    BY <1>2 DEF SaveDataToFile
  <2>2. thread.at = "idle" /\ UNCHANGED <<file, due>>
    BY <1>2 DEF SaveDataToFile
  <2>3. thread'.steady = thread.steady
    BY <2>1 DEF CaptureTyped
  <2> QED  BY <2>2, <2>3, LogStays
<1>3. CASE Consume
  <2>1. PICK time \in Times, next \in {"delays", "refused"} :
          thread' = [thread EXCEPT !.at = next, !.type = lidar.type, !.asked = time,
                       !.began = time, !.start = Stamp(time), !.now = Stamp(time)]
    BY <1>3 DEF Consume
  <2>2. thread.at = "consumes" /\ UNCHANGED <<file, due>>
    BY <1>3 DEF Consume
  <2>3. thread'.steady = thread.steady
    BY <2>1 DEF CaptureTyped
  <2> QED  BY <2>2, <2>3, LogStays
<1>4. CASE DurationOver
  <2>1. thread.at = "writes" /\ thread' = [thread EXCEPT !.at = "closed"] /\ UNCHANGED <<file, due>>
    BY <1>4 DEF DurationOver
  <2>2. thread'.steady = thread.steady
    BY <2>1 DEF CaptureTyped
  <2> QED  BY <2>1, <2>2, LogStays
<1>5. CASE ConvertToCsv
  BY <1>5, LogStays DEF ConvertToCsv
<1>6. CASE ConvertToLas
  BY <1>6, LogStays DEF ConvertToLas
<1>7. CASE ReadImu
  <2>1. thread.at = "writes" /\ UNCHANGED <<file, due>>
    BY <1>7 DEF ReadImu
  <2>2. PICK age \in Ages : thread' = [thread EXCEPT !.now = Stamp(lidar.clock + PacketSpan - age),
                                          !.imu = @ + 1, !.polled = TRUE]
    BY <1>7 DEF ReadImu
  <2>3. thread'.steady = thread.steady
    BY <2>2 DEF CaptureTyped
  <2> QED  BY <2>1, <2>3, LogStays
<1> QED  BY <1>1, <1>2, <1>3, <1>4, <1>5, <1>6, <1>7

LEMMA CloseLog ==
  ASSUME CaptureConstants, CaptureInv, CaptureLog, Close
  PROVE  CaptureLog'
<1>1. /\ thread.at \in {"delays", "writes"} /\ thread' = [thread EXCEPT !.at = "closed", !.stopped = TRUE]
      /\ file' = IF thread.at = "delays" THEN Headed ELSE file
      /\ UNCHANGED due
  BY DEF Close
<1>2. CASE thread.at = "delays"
  BY <1>1, <1>2, HeadedIsReadable, LogStarts
<1>3. CASE thread.at = "writes"
  <2>1. thread'.steady = thread.steady
    BY <1>1 DEF CaptureInv, CaptureTyped
  <2> QED  BY <1>1, <1>3, <2>1, LogStays
<1> QED  BY <1>1, <1>2, <1>3

LEMMA DelayLog ==
  ASSUME CaptureConstants, CaptureInv, CaptureLog, Delay
  PROVE  CaptureLog'
<1>1. PICK time \in Times :
        /\ Arrives(time)
        /\ IF Stamp(time) - thread.start > thread.wait
             THEN /\ thread' = [thread EXCEPT !.at = "writes", !.began = time,
                                  !.start = Stamp(time), !.now = Stamp(time)]
                  /\ file' = Headed
             ELSE /\ thread' = [thread EXCEPT !.now = Stamp(time)]
                  /\ UNCHANGED file
  BY DEF Delay
<1>2. thread.at = "delays" /\ UNCHANGED due
  BY DEF Delay
<1>3. CASE Stamp(time) - thread.start > thread.wait
  <2>1. file' = Headed
    BY <1>1, <1>3
  <2> QED  BY <1>2, <2>1, HeadedIsReadable, LogStarts
<1>4. CASE ~(Stamp(time) - thread.start > thread.wait)
  <2>1. thread' = [thread EXCEPT !.now = Stamp(time)] /\ UNCHANGED file
    BY <1>1, <1>4
  <2>2. thread'.steady = thread.steady
    BY <2>1 DEF CaptureInv, CaptureTyped
  <2> QED  BY <1>2, <2>1, <2>2, LogStays
<1> QED  BY <1>3, <1>4

(* The records of a packet add the rows that are due of it.                 *)
LEMMA WritePointsLog ==
  ASSUME CaptureConstants, CaptureInv, CaptureLog, WritePoints
  PROVE  CaptureLog'
<1>1. thread.at = "writes"
  BY DEF WritePoints
<1>2. PICK time \in Times, kinds \in [1 .. PerPacket -> PointKinds] :
        /\ Arrives(time)
        /\ file' = [file EXCEPT !.recs = @ \o RecordsWritten(Points(kinds), time)]
        /\ due' = due \o RowsDue(Points(kinds), lidar.type)
        /\ thread' = [thread EXCEPT
             !.at = IF Reached < PerPacket THEN "died" ELSE @,
             !.now = Stamp(time) + Offset(lidar.kind.fw, TakenFor, PerPacket - 1),
             !.polled = FALSE,
             !.steady = @ /\ lidar.type = thread.type]
  BY DEF WritePoints
<1> DEFINE d == RowsDue(Points(kinds), lidar.type)
           new == Records(Points(kinds), lidar.type, time)
           recs == file.recs
           g == HitsOf(file.type)
           n == Len(recs)
           m == Len(new)
<1>3. CaptureTyped /\ time \in Nat /\ CaptureTyped'
  BY <1>2, CaptureStep, Arrived DEF CaptureInv, CaptureNext
<1>4. d \in Seq(TableRows) /\ due \in Seq(TableRows)
  BY <1>3, PacketIsDue DEF CaptureLog
<1>5. due' = due \o d /\ due' \in Seq(TableRows)
  <2> HIDE DEF d
  <2>1. due' = due \o d
    BY <1>2 DEF d
  <2> QED  BY <1>4, <2>1, ConcatProperties
<1>6. ASSUME thread'.steady
      PROVE  LogFits(file', due', thread'.at)
  <2>1. thread.steady /\ lidar.type = thread.type
    BY <1>2, <1>3, <1>6 DEF CaptureTyped
  <2>2. file.type = thread.type /\ file.rest = 0 /\ LogFits(file, due, thread.at)
    BY <1>1, <2>1 DEF CaptureInv, HeaderFits, CaptureLog
  <2>3. RecordsWritten(Points(kinds), time) = new
    BY <2>1 DEF RecordsWritten, TakenFor
  <2>4. /\ new \in Seq(FileRecords) /\ (\A k \in 1 .. Len(new) : new[k].type = file.type)
        /\ FlatMap(g, new) = d
    BY <1>3, <2>1, <2>2, PacketIsDue
  <2>5. file \in Files /\ recs \in Seq(FileRecords)
    BY <1>3 DEF CaptureTyped, Files
  <2>6. file' = [file EXCEPT !.recs = recs \o new]
    BY <1>2, <2>3
  <2>7. Recorded(file) = due /\ FlatMap(g, recs) = due /\ \A k \in 1 .. n : recs[k].type = file.type
    BY <1>1, <2>2 DEF LogFits, Recorded
  <2> HIDE DEF new, d, g, recs, n, m
  <2>8. /\ recs \o new \in Seq(FileRecords) /\ Len(recs \o new) = n + m /\ n \in Nat /\ m \in Nat
        /\ \A k \in 1 .. n : (recs \o new)[k] = recs[k]
        /\ \A k \in 1 .. m : (recs \o new)[n + k] = new[k]
    BY <2>4, <2>5, ConcatProperties, LenProperties DEF n, m
  <2>9. /\ file'.recs = recs \o new /\ file'.fw = file.fw /\ file'.type = file.type
        /\ file'.rest = 0
    BY <2>2, <2>5, <2>6, <2>8 DEF Files
  <2>10. Recorded(file') = due'
    <3>1. Maker(g, FileRecords, TableRows)
      BY HitsOfMakes DEF g
    <3>2. FlatMap(g, recs \o new) = FlatMap(g, recs) \o FlatMap(g, new)
      <4>1. recs \in Seq(FileRecords) /\ new \in Seq(FileRecords)
        BY <2>4, <2>5
      <4> QED  BY <3>1, <4>1, FlatMapConcat
    <3>3. Recorded(file') = FlatMap(g, recs \o new)
      BY <2>9 DEF Recorded, g
    <3> QED  BY <1>5, <2>4, <2>7, <3>2, <3>3
  <2>11. file'.rest < Stride(file')
    <3>1. Stride(file') = Stride(file)
      BY <2>9 DEF Stride
    <3>2. Stride(file) \in 17 .. 36
      BY FileIsReadable, StrideIsSize
    <3> QED  BY <2>9, <3>1, <3>2
  <2>12. ASSUME NEW k \in 1 .. Len(file'.recs)
         PROVE  file'.recs[k].type = file'.type
    <3>1. k \in 1 .. n + m
      BY <2>8, <2>9
    <3>2. CASE k \in 1 .. n
      BY <2>7, <2>8, <2>9, <3>2
    <3>3. CASE k \notin 1 .. n
      <4>1. k - n \in 1 .. m /\ k = n + (k - n)
        BY <2>8, <3>1, <3>3
      <4>2. PICK j \in 1 .. m : k = n + j
        BY <4>1
      <4>3. (recs \o new)[k] = new[j] /\ new[j].type = file.type
        BY <2>4, <2>8, <4>2 DEF m
      <4> QED  BY <2>9, <4>3
    <3> QED  BY <3>2, <3>3
  <2>13. IsPrefix(due', due')
    BY <1>5, EqualIsPrefix
  <2> QED  BY <2>10, <2>11, <2>12, <2>13 DEF LogFits
<1>7. (thread.steady => LogFits(file, due, thread.at))' = (thread'.steady => LogFits(file', due', thread'.at))
  BY DEF LogFits, Recorded, Stride
<1> QED  BY <1>5, <1>6, <1>7 DEF CaptureLog

(* What a crash leaves is a prefix of the records, and so of the rows.      *)
LEMMA CrashLog ==
  ASSUME CaptureConstants, CaptureInv, CaptureLog, Crash
  PROVE  CaptureLog'
<1>1. /\ thread.at = "writes" /\ thread' = [thread EXCEPT !.at = "crashed"]
      /\ UNCHANGED due /\ CaptureTyped
  BY DEF Crash, CaptureInv
<1>2. thread'.steady = thread.steady /\ thread'.at = "crashed"
  BY <1>1 DEF CaptureTyped
<1> DEFINE recs == file.recs
           g == HitsOf(file.type)
<1>3. recs \in Seq(FileRecords) /\ file \in Files /\ Len(recs) \in Nat
  <2>1. recs \in Seq(FileRecords) /\ file \in Files
    BY <1>1 DEF CaptureTyped, Files
  <2> HIDE DEF recs
  <2> QED  BY <2>1, LenProperties
<1>4. due \in Seq(TableRows) /\ due' = due
  BY <1>1 DEF CaptureLog
<1>5. ASSUME thread.steady
      PROVE  LogFits(file', due, "crashed")
  <2>1. LogFits(file, due, thread.at) /\ file.rest = 0
    BY <1>1, <1>5 DEF CaptureLog, CaptureInv, HeaderFits
  <2>2. FlatMap(g, recs) = due /\ (\A k \in 1 .. Len(recs) : recs[k].type = file.type)
    BY <1>1, <2>1 DEF LogFits, Recorded
  <2>3. Stride(file) = RecordSize(file.fw, file.type) /\ Stride(file) \in 17 .. 36
    BY FileIsReadable, StrideIsSize
  <2>4. IsPrefix(due, due)
    BY <1>4, EqualIsPrefix
  <2>5. CASE file' = [file EXCEPT !.headed = FALSE]
    <3>1. /\ file'.recs = recs /\ file'.fw = file.fw /\ file'.type = file.type /\ file'.rest = file.rest
      BY <1>3, <2>5 DEF Files
    <3> QED  BY <2>1, <2>2, <2>4, <3>1 DEF LogFits, Recorded, Stride
  <2>6. CASE \E n \in 0 .. Len(file.recs) :
               \E rest \in IF n = Len(file.recs) THEN {0}
                           ELSE {0, 3, 4, RecordSize(file.fw, file.recs[n + 1].type) - 1} :
                 file' = [file EXCEPT !.recs = SubSeq(@, 1, n), !.rest = rest,
                            !.last = IF rest = 0 THEN Garbage ELSE file.recs[n + 1].point]
    <3>1. PICK n \in 0 .. Len(file.recs) :
               \E rest \in IF n = Len(file.recs) THEN {0}
                           ELSE {0, 3, 4, RecordSize(file.fw, file.recs[n + 1].type) - 1} :
                 file' = [file EXCEPT !.recs = SubSeq(@, 1, n), !.rest = rest,
                            !.last = IF rest = 0 THEN Garbage ELSE file.recs[n + 1].point]
      BY <2>6
    <3>2. PICK rest \in IF n = Len(file.recs) THEN {0}
                        ELSE {0, 3, 4, RecordSize(file.fw, file.recs[n + 1].type) - 1} :
                 file' = [file EXCEPT !.recs = SubSeq(@, 1, n), !.rest = rest,
                            !.last = IF rest = 0 THEN Garbage ELSE file.recs[n + 1].point]
      BY <3>1
    <3> DEFINE head == SubSeq(recs, 1, n)
               tail == SubSeq(recs, n + 1, Len(recs))
               cut == IF rest = 0 THEN Garbage ELSE recs[n + 1].point
    <3>3. n \in 0 .. Len(recs) /\ n \in Nat
      <4>1. n \in 0 .. Len(recs)
        BY <3>1
      <4> HIDE DEF recs
      <4> QED  BY <1>3, <4>1
    <3>4. rest < Stride(file)
      <4>1. CASE n = Len(recs)
        BY <2>3, <3>2, <4>1
      <4>2. CASE n # Len(recs)
        <5>1. rest \in {0, 3, 4, RecordSize(file.fw, recs[n + 1].type) - 1}
          BY <3>2, <4>2
        <5>2. recs[n + 1].type = file.type
          <6> HIDE DEF recs
          <6>1. n + 1 \in 1 .. Len(recs)
            BY <1>3, <3>3, <4>2
          <6> QED  BY <2>2, <6>1
        <5>3. rest \in {0, 3, 4, Stride(file) - 1}
          BY <2>3, <5>1, <5>2
        <5>4. \A z \in 17 .. 36 : \A r \in {0, 3, 4, z - 1} : r < z
          OBVIOUS
        <5> QED  BY <2>3, <5>3, <5>4
      <4> QED  BY <4>1, <4>2
    <3>5. file' = [file EXCEPT !.recs = head, !.rest = rest, !.last = cut]
      BY <3>2
    <3> HIDE DEF head, cut, tail
    <3>6. /\ file'.recs = head /\ file'.fw = file.fw /\ file'.type = file.type /\ file'.rest = rest
      BY <1>3, <3>5 DEF Files
    <3> HIDE DEF recs
    <3>7. \A k \in 1 .. Len(recs) : recs[k] \in FileRecords
      BY <1>3, ElementOfSeq
    <3>8. head \in Seq(FileRecords) /\ Len(head) = n /\ \A k \in 1 .. n : head[k] = recs[k]
      <4>1. \A k \in 1 .. n : k \in 1 .. Len(recs) /\ recs[k] \in FileRecords
        BY <1>3, <3>3, <3>7
      <4> QED  BY <1>3, <3>3, <4>1, SubSeqProperties DEF head
    <3>9. tail \in Seq(FileRecords)
      <4>1. \A k \in n + 1 .. Len(recs) : recs[k] \in FileRecords
        BY <1>3, <3>3, <3>7
      <4>2. n + 1 \in Int /\ Len(recs) \in Int
        BY <1>3, <3>3
      <4> QED  BY <4>1, <4>2, SubSeqProperties DEF tail
    <3>10. head \o tail = recs
      <4>1. /\ 1 \in 1 .. Len(recs) + 1 /\ n \in 1 - 1 .. Len(recs) /\ Len(recs) \in n .. Len(recs)
        BY <1>3, <3>3
      <4>2. SubSeq(recs, 1, n) \o SubSeq(recs, n + 1, Len(recs)) = SubSeq(recs, 1, Len(recs))
        BY <1>3, <4>1, ConcatAdjacentSubSeq
      <4> QED  BY <1>3, <4>2, SubSeqFull DEF head, tail
    <3>11. IsPrefix(FlatMap(g, head), due)
      <4>1. Maker(g, FileRecords, TableRows)
        BY HitsOfMakes
      <4> HIDE DEF g
      <4>2. FlatMap(g, head) \in Seq(TableRows) /\ FlatMap(g, tail) \in Seq(TableRows)
        BY <3>8, <3>9, <4>1, FlatMapAppend
      <4>3. FlatMap(g, head \o tail) = FlatMap(g, head) \o FlatMap(g, tail)
        <5>1. head \in Seq(FileRecords) /\ tail \in Seq(FileRecords)
          BY <3>8, <3>9
        <5> QED  BY <4>1, <5>1, FlatMapConcat
      <4>4. IsPrefix(FlatMap(g, head), FlatMap(g, head) \o FlatMap(g, tail))
        <5> DEFINE a == FlatMap(g, head)
                   b == FlatMap(g, tail)
        <5>1. a \in Seq(TableRows) /\ b \in Seq(TableRows)
          BY <4>2
        <5> HIDE DEF a, b
        <5>2. IsPrefix(a, a \o b)
          BY <5>1, ConcatIsPrefix
        <5> QED  BY <5>2 DEF a, b
      <4> QED  BY <2>2, <3>10, <4>3, <4>4
    <3>12. Recorded(file') = FlatMap(g, head) /\ Stride(file') = Stride(file)
      BY <3>6 DEF Recorded, Stride
    <3>13. \A k \in 1 .. Len(file'.recs) : file'.recs[k].type = file'.type
      <4>1. \A k \in 1 .. n : k \in 1 .. Len(recs)
        BY <1>3, <3>3
      <4> QED  BY <2>2, <3>6, <3>8, <4>1 DEF recs
    <3> QED  BY <3>4, <3>6, <3>11, <3>12, <3>13 DEF LogFits
  <2> QED  BY <2>5, <2>6 DEF Crash
<1>6. (thread.steady => LogFits(file, due, thread.at))' = (thread'.steady => LogFits(file', due', thread'.at))
  BY DEF LogFits, Recorded, Stride
<1> QED  BY <1>2, <1>4, <1>5, <1>6 DEF CaptureLog

LEMMA LogStep ==
  ASSUME CaptureConstants, CaptureInv, CaptureLog, [CaptureNext]_captureVars
  PROVE  CaptureLog'
<1>1. CASE UNCHANGED captureVars
  BY <1>1, LogStays DEF captureVars
<1> QED  BY <1>1, QuietLog, CloseLog, DelayLog, WritePointsLog, CrashLog DEF CaptureNext

-----------------------------------------------------------------------------
(* The times in the file.                                                   *)

LEMMA NothingIsLate ==
  ASSUME NEW recs \in Seq(FileRecords), Len(recs) = 0, NEW limit
  PROVE  Late(recs, limit) = {}
<1>1. DOMAIN recs = {}
  <2>1. DOMAIN recs = 1 .. Len(recs)
    BY LenProperties
  <2> QED  BY <2>1
<1>2. ToSet(recs) = {}
  BY <1>1 DEF ToSet
<1> QED  BY <1>2 DEF Late

LEMMA LateOfPrefix ==
  ASSUME NEW recs \in Seq(FileRecords), NEW head \in Seq(FileRecords),
         Len(head) \in 0 .. Len(recs), \A k \in 1 .. Len(head) : head[k] = recs[k], NEW limit
  PROVE  Late(head, limit) \subseteq Late(recs, limit)
<1>1. /\ DOMAIN recs = 1 .. Len(recs) /\ DOMAIN head = 1 .. Len(head)
      /\ Len(recs) \in Nat /\ Len(head) \in Nat
  BY LenProperties
<1>2. \A k \in DOMAIN head : k \in DOMAIN recs /\ head[k] = recs[k]
  BY <1>1
<1>3. ToSet(head) \subseteq ToSet(recs)
  BY <1>2 DEF ToSet
<1> QED  BY <1>3 DEF Late

LEMMA LateOfPacket ==
  ASSUME NEW recs \in Seq(FileRecords), NEW new \in Seq(FileRecords), NEW at,
         \A k \in 1 .. Len(new) : new[k].at = at, NEW limit
  PROVE  /\ Late(recs \o new, limit) \subseteq Late(recs, limit) \cup {at}
         /\ ~(at > limit) => Late(recs \o new, limit) \subseteq Late(recs, limit)
<1> DEFINE all == recs \o new
           n == Len(recs)
           m == Len(new)
<1>1. /\ DOMAIN recs = 1 .. n /\ DOMAIN all = 1 .. n + m /\ n \in Nat /\ m \in Nat
      /\ \A k \in 1 .. n : all[k] = recs[k]
      /\ \A k \in 1 .. m : all[n + k] = new[k]
  <2>1. all \in Seq(FileRecords) /\ Len(all) = n + m
    BY ConcatProperties
  <2> QED  BY <2>1, ConcatProperties, LenProperties
<1> HIDE DEF all, n, m
<1>2. ASSUME NEW k \in DOMAIN all
      PROVE  all[k] \in ToSet(recs) \/ all[k].at = at
  <2>1. CASE k \in 1 .. n
    BY <1>1, <2>1 DEF ToSet
  <2>2. CASE k \notin 1 .. n
    <3>1. k - n \in 1 .. m /\ k = n + (k - n)
      BY <1>1, <2>2
    <3>2. all[k] = new[k - n]
      BY <1>1, <3>1
    <3> QED  BY <3>1, <3>2 DEF m
  <2> QED  BY <2>1, <2>2
<1>3. \A r \in ToSet(all) : r \in ToSet(recs) \/ r.at = at
  BY <1>2 DEF ToSet
<1> QED  BY <1>3 DEF Late, all

(* What the thread goes by is the stamp of when it began to write.          *)
Clocked ==
  /\ thread.asked <= thread.began /\ thread.began <= lidar.clock
  /\ thread.start = Stamp(thread.began)
  /\ thread.at = "delays" => thread.began = thread.asked
  /\ thread.at = "writes" => thread.began > thread.asked + thread.wait

(* A record is of the time of its packet, and if the thread keeps pace no   *)
(* later than the packet's end, which the clock has passed.                 *)
Timed(rec) ==
  /\ rec.at > thread.asked + thread.wait /\ rec.at < lidar.clock
  /\ Stamp(rec.at) <= rec.time
  /\ rec.type \notin {3, 5} => rec.time - Stamp(rec.at) <= lidar.clock - rec.at

RecordsTimed ==
  /\ \A i \in 1 .. Len(file.recs) : Timed(file.recs[i])
  /\ \A i \in 2 .. Len(file.recs) : InOrder(file.recs[i - 1], file.recs[i])

(* As long as the thread goes on, an IMU sample has undone each late packet.*)
LateCounted ==
  /\ IsFiniteSet(PacketsLate)
  /\ ~Midnight(thread.began, lidar.clock) =>
       /\ Cardinality(PacketsLate) <= 1 + thread.imu
       /\ InTime => Cardinality(PacketsLate) <= thread.imu

TimesFit == Clocked /\ RecordsTimed /\ LateCounted

LEMMA NoTimes ==
  ASSUME NEW recs \in Seq(FileRecords), Len(recs) = 0, NEW limit, NEW imu \in Nat
  PROVE  /\ IsFiniteSet(Late(recs, limit)) /\ Cardinality(Late(recs, limit)) <= imu
         /\ Cardinality(Late(recs, limit)) <= 1 + imu
<1>1. Late(recs, limit) = {}
  BY NothingIsLate
<1> QED  BY <1>1, FS_EmptySet

LEMMA InitTimes ==
  ASSUME CaptureConstants, CaptureInit
  PROVE  TimesFit
<1>1. CaptureTyped
  BY InitCapture DEF CaptureInv
<1>2. file = NoFile /\ thread.imu = 0 /\ thread.at = "idle" /\ lidar.clock = 0
      /\ thread.asked = 0 /\ thread.began = 0 /\ thread.start = 0
  BY DEF CaptureInit
<1>3. file.recs \in Seq(FileRecords) /\ Len(file.recs) = 0 /\ lidar.day \in Nat
  BY <1>1, <1>2 DEF CaptureTyped, Files, NoFile
<1>4. Clocked
  BY <1>2, <1>3 DEF Clocked, Stamp
<1>5. RecordsTimed
  BY <1>3 DEF RecordsTimed
<1>6. LateCounted
  <2>1. thread.imu \in Nat
    BY <1>2
  <2> QED  BY <1>3, <2>1, NoTimes DEF LateCounted, PacketsLate
<1> QED  BY <1>4, <1>5, <1>6 DEF TimesFit

(* The actions before the first record.                                     *)
LEMMA TimesStart ==
  ASSUME CaptureConstants, CaptureTyped', Len(file'.recs) = 0, Clocked'
  PROVE  TimesFit'
<1>1. file'.recs \in Seq(FileRecords) /\ thread'.imu \in Nat
  BY DEF CaptureTyped, Files, CaptureConstants
<1>2. RecordsTimed'
  BY DEF RecordsTimed
<1>3. LateCounted'
  <2> DEFINE late == Late(file'.recs, thread'.began + thread'.duration)
  <2>1. IsFiniteSet(late) /\ Cardinality(late) <= thread'.imu /\ Cardinality(late) <= 1 + thread'.imu
    BY <1>1, NoTimes
  <2>2. PacketsLate' = late
    BY DEF PacketsLate, Late
  <2> HIDE DEF late
  <2> QED  BY <2>1, <2>2 DEF LateCounted
<1> QED  BY <1>2, <1>3 DEF TimesFit

(* The actions that leave the first records of the file, or all, and the    *)
(* times.                                                                   *)
LEMMA TimesStay ==
  ASSUME CaptureConstants, CaptureTyped, CaptureTyped', TimesFit,
         Len(file'.recs) \in 0 .. Len(file.recs),
         \A k \in 1 .. Len(file'.recs) : file'.recs[k] = file.recs[k],
         lidar'.day = lidar.day, lidar'.clock = lidar.clock,
         thread'.at = thread.at \/ thread'.at \notin {"delays", "writes"},
         thread'.asked = thread.asked, thread'.began = thread.began, thread'.start = thread.start,
         thread'.now = thread.now, thread'.wait = thread.wait, thread'.duration = thread.duration,
         thread'.imu = thread.imu
  PROVE  TimesFit'
<1>1. file.recs \in Seq(FileRecords) /\ file'.recs \in Seq(FileRecords)
  BY DEF CaptureTyped, Files
<1>2. Len(file.recs) \in Nat /\ Len(file'.recs) \in Nat
  BY <1>1, LenProperties
<1>3. Clocked'
  BY DEF TimesFit, Clocked, Stamp
<1>4. RecordsTimed'
  <2>1. \A i \in 1 .. Len(file'.recs) : i \in 1 .. Len(file.recs)
    BY <1>2
  <2>2. \A i \in 2 .. Len(file'.recs) :
          i \in 2 .. Len(file.recs) /\ i - 1 \in 1 .. Len(file'.recs) /\ i \in 1 .. Len(file'.recs)
    BY <1>2
  <2>3. \A rec : Timed(rec) => Timed(rec)'
    BY DEF Timed, Stamp
  <2>4. \A before, rec : InOrder(before, rec) => InOrder(before, rec)'
    BY DEF InOrder, Midnight
  <2>5. ASSUME NEW i \in 1 .. Len(file'.recs)
        PROVE  Timed(file.recs[i])
    BY <2>1 DEF TimesFit, RecordsTimed
  <2>6. ASSUME NEW i \in 2 .. Len(file'.recs)
        PROVE  InOrder(file.recs[i - 1], file.recs[i])
    BY <2>2 DEF TimesFit, RecordsTimed
  <2> QED  BY <2>2, <2>5, <2>6 DEF RecordsTimed, Timed, Stamp, InOrder, Midnight
<1>5. LateCounted'
  <2> DEFINE late == Late(file'.recs, thread.began + thread.duration)
  <2>1. late \subseteq PacketsLate
    BY <1>1, LateOfPrefix DEF PacketsLate
  <2>2. PacketsLate' = late
    BY DEF PacketsLate, Late
  <2> HIDE DEF late
  <2>3. IsFiniteSet(PacketsLate)
    BY DEF TimesFit, LateCounted
  <2>4. /\ IsFiniteSet(late) /\ Cardinality(late) <= Cardinality(PacketsLate)
        /\ Cardinality(late) \in Nat /\ Cardinality(PacketsLate) \in Nat
    BY <2>1, <2>3, FS_Subset, FS_CardinalityType
  <2>5. thread.imu \in Nat
    BY DEF CaptureTyped, CaptureConstants
  <2>6. ASSUME ~Midnight(thread.began, lidar.clock)
        PROVE  /\ Cardinality(late) <= 1 + thread.imu
               /\ InTime => Cardinality(late) <= thread.imu
    BY <2>4, <2>5, <2>6 DEF TimesFit, LateCounted
  <2> QED  BY <2>2, <2>4, <2>6 DEF LateCounted, Midnight, InTime
<1> QED  BY <1>3, <1>4, <1>5 DEF TimesFit

LEMMA QuietTimes ==
  ASSUME CaptureConstants, CaptureInv, CaptureInv', TimesFit,
         Switch \/ DurationOver \/ Crash \/ ConvertToCsv \/ ConvertToLas
  PROVE  TimesFit'
<1> USE DEF CaptureInv
<1>1. Len(file.recs) \in Nat
  <2>1. file.recs \in Seq(FileRecords)
    BY DEF CaptureTyped, Files
  <2> QED  BY <2>1, LenProperties
<1>2. ASSUME UNCHANGED <<file, thread>>, lidar'.day = lidar.day, lidar'.clock = lidar.clock
      PROVE  TimesFit'
  BY <1>1, <1>2, TimesStay
<1>3. CASE Switch
  <2>1. lidar'.day = lidar.day /\ lidar'.clock = lidar.clock
    BY <1>3 DEF Switch, CaptureTyped
  <2> QED  BY <1>2, <1>3, <2>1 DEF Switch
<1>4. ASSUME NEW at \in {"closed", "crashed"}, thread' = [thread EXCEPT !.at = at]
      PROVE  /\ thread'.at = at /\ thread'.asked = thread.asked /\ thread'.began = thread.began
             /\ thread'.start = thread.start /\ thread'.now = thread.now /\ thread'.wait = thread.wait
             /\ thread'.duration = thread.duration /\ thread'.imu = thread.imu
  BY <1>4 DEF CaptureTyped
<1>5. CASE DurationOver
  <2>1. thread' = [thread EXCEPT !.at = "closed"] /\ UNCHANGED <<file, lidar>>
    BY <1>5 DEF DurationOver
  <2> QED  BY <1>1, <1>4, <2>1, TimesStay
<1>6. CASE Crash
  <2>1. thread' = [thread EXCEPT !.at = "crashed"] /\ UNCHANGED lidar
    BY <1>6 DEF Crash
  <2>2. /\ Len(file'.recs) \in 0 .. Len(file.recs)
        /\ \A k \in 1 .. Len(file'.recs) : file'.recs[k] = file.recs[k]
    BY <1>6, CrashCuts
  <2> QED  BY <1>4, <2>1, <2>2, TimesStay
<1>7. CASE ConvertToCsv
  BY <1>2, <1>7 DEF ConvertToCsv
<1>8. CASE ConvertToLas
  BY <1>2, <1>8 DEF ConvertToLas
<1> QED  BY <1>3, <1>5, <1>6, <1>7, <1>8

LEMMA CloseTimes ==
  ASSUME CaptureConstants, CaptureInv, CaptureInv', TimesFit, Close
  PROVE  TimesFit'
<1> USE DEF CaptureInv
<1>1. /\ thread.at \in {"delays", "writes"} /\ thread' = [thread EXCEPT !.at = "closed", !.stopped = TRUE]
      /\ file' = IF thread.at = "delays" THEN Headed ELSE file
      /\ UNCHANGED lidar
  BY DEF Close
<1>2. /\ thread'.at = "closed" /\ thread'.asked = thread.asked /\ thread'.began = thread.began
      /\ thread'.start = thread.start /\ thread'.now = thread.now /\ thread'.wait = thread.wait
      /\ thread'.duration = thread.duration /\ thread'.imu = thread.imu
  BY <1>1 DEF CaptureTyped
<1>3. CASE thread.at = "delays"
  <2>1. Len(file'.recs) = 0
    BY <1>1, <1>3, HeadedFits DEF HeaderFits
  <2>2. Clocked'
    BY <1>1, <1>2 DEF TimesFit, Clocked, Stamp
  <2> QED  BY <2>1, <2>2, TimesStart
<1>4. CASE thread.at = "writes"
  <2>1. Len(file.recs) \in Nat /\ UNCHANGED file
    <3>1. file.recs \in Seq(FileRecords)
      BY DEF CaptureTyped, Files
    <3> QED  BY <1>1, <1>4, <3>1, LenProperties
  <2> QED  BY <1>1, <1>2, <2>1, TimesStay
<1> QED  BY <1>1, <1>3, <1>4

LEMMA EarlyTimes ==
  ASSUME CaptureConstants, CaptureInv, CaptureInv', TimesFit, SaveDataToFile \/ Consume
  PROVE  TimesFit'
<1> USE DEF CaptureInv
<1>1. thread.at \in {"idle", "consumes"} /\ UNCHANGED file
  BY DEF SaveDataToFile, Consume
<1>2. Len(file'.recs) = 0
  BY <1>1 DEF HeaderFits, NoFile
<1>3. CASE SaveDataToFile
  <2>1. PICK wait \in Waits, duration \in Durations :
          thread' = [thread EXCEPT !.at = "consumes", !.wait = wait, !.duration = duration]
    BY <1>3 DEF SaveDataToFile
  <2>2. UNCHANGED lidar
    BY <1>3 DEF SaveDataToFile
  <2>3. /\ thread'.at = "consumes" /\ thread'.asked = thread.asked /\ thread'.began = thread.began
        /\ thread'.start = thread.start
    BY <2>1 DEF CaptureTyped
  <2>4. Clocked'
    BY <2>2, <2>3 DEF TimesFit, Clocked, Stamp
  <2> QED  BY <1>2, <2>4, TimesStart
<1>4. CASE Consume
  <2>1. PICK time \in Times, next \in {"delays", "refused"} :
          /\ Arrives(time)
          /\ thread' = [thread EXCEPT !.at = next, !.type = lidar.type, !.asked = time,
                          !.began = time, !.start = Stamp(time), !.now = Stamp(time)]
    BY <1>4 DEF Consume
  <2>2. time \in Nat /\ time < lidar'.clock /\ lidar'.day = lidar.day /\ lidar'.clock \in Nat
    BY <2>1, Arrived DEF CaptureTyped
  <2>3. thread'.at = next /\ thread'.asked = time /\ thread'.began = time /\ thread'.start = Stamp(time)
    BY <2>1 DEF CaptureTyped
  <2>4. Clocked'
    BY <2>2, <2>3 DEF Clocked, Stamp
  <2> QED  BY <1>2, <2>4, TimesStart
<1> QED  BY <1>3, <1>4

(* Stamps go on no faster than the sensor's clock: the delay is over.       *)
LEMMA DelayTimes ==
  ASSUME CaptureConstants, CaptureInv, CaptureInv', TimesFit, Delay
  PROVE  TimesFit'
<1> USE DEF CaptureInv
<1>1. PICK time \in Times :
        /\ Arrives(time)
        /\ IF Stamp(time) - thread.start > thread.wait
             THEN /\ thread' = [thread EXCEPT !.at = "writes", !.began = time,
                                  !.start = Stamp(time), !.now = Stamp(time)]
                  /\ file' = Headed
             ELSE /\ thread' = [thread EXCEPT !.now = Stamp(time)]
                  /\ UNCHANGED file
  BY DEF Delay
<1>2. thread.at = "delays" /\ file = NoFile /\ thread.type \in lidar.kind.types
  BY DEF Delay, HeaderFits
<1>3. /\ time \in Nat /\ lidar.clock <= time /\ time < lidar'.clock /\ lidar'.day = lidar.day
      /\ lidar.clock <= lidar'.clock /\ lidar.clock \in Nat /\ lidar'.clock \in Nat
  BY <1>1, Arrived DEF CaptureTyped
<1>4. /\ thread.asked \in Nat /\ thread.began \in Nat /\ thread.wait \in Nat
      /\ thread.began <= lidar.clock /\ thread.start = Stamp(thread.began)
      /\ thread.began = thread.asked
  BY <1>2 DEF CaptureTyped, TimesFit, Clocked
<1>5. Stamp(time) - Stamp(thread.began) <= time - thread.began
      /\ Stamp(time) \in Nat /\ Stamp(thread.began) \in Nat
  <2>1. thread.began <= time
    BY <1>3, <1>4
  <2> QED  BY <1>3, <1>4, <2>1, SensorFacts, StampsKeepPace
<1>6. Len(NoFile.recs) = 0 /\ Len(Headed.recs) = 0
  BY <1>2, HeadedFits DEF NoFile
<1>7. CASE Stamp(time) - thread.start > thread.wait
  <2>1. /\ thread'.at = "writes" /\ thread'.asked = thread.asked /\ thread'.began = time
        /\ thread'.start = Stamp(time) /\ thread'.wait = thread.wait
    BY <1>1, <1>7 DEF CaptureTyped
  <2>2. time > thread.asked + thread.wait
    BY <1>3, <1>4, <1>5, <1>7
  <2>3. Stamp(time)' = Stamp(time)
    BY <1>3 DEF Stamp
  <2>4. thread.asked <= time /\ time <= lidar'.clock
    BY <1>3, <1>4, <2>2
  <2>5. Clocked'
    BY <1>3, <2>1, <2>2, <2>3, <2>4 DEF Clocked, Stamp
  <2>6. Len(file'.recs) = 0
    BY <1>1, <1>6, <1>7
  <2> QED  BY <2>5, <2>6, TimesStart
<1>8. CASE ~(Stamp(time) - thread.start > thread.wait)
  <2>1. /\ thread'.at = "delays" /\ thread'.asked = thread.asked /\ thread'.began = thread.began
        /\ thread'.start = thread.start
    BY <1>1, <1>2, <1>8 DEF CaptureTyped
  <2>2. thread.began <= lidar'.clock
    BY <1>3, <1>4
  <2>3. Clocked'
    BY <1>3, <1>4, <2>1, <2>2 DEF Clocked, Stamp
  <2>4. Len(file'.recs) = 0
    BY <1>1, <1>2, <1>6, <1>8
  <2> QED  BY <2>3, <2>4, TimesStart
<1> QED  BY <1>7, <1>8

(* One sample, one more late packet.                                        *)
LEMMA ReadImuTimes ==
  ASSUME CaptureConstants, CaptureInv, TimesFit, ReadImu
  PROVE  TimesFit'
<1> USE DEF CaptureInv
<1>1. UNCHANGED <<lidar, file>>
  BY DEF ReadImu
<1>2. PICK age \in Ages :
        thread' = [thread EXCEPT !.now = Stamp(lidar.clock + PacketSpan - age),
                     !.imu = @ + 1, !.polled = TRUE]
  BY DEF ReadImu
<1>3. /\ thread'.at = thread.at /\ thread'.asked = thread.asked /\ thread'.began = thread.began
      /\ thread'.start = thread.start /\ thread'.wait = thread.wait
      /\ thread'.duration = thread.duration /\ thread'.imu = thread.imu + 1
  BY <1>2 DEF CaptureTyped
<1>4. Clocked'
  BY <1>1, <1>3 DEF TimesFit, Clocked, Stamp
<1>5. RecordsTimed'
  <2>1. RecordsTimed
    BY DEF TimesFit
  <2> QED  BY <1>1, <1>3, <2>1 DEF RecordsTimed, Timed, Stamp, InOrder, Midnight
<1>6. LateCounted'
  <2>1. PacketsLate' = PacketsLate
    BY <1>1, <1>3 DEF PacketsLate, Late
  <2>2. IsFiniteSet(PacketsLate)
    BY DEF TimesFit, LateCounted
  <2>3. Cardinality(PacketsLate) \in Nat /\ thread.imu \in Nat
    BY <2>2, FS_CardinalityType DEF CaptureTyped, CaptureConstants
  <2>4. ASSUME ~Midnight(thread.began, lidar.clock)
        PROVE  /\ Cardinality(PacketsLate) <= 1 + (thread.imu + 1)
               /\ Cardinality(PacketsLate) <= thread.imu + 1
    BY <2>3, <2>4 DEF TimesFit, LateCounted
  <2> QED  BY <1>1, <1>3, <2>1, <2>2, <2>4 DEF LateCounted, Midnight
<1> QED  BY <1>4, <1>5, <1>6 DEF TimesFit

(* A packet is later than all before it, and its points than theirs unless  *)
(* the stamps fall or the thread has added up too much.                     *)
LEMMA PacketIsTimed ==
  ASSUME CaptureConstants, CaptureInv, TimesFit, WritePoints,
         NEW time \in Times, Arrives(time), NEW new \in Seq(FileRecords), NEW end \in Nat,
         PacketFits(new, TakenFor, time, end),
         end = Stamp(time) + Offset(lidar.kind.fw, TakenFor, PerPacket - 1),
         file'.recs = file.recs \o new,
         thread'.asked = thread.asked, thread'.wait = thread.wait
  PROVE  RecordsTimed'
<1> USE DEF CaptureInv
<1> DEFINE recs == file.recs
           all == recs \o new
           n == Len(recs)
           m == Len(new)
           clock == lidar.clock
           next == lidar'.clock
           TimedNext(rec) ==
             /\ rec.at > thread.asked + thread.wait /\ rec.at < next
             /\ Stamp(rec.at) <= rec.time
             /\ rec.type \notin {3, 5} => rec.time - Stamp(rec.at) <= next - rec.at
<1>1. /\ time \in Nat /\ clock <= time /\ time < next /\ next = time + PacketSpan
      /\ lidar'.day = lidar.day /\ clock <= next /\ clock \in Nat /\ next \in Nat
      /\ PacketSpan \in Nat /\ lidar.day \in Nat
  BY Arrived, SensorFacts DEF CaptureTyped
<1>2. recs \in Seq(FileRecords) /\ \A k \in 1 .. n : recs[k] \in FileRecords
  <2>1. recs \in Seq(FileRecords)
    BY DEF CaptureTyped, Files
  <2> HIDE DEF recs
  <2> QED  BY <2>1, ElementOfSeq
<1>3. /\ Len(all) = n + m /\ n \in Nat /\ m \in Nat
      /\ \A k \in 1 .. n : all[k] = recs[k]
      /\ \A k \in 1 .. m : all[n + k] = new[k]
  <2> HIDE DEF recs
  <2> QED  BY <1>2, ConcatProperties, LenProperties
<1>4. /\ \A k \in 1 .. m : /\ new[k].type = TakenFor /\ new[k].at = time
                           /\ Stamp(time) <= new[k].time /\ new[k].time <= end
                           /\ new[k].time \in Nat
      /\ \A j, k \in 1 .. m : j < k => new[j].time <= new[k].time
  <2>1. \A k \in 1 .. m : new[k] \in FileRecords
    BY ElementOfSeq
  <2>2. \A k \in 1 .. m : new[k].time \in Nat
    BY <2>1 DEF FileRecords
  <2> QED  BY <2>2 DEF PacketFits
<1>5. TakenFor \notin {3, 5} => end - Stamp(time) <= next - time
  <2> SUFFICES ASSUME TakenFor \notin {3, 5}
               PROVE  end - Stamp(time) <= next - time
    OBVIOUS
  <2> DEFINE type == TakenFor
             stamp == Stamp(time)
             offset == Offset(lidar.kind.fw, type, PerPacket - 1)
  <2>1. lidar.kind.fw = 1 => type = lidar.type
    BY DEF TakenFor, Numbered
  <2>2. type \in DataTypes \ {3, 5} /\ stamp \in Nat
    BY <1>1, SensorFacts, StampsKeepPace
  <2>3. end = stamp + offset
    OBVIOUS
  <2> HIDE DEF type, stamp
  <2>4. offset <= PacketSpan /\ offset \in Nat
    <3>1. offset <= Span(lidar.kind.fw, lidar.type, PerPacket)
      BY <2>1, <2>2, SensorFacts, OffsetInSpan
    <3>2. PerPacket - 1 \in Nat
      BY SensorFacts
    <3>3. offset \in Nat
      BY <2>2, <3>2, SensorFacts, OffsetsRise
    <3> QED  BY <3>1, <3>3 DEF PacketSpan
  <2> HIDE DEF offset, next
  <2>5. end - stamp <= next - time
    BY <1>1, <2>2, <2>3, <2>4
  <2> QED  BY <2>5 DEF stamp
<1>6. time > thread.asked + thread.wait
  <2>1. /\ thread.began > thread.asked + thread.wait /\ thread.began <= clock
        /\ thread.asked \in Nat /\ thread.wait \in Nat /\ thread.began \in Nat
    BY DEF WritePoints, TimesFit, Clocked, CaptureTyped
  <2> HIDE DEF clock, next
  <2> QED  BY <1>1, <2>1
<1>7. ASSUME NEW k \in 1 .. n
      PROVE  /\ recs[k].at > thread.asked + thread.wait /\ recs[k].at < clock
             /\ Stamp(recs[k].at) <= recs[k].time
             /\ recs[k].type \notin {3, 5} => recs[k].time - Stamp(recs[k].at) <= clock - recs[k].at
             /\ recs[k].at \in Nat /\ recs[k].time \in Nat /\ Stamp(recs[k].at) \in Nat
  <2>1. recs[k].at \in Nat /\ recs[k].time \in Nat
    BY <1>2 DEF FileRecords
  <2>2. Stamp(recs[k].at) \in Nat
    BY <1>1, <2>1, StampsKeepPace
  <2> QED  BY <2>1, <2>2 DEF TimesFit, RecordsTimed, Timed
<1>8. ASSUME NEW k \in 1 .. n
      PROVE  TimedNext(recs[k])
  <2> DEFINE at == recs[k].at
             t == recs[k].time
             stamp == Stamp(at)
             type == recs[k].type
  <2>1. /\ at > thread.asked + thread.wait /\ at < clock /\ stamp <= t
        /\ type \notin {3, 5} => t - stamp <= clock - at
        /\ at \in Nat /\ t \in Nat /\ stamp \in Nat
    BY <1>7
  <2> HIDE DEF at, t, stamp, clock, next, type
  <2>2. at < next /\ (type \notin {3, 5} => t - stamp <= next - at)
    BY <1>1, <2>1
  <2> QED  BY <2>1, <2>2 DEF at, t, stamp, type
<1>9. ASSUME NEW k \in 1 .. n + m
      PROVE  TimedNext(all[k])
  <2>1. CASE k \in 1 .. n
    <3>1. all[k] = recs[k]
      BY <1>3, <2>1
    <3>2. TimedNext(recs[k])
      BY <1>8, <2>1
    <3> HIDE DEF recs, all, TimedNext
    <3> QED  BY <3>1, <3>2
  <2>2. CASE k \notin 1 .. n
    <3>1. k - n \in 1 .. m /\ k = n + (k - n)
      BY <1>3, <2>2
    <3>2. PICK j \in 1 .. m : k = n + j
      BY <3>1
    <3>3. all[k] = new[j]
      BY <1>3, <3>2
    <3>4. TakenFor \notin {3, 5} => new[j].time - Stamp(time) <= next - time
      <4> DEFINE stamp == Stamp(time)
      <4>1. stamp \in Nat /\ next - time \in Nat
        BY <1>1, StampsKeepPace
      <4>2. new[j].time \in Nat /\ new[j].time <= end
        BY <1>4
      <4>3. TakenFor \notin {3, 5} => end - stamp <= next - time
        BY <1>5
      <4> HIDE DEF stamp, next
      <4>4. TakenFor \notin {3, 5} => new[j].time - stamp <= next - time
        BY <4>1, <4>2, <4>3
      <4> QED  BY <4>4 DEF stamp
    <3>5. new[j].type = TakenFor /\ new[j].at = time /\ Stamp(time) <= new[j].time /\ time < next
      BY <1>1, <1>4
    <3>6. TimedNext(new[j])
      <4> HIDE DEF next
      <4> QED  BY <1>6, <3>4, <3>5
    <3> HIDE DEF all, TimedNext
    <3> QED  BY <3>3, <3>6
  <2> QED  BY <2>1, <2>2
<1>10. ASSUME NEW k \in 2 .. n + m
       PROVE  InOrder(all[k - 1], all[k])
  <2>1. CASE k \in 1 .. n
    <3>1. all[k] = recs[k] /\ all[k - 1] = recs[k - 1] /\ k \in 2 .. n
      <4> HIDE DEF recs, all, n, m, clock, next, TimedNext
      <4>1. k \in 2 .. n /\ k - 1 \in 1 .. n
        BY <1>3, <2>1
      <4> QED  BY <1>3, <2>1, <4>1
    <3>2. InOrder(recs[k - 1], recs[k])
      BY <3>1 DEF TimesFit, RecordsTimed
    <3> HIDE DEF recs, all, n
    <3> QED  BY <3>1, <3>2
  <2>2. CASE k = n + 1
    <3>1. 1 \in 1 .. m /\ n \in 1 .. n /\ k - 1 = n
      BY <1>3, <2>2
    <3>2. all[k] = new[1] /\ all[k - 1] = recs[n]
      BY <1>3, <2>2, <3>1
    <3> DEFINE before == recs[n]
               stamp == Stamp(time)
               past == Stamp(before.at)
    <3>3. before.at < clock /\ before.at \in Nat /\ before.time \in Nat /\ past \in Nat
          /\ (before.type \notin {3, 5} => before.time - past <= clock - before.at)
      BY <1>7, <3>1
    <3>4. new[1].at = time /\ stamp <= new[1].time /\ new[1].time \in Nat /\ stamp \in Nat
      BY <1>1, <1>4, <3>1, StampsKeepPace
    <3>5. before.at < time
      <4> HIDE DEF before, clock
      <4> QED  BY <1>1, <3>3
    <3>6. ~Midnight(before.at, time) => stamp - past = time - before.at
      <4>1. before.at <= time
        <5> HIDE DEF before
        <5> QED  BY <1>1, <3>3, <3>5
      <4> QED  BY <1>1, <3>3, <4>1, StampsKeepPace
    <3>7. ~Midnight(before.at, time) /\ before.type \notin {3, 5} => before.time <= new[1].time
      <4> DEFINE a == before.at
                 t == before.time
                 u == new[1].time
                 late == Midnight(before.at, time)
                 fast == before.type \in {3, 5}
      <4>1. /\ a < clock /\ a \in Nat /\ t \in Nat /\ past \in Nat /\ a < time
            /\ ~fast => t - past <= clock - a
            /\ ~late => stamp - past = time - a
            /\ stamp <= u /\ u \in Nat /\ stamp \in Nat
            /\ time \in Nat /\ clock \in Nat /\ clock <= time
        BY <1>1, <3>3, <3>4, <3>5, <3>6
      <4> HIDE DEF a, t, u, late, fast, stamp, past, clock
      <4>2. ~late /\ ~fast => t <= u
        BY <4>1
      <4> QED  BY <4>2 DEF a, t, u, late, fast
    <3> HIDE DEF before, stamp, past, clock
    <3>8. InOrder(before, new[1])
      <4>1. new[1].time < before.time => ~(before.time <= new[1].time)
        BY <3>3, <3>4
      <4> QED  BY <3>4, <3>5, <3>7, <4>1 DEF InOrder
    <3> HIDE DEF recs, all, n
    <3> QED  BY <3>1, <3>2, <3>8 DEF before
  <2>3. CASE k \in n + 2 .. n + m
    <3>1. k - n \in 1 .. m /\ k - n - 1 \in 1 .. m /\ k = n + (k - n) /\ k - 1 = n + (k - n - 1)
          /\ k - n - 1 < k - n
      BY <1>3, <2>3
    <3>2. all[k] = new[k - n] /\ all[k - 1] = new[k - n - 1]
      BY <1>3, <3>1
    <3>3. /\ new[k - n - 1].time <= new[k - n].time
          /\ new[k - n - 1].time \in Nat /\ new[k - n].time \in Nat
      BY <1>4, <3>1
    <3>4. ~(new[k - n].time < new[k - n - 1].time)
      BY <3>3
    <3>5. InOrder(new[k - n - 1], new[k - n])
      BY <3>4 DEF InOrder
    <3> HIDE DEF recs, all, n
    <3> QED  BY <3>2, <3>5
  <2>4. k \in 1 .. n \/ k = n + 1 \/ k \in n + 2 .. n + m
    BY <1>3
  <2> QED  BY <2>1, <2>2, <2>3, <2>4
<1>11. file'.recs = all /\ Len(file'.recs) = n + m
  BY <1>3
<1>12. ASSUME NEW k \in 1 .. Len(file'.recs)
       PROVE  Timed(file.recs[k])'
  <2> DEFINE rec == file'.recs[k]
  <2>1. TimedNext(rec)
    <3>1. k \in 1 .. n + m /\ rec = all[k]
      BY <1>11
    <3> HIDE DEF all, TimedNext, rec, n, m
    <3> QED  BY <1>9, <3>1
  <2>2. /\ rec.at > thread.asked + thread.wait /\ rec.at < lidar'.clock
        /\ Stamp(rec.at) <= rec.time
        /\ rec.type \notin {3, 5} => rec.time - Stamp(rec.at) <= lidar'.clock - rec.at
    BY <2>1
  <2>3. Stamp(rec.at) = IF rec.at >= lidar'.day THEN rec.at - lidar'.day ELSE rec.at
    BY <1>1 DEF Stamp
  <2> QED  BY <2>2, <2>3 DEF Timed, Stamp
<1>13. ASSUME NEW k \in 2 .. Len(file'.recs)
       PROVE  InOrder(file.recs[k - 1], file.recs[k])'
  <2>1. InOrder(file'.recs[k - 1], file'.recs[k])
    <3>1. k \in 2 .. n + m /\ file'.recs = all
      BY <1>11
    <3> HIDE DEF all, n, m
    <3> QED  BY <1>10, <3>1
  <2> QED  BY <1>1, <2>1 DEF InOrder, Midnight
<1> HIDE DEF all, n, m, recs, next, clock
<1> QED  BY <1>12, <1>13 DEF RecordsTimed

(* Before it the thread was within the duration; if the packet is late, the *)
(* thread no longer is.                                                     *)
LEMMA PacketIsCounted ==
  ASSUME CaptureConstants, CaptureInv, TimesFit, WritePoints,
         NEW time \in Times, Arrives(time), NEW new \in Seq(FileRecords), NEW end \in Nat,
         PacketFits(new, TakenFor, time, end),
         file'.recs = file.recs \o new,
         thread'.began = thread.began, thread'.start = thread.start, thread'.now = end,
         thread'.duration = thread.duration, thread'.imu = thread.imu,
         Stamp(time) <= end
  PROVE  LateCounted'
<1> USE DEF CaptureInv
<1> DEFINE limit == thread.began + thread.duration
           old == PacketsLate
           late == Late(file'.recs, limit)
<1>1. /\ time \in Nat /\ lidar.clock <= time /\ time < lidar'.clock
      /\ lidar'.day = lidar.day /\ lidar.clock \in Nat /\ lidar'.clock \in Nat
      /\ lidar.clock <= lidar'.clock /\ lidar.day \in Nat
  BY Arrived, SensorFacts DEF CaptureTyped
<1>2. /\ thread.began \in Nat /\ thread.duration \in Nat /\ thread.imu \in Nat
      /\ thread.start = Stamp(thread.began) /\ thread.began <= lidar.clock
  BY DEF CaptureTyped, CaptureConstants, TimesFit, Clocked
<1>3. PacketsLate' = late
  BY DEF PacketsLate, Late
<1>4. late \subseteq old \cup {time} /\ (~(time > limit) => late \subseteq old)
  <2>1. file.recs \in Seq(FileRecords)
    BY DEF CaptureTyped, Files
  <2>2. \A k \in 1 .. Len(new) : new[k].at = time
    BY DEF PacketFits
  <2> DEFINE recs == file.recs
  <2>3. recs \in Seq(FileRecords) /\ late = Late(recs \o new, limit) /\ old = Late(recs, limit)
    BY <2>1 DEF PacketsLate
  <2> HIDE DEF recs, late, old, limit
  <2>4. /\ Late(recs \o new, limit) \subseteq Late(recs, limit) \cup {time}
        /\ ~(time > limit) => Late(recs \o new, limit) \subseteq Late(recs, limit)
    BY <2>2, <2>3, LateOfPacket
  <2> QED  BY <2>3, <2>4
<1>5. IsFiniteSet(old)
  BY DEF TimesFit, LateCounted
<1> HIDE DEF late, old, limit
<1>6. /\ Cardinality(old) \in Nat
      /\ IsFiniteSet(old \cup {time}) /\ Cardinality(old \cup {time}) \in Nat
      /\ Cardinality(old \cup {time}) <= Cardinality(old) + 1
  <2>1. Cardinality(old) \in Nat
    BY <1>5, FS_CardinalityType
  <2>2. /\ IsFiniteSet(old \cup {time})
        /\ \/ Cardinality(old \cup {time}) = Cardinality(old)
           \/ Cardinality(old \cup {time}) = Cardinality(old) + 1
    BY <1>5, FS_AddElement
  <2> QED  BY <2>1, <2>2
<1>7. /\ IsFiniteSet(late) /\ Cardinality(late) \in Nat
      /\ Cardinality(late) <= Cardinality(old) + 1
      /\ ~(time > limit) => Cardinality(late) <= Cardinality(old)
  <2>1. IsFiniteSet(late) /\ Cardinality(late) <= Cardinality(old \cup {time})
    BY <1>4, <1>6, FS_Subset
  <2>2. Cardinality(late) \in Nat
    BY <2>1, FS_CardinalityType
  <2>3. ~(time > limit) => Cardinality(late) <= Cardinality(old)
    BY <1>4, <1>5, FS_Subset
  <2> QED  BY <1>6, <2>1, <2>2, <2>3
<1>8. ASSUME ~Midnight(thread.began, lidar'.clock)
      PROVE  /\ Cardinality(late) <= 1 + thread.imu
             /\ end - thread.start <= thread.duration => Cardinality(late) <= thread.imu
  <2>1. ~Midnight(thread.began, lidar.clock) /\ ~Midnight(thread.began, time)
    BY <1>1, <1>2, <1>8 DEF Midnight
  <2>2. Cardinality(old) <= thread.imu
    BY <2>1 DEF TimesFit, LateCounted, WritePoints, old
  <2>3. time > limit => ~(end - thread.start <= thread.duration)
    <3> DEFINE stamp == Stamp(time)
               start == Stamp(thread.began)
    <3>1. thread.began <= time
      BY <1>1, <1>2
    <3>2. stamp - start = time - thread.began /\ stamp \in Nat /\ start \in Nat
      BY <1>1, <1>2, <2>1, <3>1, StampsKeepPace
    <3>3. stamp <= end /\ thread.start = start
      BY <1>2
    <3> HIDE DEF stamp, start
    <3> QED  BY <1>1, <1>2, <3>2, <3>3 DEF limit
  <2> QED  BY <1>2, <1>6, <1>7, <2>2, <2>3
<1> QED  BY <1>1, <1>3, <1>7, <1>8 DEF LateCounted, Midnight, InTime

LEMMA WritePointsTimes ==
  ASSUME CaptureConstants, CaptureInv, TimesFit, WritePoints
  PROVE  TimesFit'
<1> USE DEF CaptureInv
<1>1. PICK time \in Times, new \in Seq(FileRecords), end \in Nat :
        /\ Arrives(time) /\ PacketFits(new, TakenFor, time, end)
        /\ end = Stamp(time) + Offset(lidar.kind.fw, TakenFor, PerPacket - 1)
        /\ file'.recs = file.recs \o new
        /\ thread' = [thread EXCEPT !.at = thread'.at, !.now = end, !.polled = FALSE,
                         !.steady = thread'.steady]
  BY PacketIsWritten
<1>2. /\ thread'.asked = thread.asked /\ thread'.began = thread.began
      /\ thread'.start = thread.start /\ thread'.wait = thread.wait /\ thread'.now = end
      /\ thread'.duration = thread.duration /\ thread'.imu = thread.imu
  BY <1>1 DEF CaptureTyped
<1>3. /\ time \in Nat /\ lidar'.day = lidar.day /\ lidar.clock <= lidar'.clock
      /\ lidar.clock \in Nat /\ lidar'.clock \in Nat
  BY <1>1, Arrived DEF CaptureTyped
<1>4. Clocked'
  <2>1. /\ thread.asked <= thread.began /\ thread.began <= lidar.clock
        /\ thread.start = Stamp(thread.began) /\ thread.began > thread.asked + thread.wait
        /\ thread.asked \in Nat /\ thread.began \in Nat
    BY DEF WritePoints, TimesFit, Clocked, CaptureTyped
  <2>2. thread.began <= lidar'.clock
    BY <1>3, <2>1
  <2>3. thread'.at # "delays"
    BY PacketIsWritten
  <2> QED  BY <1>2, <1>3, <2>1, <2>2, <2>3 DEF Clocked, Stamp
<1>5. RecordsTimed'
  BY <1>1, <1>2, PacketIsTimed
<1>6. Stamp(time) <= end
  <2> DEFINE stamp == Stamp(time)
             offset == Offset(lidar.kind.fw, TakenFor, PerPacket - 1)
  <2>1. stamp \in Nat
    BY <1>3, SensorFacts, StampsKeepPace
  <2>2. PerPacket - 1 \in Nat
    BY SensorFacts
  <2>3. offset \in Nat
    BY <2>2, SensorFacts, OffsetsRise
  <2>4. end = stamp + offset
    BY <1>1
  <2> HIDE DEF stamp, offset
  <2>5. stamp <= end
    BY <2>1, <2>3, <2>4
  <2> QED  BY <2>5 DEF stamp
<1>7. LateCounted'
  BY <1>1, <1>2, <1>6, PacketIsCounted
<1> QED  BY <1>4, <1>5, <1>7 DEF TimesFit

LEMMA TimesStep ==
  ASSUME CaptureConstants, CaptureInv, CaptureInv', TimesFit, [CaptureNext]_captureVars
  PROVE  TimesFit'
<1>1. CASE UNCHANGED captureVars
  <2>1. UNCHANGED <<lidar, thread, file>>
    BY <1>1 DEF captureVars
  <2>2. Len(file.recs) \in Nat
    <3>1. file.recs \in Seq(FileRecords)
      BY DEF CaptureInv, CaptureTyped, Files
    <3> QED  BY <3>1, LenProperties
  <2> QED  BY <2>1, <2>2, TimesStay DEF CaptureInv
<1> QED  BY <1>1, QuietTimes, CloseTimes, EarlyTimes, DelayTimes, ReadImuTimes, WritePointsTimes
         DEF CaptureNext

-----------------------------------------------------------------------------
(* What the invariant tells.                                                *)

LEMMA TableIsRecorded ==
  ASSUME CaptureInv, CaptureLog
  PROVE  TableIsCapture
<1> SUFFICES ASSUME table.kind \in {"csv", "las"}, thread.steady
             PROVE  /\ IsPrefix(Hits(table.rows), due)
                    /\ thread.at = "closed" => Hits(table.rows) = due
                    /\ \A k \in 1 .. (Len(table.rows) - 1) : Numbers(table.rows[k])
  BY DEF TableIsCapture
<1>1. Readable(file) /\ LogFits(file, due, thread.at) /\ table.rows = CsvRows(file)
  BY FileIsReadable DEF CaptureLog, CaptureInv, TableFits
<1>2. Hits(table.rows) = Recorded(file)
  <2>1. file.rest < Stride(file) /\ \A k \in 1 .. Len(file.recs) : file.recs[k].type = file.type
    BY <1>1 DEF LogFits
  <2> QED  BY <1>1, <2>1, HitsOfFile
<1> DEFINE whole == WholeRows(file)
           clipped == [point |-> file.last, return |-> 0]
           n == Len(whole)
<1>3. /\ whole \in Seq(WholeTableRows) /\ n \in Nat /\ \A k \in 1 .. n : whole[k] \in WholeTableRows
  <2>1. whole \in Seq(WholeTableRows)
    BY <1>1, WholeRowsAreWhole
  <2> HIDE DEF whole
  <2> QED  BY <2>1, LenProperties, ElementOfSeq
<1>4. whole \in Seq(TableRows) /\ clipped \in TableRows
  <2>1. file.last \in Shots
    BY <1>1 DEF Readable, Files
  <2>2. clipped \in TableRows
    BY <2>1 DEF TableRows
  <2> QED  BY <1>1, <2>2, RowsAreTableRows
<1>5. CsvRows(file) = whole \o <<>> \/ CsvRows(file) = whole \o <<clipped>>
  BY DEF CsvRows
<1> HIDE DEF whole, clipped
<1>6. \A k \in 1 .. n : Numbers(whole[k])
  BY <1>3 DEF WholeTableRows, Numbers
<1>7. whole \o <<>> = whole
  BY <1>4, ConcatEmptySeq
<1>8. whole \o <<clipped>> = Append(whole, clipped)
  BY <1>4, AppendIsConcat
<1>9. Len(Append(whole, clipped)) = n + 1 /\ \A k \in 1 .. n : Append(whole, clipped)[k] = whole[k]
  BY <1>4, AppendProperties
<1> HIDE DEF n
<1>10. \A k \in 1 .. (Len(table.rows) - 1) : Numbers(table.rows[k])
  <2>1. CASE CsvRows(file) = whole
    <3>1. Len(table.rows) = n /\ table.rows = whole
      BY <1>1, <2>1 DEF n
    <3> QED  BY <1>3, <1>6, <3>1
  <2>2. CASE CsvRows(file) = Append(whole, clipped)
    <3>1. Len(table.rows) = n + 1 /\ \A k \in 1 .. n : table.rows[k] = whole[k]
      BY <1>1, <1>9, <2>2
    <3>2. Len(table.rows) - 1 = n
      BY <1>3, <3>1
    <3> QED  BY <1>6, <3>1, <3>2
  <2> QED  BY <1>5, <1>7, <1>8, <2>1, <2>2
<1> QED  BY <1>1, <1>2, <1>10 DEF LogFits

LEMMA ConvertersAre ==
  ASSUME CaptureInv
  PROVE  ConvertersAgree
<1> QED  BY DEF CaptureInv, TableFits, ConvertersAgree

LEMMA CaptureIsTyped ==
  ASSUME CaptureInv, TimesFit
  PROVE  CaptureTypeOK
<1> DEFINE recs == file.recs
<1>1. recs \in Seq(FileRecords)
  BY DEF CaptureInv, CaptureTyped, Files
<1>2. DOMAIN recs = 1 .. Len(recs) /\ \A k \in DOMAIN recs : recs[k] \in FileRecords
  <2> HIDE DEF recs
  <2>1. DOMAIN recs = 1 .. Len(recs)
    BY <1>1, LenProperties
  <2> QED  BY <1>1, <2>1, ElementOfSeq
<1>3. \A k \in DOMAIN recs :
        /\ recs[k].type \in DataTypes /\ recs[k].return \in 1 .. 3 /\ recs[k].time \in Nat
        /\ recs[k].at \in Nat
  <2> HIDE DEF recs
  <2> QED  BY <1>2 DEF FileRecords
<1>4. \A k \in DOMAIN recs : recs[k].at < lidar.clock
  BY <1>2 DEF TimesFit, RecordsTimed, Timed
<1>5. lidar.clock \in Nat
  BY DEF CaptureInv, CaptureTyped
<1>6. \A k \in DOMAIN recs : recs[k].at \in 0 .. lidar.clock
  <2> HIDE DEF recs
  <2> QED  BY <1>3, <1>4, <1>5
<1>7. /\ thread.asked <= thread.began /\ thread.began <= lidar.clock
      /\ thread.imu \in 0 .. MaxSamples
  BY DEF CaptureInv, CaptureTyped, TimesFit, Clocked
<1> QED  BY <1>3, <1>6, <1>7 DEF CaptureTypeOK, CaptureInv, CaptureTyped

LEMMA TimesLie ==
  ASSUME CaptureInv, TimesFit
  PROVE  TimesInWindow
<1>1. DOMAIN file.recs = 1 .. Len(file.recs)
  <2>1. file.recs \in Seq(FileRecords)
    BY DEF CaptureInv, CaptureTyped, Files
  <2> QED  BY <2>1, LenProperties
<1>2. \A i \in DOMAIN file.recs : file.recs[i].at > thread.asked + thread.wait
  BY <1>1 DEF TimesFit, RecordsTimed, Timed
<1>3. ~Midnight(thread.began, lidar.clock) => Cardinality(PacketsLate) <= 1 + thread.imu
  BY DEF TimesFit, LateCounted
<1>4. \A i \in 2 .. Len(file.recs) : InOrder(file.recs[i - 1], file.recs[i])
  BY DEF TimesFit, RecordsTimed
<1> QED  BY <1>2, <1>3, <1>4 DEF TimesInWindow

-----------------------------------------------------------------------------
(* The theorems: for all kinds of sensor, any number of points in a packet  *)
(* and of packets, any delays and any durations.                            *)

CaptureAll == CaptureInv /\ CaptureLog /\ TimesFit

LEMMA CaptureHolds == CaptureSpec => []CaptureAll
<1>1. CaptureInit => CaptureAll
  BY CaptureAssumption, InitCapture, InitLog, InitTimes DEF CaptureAll
<1>2. CaptureAll /\ [CaptureNext]_captureVars => CaptureAll'
  BY CaptureAssumption, CaptureStep, LogStep, TimesStep DEF CaptureAll
<1> QED  BY <1>1, <1>2, PTL DEF CaptureSpec

(* The sensor, the thread, the file and the table keep their types.         *)
THEOREM CaptureTypeCorrect == CaptureSpec => []CaptureTypeOK
<1>1. CaptureAll => CaptureTypeOK
  BY CaptureIsTyped DEF CaptureAll
<1> QED  BY <1>1, CaptureHolds, PTL

(* The table has the hits of the packets that were read for the file, each  *)
(* once and in order: all of them once it is closed, the first of them      *)
(* after a crash.                                                           *)
THEOREM TableHoldsCapture == CaptureSpec => []TableIsCapture
<1>1. CaptureAll => TableIsCapture
  BY TableIsRecorded DEF CaptureAll
<1> QED  BY <1>1, CaptureHolds, PTL

(* A LAS file has the rows of the CSV file, and no conversion that fails    *)
(* deletes the binary file.                                                 *)
THEOREM ConvertersStayAgreed == CaptureSpec => []ConvertersAgree
<1>1. CaptureAll => ConvertersAgree
  BY ConvertersAre DEF CaptureAll
<1> QED  BY <1>1, CaptureHolds, PTL

(* No point in the file is of the delay; unless midnight has come, no more  *)
(* packets are past the duration than the last and one for each IMU sample; *)
(* and the times fall only at midnight and after the spherical points of a  *)
(* Horizon.                                                                 *)
THEOREM TimesStayInWindow == CaptureSpec => []TimesInWindow
<1>1. CaptureAll => TimesInWindow
  BY TimesLie DEF CaptureAll
<1> QED  BY <1>1, CaptureHolds, PTL
=============================================================================
