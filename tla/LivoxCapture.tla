---------------------------- MODULE LivoxCapture ----------------------------
(***************************************************************************)
(* Capturing the points of one Livox sensor to a binary file and           *)
(* converting that file (_dataCaptureThread.run_realtime_bin,              *)
(* _convertBin2CSV and _convertBin2LAS of openpylivox.py).                 *)
(*                                                                         *)
(* The thread reads packets all the time and writes the points of those    *)
(* that come after a delay and within a duration, by the time the sensor   *)
(* stamps on packets and IMU samples: a stamp by GPS starts again at       *)
(* midnight, and a sample may be older than the points read before it.     *)
(* Packets are lost, another command changes the type of the points while  *)
(* it writes, the file is closed early, the process ends with part of the  *)
(* file on disk.                                                           *)
(*                                                                         *)
(* Bounds: PerPacket points in a packet instead of 48 to 100, MaxPackets   *)
(* packets and MaxSamples IMU samples until a file is closed, one change   *)
(* of the type and one midnight.                                           *)
(***************************************************************************)
EXTENDS PointFile, FiniteSets

CONSTANTS
  Sensors,     (* the kinds of sensor: [fw, types, mid100]                  *)
  PerPacket,
  MaxPackets,
  MaxSamples,
  Ages,        (* how old an IMU sample may be when it is read              *)
  Days,        (* when the stamps start again, as the sensor's clock goes   *)
  Waits,       (* secsToWait of a capture                                   *)
  Durations    (* duration of a capture                                     *)

(* A Mid, which alone may have the firmware for more returns, has no types  *)
(* but two (openpylivox.py:1206-1331).                                      *)
CaptureConstants ==
  /\ \A s \in Sensors : /\ s.fw \in Firmwares /\ s.types \subseteq DataTypes
                        /\ s.mid100 \in BOOLEAN
                        /\ Numbered(s.fw) => s.types \subseteq {0, 1}
  /\ PerPacket \in Nat \ {0} /\ MaxPackets \in Nat /\ MaxSamples \in Nat
  /\ Days \subseteq Nat /\ Ages \subseteq Nat
  /\ Waits \subseteq Nat /\ Durations \subseteq Nat

ASSUME CaptureAssumption == CaptureConstants

VARIABLES
  lidar,    (* its kind, the type of its points now, its clock, midnight    *)
  thread,   (* the capture thread                                           *)
  file,     (* what the thread has written and, at the end, is on disk      *)
  due,      (* the rows the hits of the packets read for the file should    *)
            (* make, in order                                               *)
  table     (* what the conversion has made of the file                     *)

captureVars == <<lidar, thread, file, due, table>>

NoFile == [fw |-> 1, type |-> 0, recs |-> <<>>, rest |-> 0, last |-> Garbage, headed |-> FALSE]

CaptureInit ==
  /\ \E kind \in Sensors, day \in Days : \E type \in kind.types :
       lidar = [kind |-> kind, type |-> type, clock |-> 0, day |-> day, packets |-> 0,
                switched |-> FALSE]
  /\ thread = [at |-> "idle", stopped |-> FALSE, steady |-> TRUE, type |-> 0,
               asked |-> 0, began |-> 0, start |-> 0, now |-> 0, polled |-> TRUE,
               wait |-> 0, duration |-> 0, imu |-> 0]
  /\ file = NoFile
  /\ due = <<>>
  /\ table = [kind |-> "none", rows |-> <<>>, imu |-> 0, deleted |-> FALSE]

CaptureTypeOK ==
  /\ lidar.kind \in Sensors /\ lidar.type \in lidar.kind.types
  /\ thread.at \in {"idle", "consumes", "delays", "writes", "closed", "refused", "died", "crashed"}
  /\ thread.asked <= thread.began /\ thread.began <= lidar.clock
  /\ thread.imu \in 0..MaxSamples
  /\ \A i \in DOMAIN file.recs :
       /\ file.recs[i].type \in DataTypes /\ file.recs[i].return \in 1..3
       /\ file.recs[i].time \in Nat /\ file.recs[i].at \in 0..lidar.clock
  /\ table.kind \in {"none", "csv", "las", "error"}
-----------------------------------------------------------------------------
(* The sensor.                                                              *)

PacketSpan == Span(lidar.kind.fw, lidar.type, PerPacket)

(* The next packet arrives, at this time; the one before it may be lost.    *)
Arrives(time) ==
  /\ lidar.packets < MaxPackets
  /\ time \in {lidar.clock, lidar.clock + PacketSpan}
  /\ lidar' = [lidar EXCEPT !.packets = @ + 1, !.clock = time + PacketSpan]

(* setCartesianCS, setSphericalCS or setLidarReturnMode.                    *)
Switch ==
  /\ thread.at \in {"delays", "writes"} /\ ~lidar.switched
  /\ \E type \in lidar.kind.types \ {lidar.type} :
       lidar' = [lidar EXCEPT !.type = type, !.switched = TRUE]
  /\ UNCHANGED <<thread, file, due, table>>

Times == {lidar.clock, lidar.clock + PacketSpan}

(* getTimestamp: of a stamp by GPS the time of day, without the date; other *)
(* stamps go on past midnight, which a day that never comes stands for.     *)
Stamp(time) == IF time >= lidar.day THEN time - lidar.day ELSE time
-----------------------------------------------------------------------------
(* The caller.                                                              *)

(* A duration of 0 replaces the four years the thread was created with.     *)
SaveDataToFile ==
  /\ thread.at = "idle"
  /\ \E wait \in Waits, duration \in Durations :
       thread' = [thread EXCEPT !.at = "consumes", !.wait = wait, !.duration = duration]
  /\ UNCHANGED <<lidar, file, due, table>>

Headed == [NoFile EXCEPT !.fw = lidar.kind.fw, !.type = thread.type, !.headed = TRUE]

(* closeFile, or another call that joins the thread: it leaves its loop and *)
(* closes the file; if it still waits for the delay, a file with a header.  *)
Close ==
  /\ thread.at \in {"delays", "writes"}
  /\ thread' = [thread EXCEPT !.at = "closed", !.stopped = TRUE]
  /\ file' = IF thread.at = "delays" THEN Headed ELSE file
  /\ UNCHANGED <<lidar, due, table>>
-----------------------------------------------------------------------------
(* The thread.                                                              *)

(* The packet that finds isCapturing set gives the time the delay counts    *)
(* from, and the type for the header; if it has another format, the thread  *)
(* ends without a file.                                                     *)
Consume ==
  /\ thread.at = "consumes"
  /\ \E time \in Times, next \in {"delays", "refused"} :
       /\ Arrives(time)
       /\ thread' = [thread EXCEPT !.at = next, !.type = lidar.type, !.asked = time,
                       !.began = time, !.start = Stamp(time), !.now = Stamp(time)]
  /\ UNCHANGED <<file, due, table>>

(* Packets are read and left out until one is later than the delay.         *)
Delay ==
  /\ thread.at = "delays"
  /\ \E time \in Times :
       /\ Arrives(time)
       /\ IF Stamp(time) - thread.start > thread.wait
            THEN /\ thread' = [thread EXCEPT !.at = "writes", !.began = time,
                                 !.start = Stamp(time), !.now = Stamp(time)]
                 /\ file' = Headed
            ELSE /\ thread' = [thread EXCEPT !.now = Stamp(time)]
                 /\ UNCHANGED file
  /\ UNCHANGED <<due, table>>

(* The points of a packet, as records of the type the thread takes it for.  *)
Points(kinds) == [i \in 1..Len(kinds) |-> [of |-> lidar.packets, i |-> i, kind |-> kinds[i]]]

Only(test, x) == IF test THEN <<x>> ELSE <<>>

Records(points, type, time) ==
  LET fw == lidar.kind.fw
      Record(i) == [point |-> points[i], type |-> type, return |-> Return(fw, i - 1),
                    at |-> time, time |-> Stamp(time) + Offset(fw, type, i - 1)]
      IsKept(p) == p = Garbage \/ Kept(p.kind, type, lidar.kind.mid100)
  IN FlattenSeq([i \in 1..Len(points) |-> Only(IsKept(points[i]), Record(i))])

(* What a table should have of a packet's hits; a dual point makes two rows.*)
RowsDue(points, type) ==
  LET RowsOf(i) == LET row == [point |-> points[i], return |-> Return(lidar.kind.fw, i - 1)]
                   IN IF type \in {4, 5} THEN <<row, [row EXCEPT !.return = 2]>> ELSE <<row>>
  IN FlattenSeq([i \in 1..Len(points) |-> IF points[i].kind = "hit" THEN RowsOf(i) ELSE <<>>])

(* With one return for each pulse the thread goes by the type of the        *)
(* packet, with more by the type of the header: then points of another type *)
(* come out as nonsense, and short ones end the thread with an exception.   *)
TakenFor == IF Numbered(lidar.kind.fw) THEN thread.type ELSE lidar.type
Reached == (PerPacket * PointSize(lidar.type)) \div PointSize(TakenFor)

RecordsWritten(points, time) ==
  IF TakenFor = lidar.type THEN Records(points, TakenFor, time)
  ELSE Records([i \in 1..(IF Reached < PerPacket THEN Reached ELSE PerPacket) |-> Garbage], TakenFor, time)

InTime == thread.now - thread.start <= thread.duration

WritePoints ==
  /\ thread.at = "writes" /\ InTime
  /\ \E time \in Times, kinds \in [1..PerPacket -> PointKinds] :
       /\ Arrives(time)
       /\ file' = [file EXCEPT !.recs = @ \o RecordsWritten(Points(kinds), time)]
       /\ due' = due \o RowsDue(Points(kinds), lidar.type)
       /\ thread' = [thread EXCEPT
            !.at = IF Reached < PerPacket THEN "died" ELSE @,
            !.now = Stamp(time) + Offset(lidar.kind.fw, TakenFor, PerPacket - 1),
            !.polled = FALSE,
            !.steady = @ /\ lidar.type = thread.type]
  /\ UNCHANGED table

(* A Horizon sends IMU samples to a socket of their own, which the thread   *)
(* polls after that of the points, without a look at the time between the   *)
(* two, and does not empty while it waits to be told to capture.  A sample  *)
(* sets the time to its own, which may be that of the next packet or long   *)
(* before the last one.                                                     *)
ReadImu ==
  /\ thread.at = "writes" /\ lidar.type >= 2 /\ thread.imu < MaxSamples
  /\ InTime \/ ~thread.polled
  /\ \E age \in Ages :
       LET taken == lidar.clock + PacketSpan - age
       IN /\ taken >= 0
          /\ thread' = [thread EXCEPT !.now = Stamp(taken), !.imu = @ + 1, !.polled = TRUE]
  /\ UNCHANGED <<lidar, file, due, table>>

DurationOver ==
  /\ thread.at = "writes" /\ ~InTime
  /\ thread' = [thread EXCEPT !.at = "closed"]
  /\ UNCHANGED <<lidar, file, due, table>>

(* The process ends: a prefix of the file is on disk.  Of the bytes of the  *)
(* record it is cut in, 0, 3, 4 and all but one are tried.                  *)
Crash ==
  /\ thread.at = "writes"
  /\ thread' = [thread EXCEPT !.at = "crashed"]
  /\ \/ file' = [file EXCEPT !.headed = FALSE]
     \/ \E n \in 0..Len(file.recs) :
          \E rest \in IF n = Len(file.recs) THEN {0}
                      ELSE {0, 3, 4, RecordSize(file.fw, file.recs[n + 1].type) - 1} :
            file' = [file EXCEPT !.recs = SubSeq(@, 1, n), !.rest = rest,
                       !.last = IF rest = 0 THEN Garbage ELSE file.recs[n + 1].point]
  /\ UNCHANGED <<lidar, due, table>>
-----------------------------------------------------------------------------
(* The converters, called with deleteBin.                                   *)

Ended == thread.at \in {"closed", "refused", "died", "crashed"} /\ table.kind = "none"

NotConverted(imu) == [table EXCEPT !.kind = "error", !.imu = imu]

ConvertToCsv ==
  /\ Ended
  /\ table' = IF file.headed
                THEN [kind |-> "csv", rows |-> CsvRows(file), imu |-> thread.imu, deleted |-> TRUE]
                ELSE NotConverted(0)
  /\ UNCHANGED <<lidar, thread, file, due>>

(* An exception in the conversion of the points skips that of the IMU.      *)
ConvertToLas ==
  /\ Ended
  /\ table' = CASE ~file.headed -> NotConverted(0)
                [] file.headed /\ ~LasTakes(file) -> NotConverted(thread.imu)
                [] file.headed /\ LasTakes(file) /\ ~LasSucceeds(file) -> NotConverted(0)
                [] file.headed /\ LasSucceeds(file) ->
                     [kind |-> "las", rows |-> LasRows(file), imu |-> thread.imu, deleted |-> TRUE]
  /\ UNCHANGED <<lidar, thread, file, due>>

CaptureNext ==
  \/ Switch
  \/ SaveDataToFile \/ Close
  \/ Consume \/ Delay \/ WritePoints \/ ReadImu \/ DurationOver
  \/ Crash
  \/ ConvertToCsv \/ ConvertToLas

CaptureSpec == CaptureInit /\ [][CaptureNext]_captureVars
-----------------------------------------------------------------------------
(* Properties.                                                              *)

IsHit(row) == row.point.kind = "hit"
Numbers(row) == row.return # 0
Hits(rows) == FlattenSeq([k \in 1..Len(rows) |-> Only(Numbers(rows[k]) /\ IsHit(rows[k]), rows[k])])

(* Writer and reader agree on a format nothing in the file spells out: as   *)
(* long as the type of the points stays, the table has the hits of the      *)
(* packets read for the file, each once, in order and with its return; all  *)
(* of them if the file was closed, the first ones after a crash.  A row     *)
(* without the number of its return may follow (openpylivox.py:1044-1330,   *)
(* 3604-3747).                                                              *)
TableIsCapture ==
  table.kind \in {"csv", "las"} /\ thread.steady =>
    /\ IsPrefix(Hits(table.rows), due)
    /\ thread.at = "closed" => Hits(table.rows) = due
    /\ \A k \in 1..(Len(table.rows) - 1) : Numbers(table.rows[k])

(* The two converters agree, also on a file that is cut or changes its      *)
(* type: the LAS file has the rows of the CSV file, or there is none and    *)
(* the binary file stays (openpylivox.py:3864-4018).                        *)
ConvertersAgree ==
  /\ table.kind = "las" => table.rows = CsvRows(file)
  /\ table.kind = "error" => ~table.deleted

Midnight(from, to) == from < lidar.day /\ lidar.day <= to
Late(recs, limit) == {rec.at : rec \in {r \in ToSet(recs) : r.at > limit}}
PacketsLate == Late(file.recs, thread.began + thread.duration)

InOrder(before, rec) ==
  rec.time < before.time =>
    before.at < rec.at /\ (before.type \in {3, 5} \/ Midnight(before.at, rec.at))

(* What the delay and the duration come to in the sensor's own time, when   *)
(* only stamps are compared: no point is of the delay; unless midnight has  *)
(* come, one packet past the duration is written and one more for each IMU  *)
(* sample read, however old the sample; and the times in the file fall only *)
(* between two packets, at midnight and after the spherical points of a     *)
(* Horizon, whose times the thread adds up too fast                         *)
(* (openpylivox.py:1008-1020, 1044-1056, 1144-1162, 1332-1348, 1398-1410).  *)
TimesInWindow ==
  /\ \A i \in DOMAIN file.recs : file.recs[i].at > thread.asked + thread.wait
  /\ ~Midnight(thread.began, lidar.clock) => Cardinality(PacketsLate) <= 1 + thread.imu
  /\ \A i \in 2..Len(file.recs) : InOrder(file.recs[i - 1], file.recs[i])

(* Refuted: but for the packet that ends it, a capture stays within its     *)
(* duration; an old IMU sample lets more packets in, and midnight a day of  *)
(* them (the TODO of openpylivox.py:1408).                                  *)
DurationHolds == Cardinality(PacketsLate) <= 1

(* Refuted: the times in a file never fall (openpylivox.py:1153, 1195, 1408).*)
TimesRise ==
  \A i \in 2..Len(file.recs) : file.recs[i - 1].time <= file.recs[i].time

(* A duration of 0 means no limit: only the caller ends such a capture      *)
(* (openpylivox-master/livox_controller_demo.py:137).                       *)
ZeroIsIndefinite ==
  thread.at = "closed" /\ thread.duration = 0 => thread.stopped
=============================================================================
