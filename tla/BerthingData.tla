----------------------------- MODULE BerthingData -----------------------------
(***************************************************************************)
(* What websocket clients see of a berth: get_all_berthing_data_core       *)
(* (services/berthing_data_core.py), called once a second by the global    *)
(* emitter and by every berth socket (api/endpoints/websocket.py), over    *)
(* the tables that the coordinator threads of LidarManager and             *)
(* LaserManager fill once a second.  Every call hands what it reads to the *)
(* one drift monitor of the service, whatever the operation.               *)
(*                                                                         *)
(* A call awaits only the query of the berth's offsets, and only in a      *)
(* drift; the rest of it is one step of the event loop.  Coordinators, the *)
(* laser client and the operations change the tables between the steps.    *)
(***************************************************************************)
EXTENDS DriftMonitor, FiniteSets

CONSTANTS
  Lidars, Lasers,  (* the sensors of both kinds                              *)
  Fittings,        (* the sets of sensors that a berth may have              *)
  Watchers,        (* the emitter and the berth sockets                      *)
  Distances,       (* Distances[s]: what sensor s measures; 0: no target     *)
  Offset, CutOff,  (* offset_y and cut_off_distance of a sensor              *)
  Pauses,          (* seconds from one step of the coordinators to the next  *)
  Bounds           (* Bounds[f]: how many seconds, calls (reads), operations, *)
                   (* starts and stops (changes) there are at a berth with f *)

Sensors == Lidars \cup Lasers

ASSUME BerthingDataAssumption ==
  /\ Lidars \cap Lasers = {} /\ Fittings \subseteq SUBSET Sensors
  /\ Distances \in [Sensors -> SUBSET Nat]
  /\ Offset \in [Sensors -> Nat] /\ CutOff \in [Sensors -> Nat]
  /\ Pauses \subseteq Nat \ {0} /\ Bounds \in [Fittings -> [time: Nat \ {0}, reads: Nat, changes: Nat]]

VARIABLES
  fitted,     (* the sensors that the berth has                              *)
  now,        (* the second                                                  *)
  drift,      (* the current operation is a drift                            *)
  on,         (* lidars that stream in berthing mode, lasers that are known  *)
  connected,  (* the laser client is connected                               *)
  table,      (* table[s]: the synchronised entry of sensor s                *)
  packet,     (* packet[s]: the last packet of laser s                       *)
  call,       (* call[w]: the call that watcher w has under way              *)
  shown,      (* shown[w]: the danger level w was last shown, or Nothing     *)
  monitor,    (* monitor[s]: what the drift monitor keeps of sensor s        *)
  log,        (* log[s]: every reading the monitor got (history variable)    *)
  reads,      (* calls made                                                  *)
  changes     (* operations, starts and stops made                           *)

vars == <<fitted, now, drift, on, connected, table, packet, call, shown, monitor, log, reads, changes>>

Nothing == -1  (* no operation data *)
NoEntry == [time |-> 0, distance |-> 0, known |-> FALSE]
Entry == [time: Nat, distance: Nat, known: BOOLEAN]
NoCall == [at |-> "idle", drift |-> FALSE, began |-> 0]

TypeOK ==
  /\ fitted \in Fittings /\ now \in 1 .. Bounds[fitted].time
  /\ reads \in 0 .. Bounds[fitted].reads /\ changes \in 0 .. Bounds[fitted].changes
  /\ drift \in BOOLEAN /\ connected \in BOOLEAN /\ on \subseteq fitted
  /\ table \in [Sensors -> Entry] /\ packet \in [Lasers -> Entry]
  /\ call \in [Watchers -> [at: {"idle", "query"}, drift: BOOLEAN, began: 0 .. Bounds[fitted].time]]
  /\ shown \in [Watchers -> {Nothing} \cup 0 .. 3]
  /\ \A s \in Sensors: MonitorTypeOK(monitor[s]) /\ log[s] \in Seq(Reading)

Init ==
  /\ fitted \in Fittings
  /\ now = 1 /\ drift = FALSE /\ on = {} /\ connected = FALSE
  /\ table = [s \in Sensors |-> NoEntry]
  /\ packet = [s \in Lasers |-> NoEntry]
  /\ call = [w \in Watchers |-> NoCall]
  /\ shown = [w \in Watchers |-> Nothing]
  /\ monitor = [s \in Sensors |-> NewMonitor]
  /\ log = [s \in Sensors |-> <<>>]
  /\ reads = 0 /\ changes = 0

-----------------------------------------------------------------------------
(* The coordinator of the lidars at second t.  A lidar that sent no points  *)
(* in the last second (no member of seen) keeps its distance under the new  *)
(* time; points without a target make distance 0.                           *)
LidarEntry(s, t, seen, distance) ==
  IF s \in seen THEN [time |-> t, distance |-> distance, known |-> TRUE]
                ELSE [table[s] EXCEPT !.time = t]

(* The coordinator of the lasers: a laser that sent no packet in the last   *)
(* second keeps its entry, with its old time.                               *)
LaserEntry(s, t) ==
  IF packet[s].known /\ packet[s].time >= t - 1 THEN [packet[s] EXCEPT !.time = t] ELSE table[s]

(* The next step of the coordinators, which may be late; that of the lasers *)
(* runs on its own.                                                         *)
Second(pause, seen, measured, lasersToo) ==
  /\ now + pause <= Bounds[fitted].time
  /\ now' = now + pause
  /\ table' = [s \in Sensors |->
       IF s \in Lasers THEN (IF lasersToo THEN LaserEntry(s, now') ELSE table[s])
       ELSE IF s \in on THEN LidarEntry(s, now', seen, measured[s]) ELSE table[s]]
  /\ UNCHANGED <<fitted, drift, on, connected, packet, call, shown, monitor, log, reads, changes>>

(* A packet makes its laser known, also one that was under way when the     *)
(* client disconnected.                                                     *)
LaserPacket(s, distance) ==
  /\ packet' = [packet EXCEPT ![s] = [time |-> now, distance |-> distance, known |-> TRUE]]
  /\ packet' # packet \/ s \notin on
  /\ on' = on \cup {s}
  /\ UNCHANGED <<fitted, now, drift, connected, table, call, shown, monitor, log, reads, changes>>

Change == changes < Bounds[fitted].changes /\ changes' = changes + 1

(* The berthing thread of a lidar starts with an empty table.               *)
LidarStarts(s) ==
  /\ s \notin on /\ Change
  /\ on' = on \cup {s}
  /\ table' = [table EXCEPT ![s] = NoEntry]
  /\ UNCHANGED <<fitted, now, drift, connected, packet, call, shown, monitor, log, reads>>

LidarStops(s) ==
  /\ s \in on /\ Change
  /\ on' = on \ {s}
  /\ UNCHANGED <<fitted, now, drift, connected, table, packet, call, shown, monitor, log, reads>>

LasersConnect ==
  /\ ~connected /\ Lasers \cap fitted # {} /\ Change
  /\ connected' = TRUE
  /\ UNCHANGED <<fitted, now, drift, on, table, packet, call, shown, monitor, log, reads>>

(* disconnect_from_laser_manager forgets the lasers, not their data.        *)
LasersDisconnect ==
  /\ connected /\ Change
  /\ connected' = FALSE
  /\ on' = on \ Lasers
  /\ UNCHANGED <<fitted, now, drift, table, packet, call, shown, monitor, log, reads>>

(* An operation starts or ends; the monitor is not told.                    *)
OperationChanges(isDrift) ==
  /\ isDrift # drift /\ Change
  /\ drift' = isDrift
  /\ UNCHANGED <<fitted, now, on, connected, table, packet, call, shown, monitor, log, reads>>

-----------------------------------------------------------------------------
(* fetch_berthing_data_for_sensor: a lidar is active unless its corrected   *)
(* distance is beyond the cut-off; offsets: the berth's offsets are at hand. *)
Corrected(s, offsets) == table[s].distance - (IF offsets THEN Offset[s] ELSE 0)
LidarActive(s, offsets) == s \in on /\ (offsets => Corrected(s, TRUE) <= CutOff[s])
LidarDatum(s, offsets) == [time |-> table[s].time, distance |-> Corrected(s, offsets)]

(* fetch_laser_data_for_device: the synchronised entry, or the last packet. *)
LaserData(s) == IF table[s].known THEN table[s] ELSE packet[s]
LaserActive(s) == s \in on /\ connected /\ LaserData(s).known
LaserDatum(s) == [time |-> LaserData(s).time, distance |-> LaserData(s).distance]

(* Every active sensor goes to the monitor.                                 *)
Watched(active, datum) ==
  /\ monitor' = [s \in Sensors |-> IF s \in active THEN Processed(monitor[s], datum[s]) ELSE monitor[s]]
  /\ log' = [s \in Sensors |-> IF s \in active /\ Valid(datum[s]) THEN Append(log[s], datum[s]) ELSE log[s]]

(* The end of a call, which shows the highest danger if it began in a drift. *)
Fetched(w, offsets, inDrift) ==
  LET active == {s \in Lidars: LidarActive(s, offsets)} \cup {s \in Lasers: LaserActive(s)}
      datum == [s \in active |-> IF s \in Lidars THEN LidarDatum(s, offsets) ELSE LaserDatum(s)]
  IN
    /\ Watched(active, datum)
    /\ shown' = [shown EXCEPT ![w] =
                   IF inDrift THEN Max({0} \cup {Danger(monitor[s], datum[s]): s \in active}) ELSE Nothing]

(* A watcher calls at most once a second.  The query of a drift is awaited, *)
(* any other call is over at once.                                          *)
Due(w) == call[w].at = "idle" /\ call[w].began < now

Calls(w) ==
  /\ Due(w) /\ reads < Bounds[fitted].reads
  /\ reads' = reads + 1
  /\ IF drift
     THEN /\ call' = [call EXCEPT ![w] = [at |-> "query", drift |-> TRUE, began |-> now]]
          /\ UNCHANGED <<shown, monitor, log>>
     ELSE /\ call' = [call EXCEPT ![w].began = now]
          /\ Fetched(w, FALSE, FALSE)
  /\ UNCHANGED <<fitted, now, drift, on, connected, table, packet, changes>>

(* The query returns the offsets, or fails or finds nothing.                *)
QueryReturns(w, offsets) ==
  /\ call[w].at = "query"
  /\ call' = [call EXCEPT ![w].at = "idle"]
  /\ Fetched(w, offsets, call[w].drift)
  /\ UNCHANGED <<fitted, now, drift, on, connected, table, packet, reads, changes>>

Measurements == {m \in [Lidars -> UNION {Distances[s]: s \in Lidars}]: \A s \in Lidars: m[s] \in Distances[s]}

Next ==
  \/ \E pause \in Pauses, seen \in SUBSET (Lidars \cap on), measured \in Measurements:
       \E lasersToo \in BOOLEAN: Second(pause, seen, measured, lasersToo)
  \/ \E s \in Lasers \cap fitted: \E d \in Distances[s]: LaserPacket(s, d)
  \/ \E s \in Lidars \cap fitted: LidarStarts(s) \/ LidarStops(s)
  \/ LasersConnect \/ LasersDisconnect
  \/ \E isDrift \in BOOLEAN: OperationChanges(isDrift)
  \/ \E w \in Watchers: Calls(w) \/ \E offsets \in BOOLEAN: QueryReturns(w, offsets)

Spec == Init /\ [][Next]_vars

-----------------------------------------------------------------------------
(* What the monitor says, told from the whole log: the readings that the    *)
(* window is to hold when reading i is the last.                            *)
Within(s, i) == {j \in 1 .. i: i - j < HistorySeconds /\ log[s][j].time >= log[s][i].time - HistorySeconds}

(* The window of a sensor is what its last readings are, in their order     *)
(* and without a gap: none too old, none lost, none twice; whichever        *)
(* watchers read it, through restarts, pauses and changes of operation      *)
(* (add_distance_reading).                                                  *)
WindowIsTail ==
  \A s \in Sensors:
    LET n == Len(log[s]) IN
      /\ Len(monitor[s].history) = (IF n = 0 THEN 0 ELSE Cardinality(Within(s, n)))
      /\ monitor[s].history = SubSeq(log[s], n - Len(monitor[s].history) + 1, n)

(* A warning has a cause in the window itself: the level is 1 only if the   *)
(* last reading is more than half a metre away from another one, and three  *)
(* readings stand for the average (check_irregularity).                     *)
WarningHasCause ==
  \A s \in Sensors: monitor[s].level = 1 =>
    LET n == Len(log[s]) IN
      /\ Cardinality({j \in Within(s, n): log[s][j].time >= log[s][n].time - AverageSeconds}) >= 3
      /\ \E j \in Within(s, n): log[s][j].distance - log[s][n].distance \notin -5 .. 5

(* Reading i against the average of the readings around it, and whether it  *)
(* is more than half away from it.                                          *)
Judged(s, i) == {j \in Within(s, i): log[s][j].time >= log[s][i].time - AverageSeconds}

AwayBy(s, i, percent) ==
  LET n == Cardinality(Judged(s, i))
      sum == Total(log[s], Judged(s, i))
      away == n * log[s][i].distance - sum
  IN n >= 3 /\ 100 * away \notin (-percent * sum) .. (percent * sum) /\ away \notin (-5 * n) .. (5 * n)

IrregularReadings(s) == {i \in DOMAIN log[s]: AwayBy(s, i, 10)}
ExtremeReadings(s) == {i \in DOMAIN log[s]: AwayBy(s, i, 50)}

(* Level 2 counts calls: its last five irregular readings followed each     *)
(* other within two seconds, whoever made the calls and how often one       *)
(* measurement was read; what it says of seconds is SecondsSustained.  The  *)
(* critical level is there exactly when three readings of the whole log     *)
(* were extreme, however long ago, and so is the danger that a client is    *)
(* shown (monitor_sensor_drift).                                            *)
AlarmCountsCalls ==
  /\ \A s \in Sensors:
       LET I == IrregularReadings(s)
           F == {i \in I: Cardinality({j \in I: j > i}) < 5}
       IN /\ monitor[s].level = 2 =>
               /\ Cardinality(F) = 5
               /\ \A i \in F: (\E j \in F: j < i) => \E j \in F: j < i /\ log[s][i].time - log[s][j].time <= 2
          /\ monitor[s].level = 3 <=> Cardinality(ExtremeReadings(s)) >= 3
  /\ \A w \in Watchers: shown[w] = 3 => \E s \in Sensors: Cardinality(ExtremeReadings(s)) >= 3

(* No level without the calls that it counts.                               *)
LevelsCountCalls == WarningHasCause /\ AlarmCountsCalls

(* What the comments of monitor_sensor_drift say of the levels, which does  *)
(* not hold: "5+ seconds of sustained irregularity" (line 184), that is     *)
(* irregular readings of five seconds.  Two watchers count every second     *)
(* twice.                                                                   *)
SecondsSustained ==
  \A s \in Sensors: monitor[s].level = 2 => Cardinality({log[s][i].time: i \in IrregularReadings(s)}) >= 5

(* "Multiple extreme changes" (line 180) that persist (line 182): at three  *)
(* times.  One spike will do that three watchers read, or two of them for   *)
(* two seconds.                                                             *)
ChangesPersist ==
  \A s \in Sensors: monitor[s].level = 3 => Cardinality({log[s][i].time: i \in ExtremeReadings(s)}) >= 3
===============================================================================
