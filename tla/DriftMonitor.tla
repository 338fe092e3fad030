----------------------------- MODULE DriftMonitor -----------------------------
(***************************************************************************)
(* The drift monitor of the lidar service (services/drift_manager.py) for  *)
(* one sensor: the window of its readings, and the warning state that its  *)
(* irregular readings build up.  Distances are decimetres, and             *)
(* irregular_seconds counts halves.                                        *)
(***************************************************************************)
EXTENDS Integers, Sequences, FiniteSetsExt

CONSTANTS
  HistorySeconds,  (* the age, and the number, of the readings that are kept  *)
  AverageSeconds   (* the age of the readings that are averaged              *)

ASSUME DriftMonitorAssumption == HistorySeconds \in Nat \ {0} /\ AverageSeconds \in Nat

Reading == [time: Nat, distance: Nat \ {0}]

NewMonitor == [history |-> <<>>, irregular |-> 0, last |-> 0, extreme |-> 0, level |-> 0]

MonitorTypeOK(m) ==
  /\ m.history \in Seq(Reading) /\ m.irregular \in Nat /\ m.last \in Nat
  /\ m.extreme \in Nat /\ m.level \in 0 .. 3

-----------------------------------------------------------------------------
(* Mutant: only the number of the readings is bounded.                      *)
AddReadingAnyAge(history, r) ==
  LET all == Append(history, r) IN
    SubSeq(all, 1 + Max({0, Len(all) - HistorySeconds}), Len(all))

(* add_distance_reading: at most HistorySeconds readings, none of them      *)
(* older than HistorySeconds.                                               *)
AddReading(history, r) ==
  LET all == Append(history, r)
      kept == SubSeq(all, 1 + Max({0, Len(all) - HistorySeconds}), Len(all))
      young == {i \in DOMAIN kept: kept[i].time >= r.time - HistorySeconds}
  IN SubSeq(kept, Min(young), Len(kept))

(* get_historical_average: the readings averaged, if there are enough, and  *)
(* the sum of their distances.                                              *)
Averaged(history, time) == {i \in DOMAIN history: history[i].time >= time - AverageSeconds}

SumOf(numbers) ==
  LET sum[k \in 0 .. Len(numbers)] == IF k = 0 THEN 0 ELSE sum[k - 1] + numbers[k]
  IN sum[Len(numbers)]

Total(readings, S) == SumOf([i \in DOMAIN readings |-> IF i \in S THEN readings[i].distance ELSE 0])
HasAverage(S) == Cardinality(S) >= 3

(* The distance between reading r and the average, times their number.      *)
Deviation(readings, S, r) ==
  LET scaled == Cardinality(S) * r.distance
      total == Total(readings, S)
  IN IF scaled >= total THEN scaled - total ELSE total - scaled

(* check_irregularity: more than half a metre and more than 10 %.           *)
Irregular(history, r) ==
  LET recent == Averaged(history, r.time) IN
    /\ HasAverage(recent)
    /\ 10 * Deviation(history, recent, r) > 50 * Cardinality(recent)
    /\ 10 * Deviation(history, recent, r) > Total(history, recent)

(* More than 50 % away from the average.                                    *)
Extreme(history, r) ==
  LET recent == Averaged(history, r.time) IN
    HasAverage(recent) /\ 2 * Deviation(history, recent, r) > Total(history, recent)

(* Mutant: a pause between irregular readings does not matter.              *)
CountedThrough(m, irregular, r) == IF irregular THEN m.irregular + 2 ELSE Max({0, m.irregular - 1})

(* irregular_seconds after a reading: a pause of more than two seconds      *)
(* starts the count again, a regular reading takes half a second off.       *)
Counted(m, irregular, r) ==
  IF irregular THEN (IF r.time - m.last > 2 THEN 0 ELSE m.irregular) + 2
               ELSE Max({0, m.irregular - 1})

Level(irregular, seconds, extreme) ==
  CASE extreme >= 3 -> 3
    [] extreme < 3 /\ seconds >= 10 -> 2
    [] extreme < 3 /\ seconds < 10 /\ irregular -> 1
    [] OTHER -> 0

(* monitor_sensor_drift: reading r joins the window before it is judged.    *)
Monitored(m, r) ==
  LET history == AddReading(m.history, r)
      irregular == Irregular(history, r)
      seconds == Counted(m, irregular, r)
      extreme == m.extreme + (IF irregular /\ Extreme(history, r) THEN 1 ELSE 0)
  IN [history |-> history, irregular |-> seconds, extreme |-> extreme,
      last |-> IF irregular THEN r.time ELSE m.last, level |-> Level(irregular, seconds, extreme)]

(* process_sensor_data: a reading that is not positive is not monitored,    *)
(* and its danger level is 0.                                               *)
Valid(r) == r.distance > 0
Processed(m, r) == IF Valid(r) THEN Monitored(m, r) ELSE m
Danger(m, r) == IF Valid(r) THEN Monitored(m, r).level ELSE 0
===============================================================================
