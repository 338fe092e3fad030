----------------------------- MODULE PointFile -----------------------------
(***************************************************************************)
(* The binary point file of the Livox driver, as its capture thread writes *)
(* it and its two converters read it                                       *)
(* (lidar-service/openpylivox-master/openpylivox/openpylivox.py).          *)
(*                                                                         *)
(* A file is a header with the firmware type and the data type, whole      *)
(* records, and the first bytes (rest) of one more, with the point last,   *)
(* that a crash has cut off.                                               *)
(* The writer knows the size of a record as bytes copied from a packet,    *)
(* the converters as a list of fields; nothing in the file delimits one.   *)
(***************************************************************************)
EXTENDS Integers, Sequences, SequencesExt

Firmwares == 1..3      (* 2 and 3: two and three returns for each pulse     *)
DataTypes == 0..5      (* even: Cartesian, odd: spherical; 4 and 5: dual    *)

(* What a lone field or record reads as once the reader is out of step.     *)
Garbage == [of |-> 0, i |-> 0, kind |-> "garbage"]
-----------------------------------------------------------------------------
(* The writer.                                                              *)

(* Bytes of a point that are copied from the packet; a time of eight bytes  *)
(* follows and, where a pulse has several records, the number of the return.*)
PointSize(type) == <<13, 9, 14, 10, 28, 16>>[type + 1]
Numbered(fw) == fw > 1
RecordSize(fw, type) == PointSize(type) + 8 + IF Numbered(fw) THEN 1 ELSE 0

(* Microseconds between two points as the sensor takes them, and as the     *)
(* thread adds them up; the first point of a packet gets the packet's time  *)
(* if they agree.                                                           *)
Pace(type) == IF type < 2 THEN 10 ELSE IF type < 4 THEN 4 ELSE 2
StepTen(type) == 10      (* mutant: the pace of a Mid for all sensors       *)
Step(type) == IF type \in {3, 5} THEN 10 ELSE Pace(type)

(* The time of point i of a packet, counted from 0, after the packet's.     *)
Offset(fw, type, i) ==
  CASE fw = 1 -> (i + 1) * Step(type) - Pace(type)
    [] fw = 2 -> (i \div 2) * 10
    [] fw = 3 -> (i \div 3) * 17

Return(fw, i) == IF Numbered(fw) THEN (i % fw) + 1 ELSE 1

(* The duration of a packet of n points.                                    *)
Span(fw, type, n) ==
  CASE fw = 1 -> n * Pace(type)
    [] fw = 2 -> ((n + 1) \div 2) * 10
    [] fw = 3 -> ((n + 2) \div 3) * 17

(* A point is a hit, a hit straight ahead (y = 0), or a pulse that never    *)
(* came back: its distance is 0, its direction is not.                      *)
PointKinds == {"hit", "ahead", "miss"}

(* The test that is to leave out the misses looks at y for Cartesian        *)
(* points, at the distance for spherical ones, and at the direction for     *)
(* dual spherical ones; a Mid-100 keeps all Cartesian points.               *)
Kept(kind, type, mid100) ==
  CASE type = 0 /\ mid100 -> TRUE
    [] type = 5 -> TRUE
    [] type \in {1, 3} -> kind # "miss"
    [] OTHER -> kind = "hit"
-----------------------------------------------------------------------------
(* The readers.                                                             *)

(* Mutant: the reader does not know the number of the return.               *)
FieldsUnnumbered(fw, type) ==
  CASE type = 0 -> <<4, 4, 4, 1, 8>>
    [] type = 1 -> <<4, 2, 2, 1, 8>>
    [] type = 2 -> <<4, 4, 4, 1, 1, 8>>
    [] type = 3 -> <<4, 2, 2, 1, 1, 8>>
    [] type = 4 -> <<4, 4, 4, 1, 1, 4, 4, 4, 1, 1, 8>>
    [] type = 5 -> <<2, 2, 4, 1, 1, 4, 1, 1, 8>>

(* The fields of a record, by their bytes.                                  *)
Fields(fw, type) ==
  LET return == IF Numbered(fw) THEN <<1>> ELSE <<>>
  IN CASE type = 0 -> <<4, 4, 4, 1, 8>> \o return
       [] type = 1 -> <<4, 2, 2, 1, 8>> \o return
       [] type = 2 -> <<4, 4, 4, 1, 1, 8>>
       [] type = 3 -> <<4, 2, 2, 1, 1, 8>>
       [] type = 4 -> <<4, 4, 4, 1, 1, 4, 4, 4, 1, 1, 8>>
       [] type = 5 -> <<2, 2, 4, 1, 1, 4, 1, 1, 8>>

Total(numbers) ==
  LET sum[k \in 0..Len(numbers)] == IF k = 0 THEN 0 ELSE sum[k - 1] + numbers[k]
  IN sum[Len(numbers)]

Stride(file) == Total(Fields(file.fw, file.type))
Bytes(file) == Total([i \in DOMAIN file.recs |-> RecordSize(file.fw, file.recs[i].type)]) + file.rest

(* Reading goes on in strides of the header's type: row k is record k as    *)
(* long as the records before it had that size.                             *)
InStep(file, k) ==
  /\ k <= Len(file.recs)
  /\ \A j \in 1..k : RecordSize(file.fw, file.recs[j].type) = Stride(file)

Row(file, k) ==
  IF InStep(file, k) THEN [point |-> file.recs[k].point, return |-> file.recs[k].return]
                     ELSE [point |-> Garbage, return |-> 1]

(* A dual record gives two rows.                                            *)
Rows(file, k) ==
  IF file.type \in {4, 5} THEN <<Row(file, k), [Row(file, k) EXCEPT !.return = 2]>>
                          ELSE <<Row(file, k)>>

WholeRows(file) ==
  FlattenSeq([k \in 1..(Bytes(file) \div Stride(file)) |-> Rows(file, k)])

(* _convertBin2CSV stops at the first field that is cut; the number of the  *)
(* return is read as text, and nothing left is an empty text.               *)
CsvRows(file) ==
  LET left == Bytes(file) % Stride(file)
      clipped == [point |-> file.last, return |-> 0]
  IN WholeRows(file) \o
       IF Numbered(file.fw) /\ left = Stride(file) - 1 THEN <<clipped>> ELSE <<>>

(* _convertBin2LAS takes Cartesian points only.  It fills one list for each *)
(* field; the lists must have one length, and there must be a point.        *)
LasTakes(file) == file.type \in {0, 2, 4}
(* Mutant: lists of unequal length are cut to the shortest.                 *)
LasCuts(file) == LasTakes(file) /\ Bytes(file) >= Stride(file)

LasSucceeds(file) ==
  /\ LasTakes(file)
  /\ Bytes(file) >= Stride(file)
  /\ Bytes(file) % Stride(file) < Head(Fields(file.fw, file.type))
LasRows(file) == WholeRows(file)
=============================================================================
