----------------------------- MODULE LineParser -----------------------------
(***************************************************************************)
(* How LaserDevice turns the bytes of a continuous mode into measurements  *)
(* (laser-service/core/laser_device.py, _read_continuous_data and          *)
(* _parse_measurement).                                                    *)
(*                                                                         *)
(* A field of a line is [ln |-> which line it was sent in, f |-> what it   *)
(* is].  The parser sees only "D", numbers and the line end; ln and the    *)
(* names of the numbers are what the device meant by them, and stand for   *)
(* the values.  Fields are cut from each other only between two fields.    *)
(***************************************************************************)
EXTENDS Naturals, Sequences, FiniteSets

Modes == {"VT", "DT"}
Fields == {"D", "speed", "distance", "signal", "temperature", "end"}

Field == [ln: Nat, f: Fields]

(* What the device sends in each continuous mode.                           *)
LineOf(mode) ==
  IF mode = "VT" THEN <<"D", "speed", "distance", "signal", "temperature", "end">>
                 ELSE <<"D", "distance", "signal", "temperature", "end">>

NoField == "none"

-----------------------------------------------------------------------------
(* Lines.                                                                   *)

Ends(s) == {i \in DOMAIN s : s[i].f = "end"}

(* The end of the line before position e; 0 if there is none.               *)
Before(s, e) ==
  CHOOSE b \in {0} \cup {i \in Ends(s) : i < e} : \A i \in Ends(s) : i < e => i <= b

(* What stands between the line end before position e and e itself.         *)
Piece(s, e) == SubSeq(s, Before(s, e) + 1, e - 1)

(* The bytes after the last line end: incomplete_buffer.                    *)
Incomplete(s) == Piece(s, Len(s) + 1)

(* Lines of fewer than ten characters are skipped: one number, or "D".      *)
Usable(line) == Len(line) >= 2

(* The n-th smallest number of S.                                           *)
Nth(S, n) == CHOOSE x \in S : Cardinality({y \in S : y <= x}) = n

-----------------------------------------------------------------------------
(* _parse_measurement(line, command).                                       *)

Measurements == [first: Nat, last: Nat, speed: Fields \cup {NoField},
                 distance: Fields \cup {NoField}]

Headed(line)  == line[1].f = "D"
Numbers(line) == {i \in DOMAIN line : line[i].f # "D"}

(* The reader guesses the mode from the number of values after "D".         *)
GuessedMode(line) ==
  IF Headed(line) /\ Cardinality(Numbers(line)) >= 4 THEN "VT" ELSE "DT"

(* A line that starts with "D" and holds another one fails the format check *)
(* and yields a measurement without values; one that starts with a number   *)
(* is read by the second strategy, as if the "D" had been there.            *)
Parse(line, command) ==
  LET v == Numbers(line)
      garbled == v = {} \/ (Headed(line) /\ Cardinality(v) < Len(line) - 1)
      Value(n) == IF garbled \/ Cardinality(v) < n THEN NoField ELSE line[Nth(v, n)].f
  IN [first |-> line[1].ln, last |-> line[Len(line)].ln,
      speed |-> IF command = "VT" THEN Value(1) ELSE NoField,
      distance |-> IF command = "VT" THEN Value(2) ELSE Value(1)]

Guessed(line) == Parse(line, GuessedMode(line))

(* What Reading makes of the pieces of s that end at es, in their order.    *)
InTurn(s, es, Reading(_)) ==
  [i \in 1..Cardinality(es) |-> Reading(Piece(s, Nth(es, i)))]

(* What the reader makes of the complete lines of s.                        *)
Parsed(s) == InTurn(s, {e \in Ends(s) : Usable(Piece(s, e))}, Guessed)

(* A number is reported as what it is, and the values are of one line.      *)
Faithful(m) ==
  /\ m.speed \in {"speed", NoField}
  /\ m.distance \in {"distance", NoField}
  /\ m.first = m.last

=============================================================================
