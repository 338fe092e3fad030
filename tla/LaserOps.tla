------------------------------ MODULE LaserOps ------------------------------
(***************************************************************************)
(* The mode-changing coroutines of LaserDevice                             *)
(* (laser-service/core/laser_device.py): connect, start_berthing_mode,     *)
(* stop_berthing_mode, set_mode_off, start_drift_mode, stop_drift_mode and *)
(* the helpers they await.                                                 *)
(*                                                                         *)
(* All of them run on one asyncio loop, so a coroutine is interrupted only *)
(* where it awaits.  A call in progress is a record of call[r][l], and its *)
(* st names the await at which it is suspended.  One action runs a call    *)
(* from one await to a later one; awaits between which nothing of the      *)
(* modelled state is read or written (three ESC bytes with a sleep after   *)
(* each, two sleeps in a row) are one stage.  A coroutine that its caller  *)
(* awaits directly has its first step in an action of its own: that only   *)
(* adds interleavings.                                                     *)
(*                                                                         *)
(* The TCP bridge and the device behind it are nondeterministic: a connect *)
(* or a VT command may fail, the link may break, data may never arrive.    *)
(***************************************************************************)
EXTENDS Naturals, FiniteSets

CONSTANTS
  Lasers,           (* laser ids; laser_devices is walked in ascending order *)
  Requests,         (* API requests that may be in flight at the same time   *)
  Bids,             (* berthing session ids                                  *)
  StartAttempts,    (* max_retries of start_berthing_mode: 3 in the code     *)
  RestartAttempts,  (* max_retries that the restart route passes: 5          *)
  ModeAttempts      (* max_retries of _start_continuous_mode_with_retry: 3   *)

ASSUME LaserOpsAssumption ==
  /\ Lasers \subseteq Nat \ {0}
  /\ Bids \subseteq Nat \ {0}
  /\ StartAttempts \in Nat \ {0}
  /\ RestartAttempts \in Nat \ {0}
  /\ ModeAttempts \in Nat \ {0}

VARIABLES
  dev,   (* dev[l]: the fields of the LaserDevice object                    *)
  lock,  (* lock[l]: the requests inside "async with self._lock"            *)
  call   (* call[r][l]: the coroutine of laser l that request r runs        *)

deviceVars == <<dev, lock, call>>

NoId == 0

(* socket: "none" is None, "open" a connected socket, "dead" an object that *)
(* is closed, was never connected, or whose peer is gone without the code   *)
(* having noticed.                                                          *)
Device ==
  [status: {"DISCONNECTED", "CONNECTED", "ERROR"},
   socket: {"none", "open", "dead"},
   continuous: BOOLEAN,               \* _continuous_mode
   berthing: BOOLEAN,                 \* _berthing_mode
   berthingId: Bids \cup {NoId},      \* _berthing_id
   drift: BOOLEAN,                    \* _drift_mode
   mode: {"OFF", "BERTHING", "DRIFT"}] \* _operating_mode

Starts == {"start_berthing", "start_drift"}
Stops  == {"stop_berthing", "shutdown"}
CallOps == Starts \cup Stops \cup {"off", "stop_drift", "none"}

Stages == {"idle", "begin", "connecting", "ready", "escaping", "settling",
           "vt", "flow", "verify", "drift_verify", "undo", "ok", "failed"}

Call == [op: CallOps, bid: Bids \cup {NoId}, st: Stages, outer: Nat, inner: Nat]

NoCall == [op |-> "none", bid |-> NoId, st |-> "idle", outer |-> 0, inner |-> 0]

NewCall(op, bid, attempts) ==
  [op |-> op, bid |-> bid, st |-> "begin", outer |-> attempts, inner |-> ModeAttempts]

(* A laser the manager holds after initialize(): connected, every mode off. *)
FreshDevice ==
  [status |-> "CONNECTED", socket |-> "open", continuous |-> FALSE,
   berthing |-> FALSE, berthingId |-> NoId, drift |-> FALSE, mode |-> "OFF"]

DeviceInit ==
  /\ dev = [l \in Lasers |-> FreshDevice]
  /\ lock = [l \in Lasers |-> {}]
  /\ call = [r \in Requests |-> [l \in Lasers |-> NoCall]]

DeviceTypeOK ==
  /\ dev \in [Lasers -> Device]
  /\ lock \in [Lasers -> SUBSET Requests]
  /\ call \in [Requests -> [Lasers -> Call]]

-----------------------------------------------------------------------------
(* Helpers.                                                                 *)

At(r, l, st) ==
  call[r][l].st = st
Returned(r, l) ==
  call[r][l].st \in {"ok", "failed"}
Free(l) ==
  lock[l] = {}

SetDev(l, d)      == dev' = [dev EXCEPT ![l] = d]
SetCall(r, l, c)  == call' = [call EXCEPT ![r][l] = c]
Go(r, l, st)      == SetCall(r, l, [call[r][l] EXCEPT !.st = st])
Return(r, l, res) == SetCall(r, l, [NoCall EXCEPT !.st = res])

Unlinked(d)   == [d EXCEPT !.status = "DISCONNECTED", !.socket = "none"]
Quieted(d)    == [d EXCEPT !.continuous = FALSE]

(* Mutant: the mode survives a stop.                                        *)
DriftClearedKeepsMode(d) == [d EXCEPT !.drift = FALSE]

(* What stop_berthing_mode resets on every path, and what set_mode_off and  *)
(* stop_drift_mode reset.                                                   *)
BerthingCleared(d) ==
  [d EXCEPT !.berthing = FALSE, !.berthingId = NoId, !.mode = "OFF"]
AllModesCleared(d) ==
  [d EXCEPT !.berthing = FALSE, !.berthingId = NoId, !.drift = FALSE, !.mode = "OFF"]
DriftCleared(d)    == [d EXCEPT !.drift = FALSE, !.mode = "OFF"]

BerthingSet(d, id) ==
  [d EXCEPT !.berthing = TRUE, !.berthingId = id, !.mode = "BERTHING"]
DriftSet(d) == [d EXCEPT !.drift = TRUE, !.mode = "DRIFT"]

(* Mutant: attempts are not counted.                                        *)
RetryForever(r, l) ==
  IF call[r][l].op = "start_berthing"
  THEN SetCall(r, l, [call[r][l] EXCEPT !.st = "begin", !.outer = @ - 1])
  ELSE Return(r, l, "failed")

(* An attempt of start_berthing_mode that raised or could not start VT is   *)
(* repeated while attempts are left; every other coroutine gives up.        *)
RetryOrFail(r, l) ==
  IF call[r][l].op = "start_berthing" /\ call[r][l].outer > 1
  THEN SetCall(r, l, [call[r][l] EXCEPT !.st = "begin", !.outer = @ - 1,
                                        !.inner = ModeAttempts])
  ELSE Return(r, l, "failed")

-----------------------------------------------------------------------------
(* connect(): start_berthing_mode reconnects when it finds no connection,   *)
(* and the manager reconnects a disconnected laser before it stops it.      *)

NeedsConnect(r, l) ==
  \/ /\ call[r][l].op = "start_berthing"
     /\ dev[l].status = "DISCONNECTED" \/ dev[l].socket = "none"
  \/ /\ call[r][l].op = "stop_berthing"
     /\ dev[l].status = "DISCONNECTED"

Connect(r, l) ==
  /\ At(r, l, "begin")
  /\ NeedsConnect(r, l)
  /\ SetDev(l, [dev[l] EXCEPT !.status = "CONNECTED", !.socket = "open"])
  /\ Go(r, l, "connecting")
  /\ UNCHANGED lock

(* The socket object made before the failed connect stays in self.socket.   *)
ConnectFails(r, l) ==
  /\ At(r, l, "begin")
  /\ NeedsConnect(r, l)
  /\ SetDev(l, [dev[l] EXCEPT !.status = "ERROR", !.socket = "dead"])
  /\ IF call[r][l].op = "start_berthing" THEN RetryOrFail(r, l) ELSE Go(r, l, "ready")
  /\ UNCHANGED lock

(* _check_continuous_state: data waiting on the new connection switches the *)
(* continuous flag on; silence leaves the flag as it was.                   *)
CheckContinuous(r, l) ==
  /\ At(r, l, "connecting")
  /\ \/ /\ dev[l].socket = "open"
        /\ SetDev(l, [dev[l] EXCEPT !.continuous = TRUE])
     \/ UNCHANGED dev
  /\ Go(r, l, "ready")
  /\ UNCHANGED lock

-----------------------------------------------------------------------------
(* _send_escape_sequence(), the first thing every coroutine does.           *)

Ready(r, l) == At(r, l, "ready") \/ (At(r, l, "begin") /\ ~NeedsConnect(r, l))

NoLink(l) == dev[l].status = "DISCONNECTED" \/ dev[l].socket = "none"

SkipEscape(r, l) ==
  /\ Ready(r, l)
  /\ call[r][l].op \in Stops
  /\ NoLink(l)
  /\ Go(r, l, "settling")
  /\ UNCHANGED <<dev, lock>>

(* About to send an ESC: the first one, or a later one after a sleep in     *)
(* which another coroutine may have dropped the socket.                     *)
AtEscape(r, l) ==
  \/ At(r, l, "escaping")
  \/ Ready(r, l) /\ ~(call[r][l].op \in Stops /\ NoLink(l))

EscapeSent(r, l) ==
  /\ AtEscape(r, l)
  /\ dev[l].socket # "none"
  /\ Go(r, l, IF At(r, l, "escaping") THEN "settling" ELSE "escaping")
  /\ UNCHANGED <<dev, lock>>

(* OSError: the connection is dropped and the caller is not told.           *)
EscapeBreaks(r, l) ==
  /\ AtEscape(r, l)
  /\ dev[l].socket = "dead"
  /\ SetDev(l, Unlinked(dev[l]))
  /\ Go(r, l, "settling")
  /\ UNCHANGED lock

(* No socket: the exception reaches the caller.  stop_berthing_mode clears  *)
(* its flags in its handler and skips stop_continuous.                      *)
EscapeRaises(r, l) ==
  /\ AtEscape(r, l)
  /\ dev[l].socket = "none"
  /\ IF call[r][l].op \in Stops
     THEN SetDev(l, BerthingCleared(dev[l])) /\ Return(r, l, "failed")
     ELSE UNCHANGED dev /\ RetryOrFail(r, l)
  /\ UNCHANGED lock

-----------------------------------------------------------------------------
(* The coroutines that end a mode.                                          *)

(* stop_continuous() waits for the device lock; the flags are cleared in    *)
(* the same step that got it.                                               *)
FinishStop(r, l) ==
  /\ At(r, l, "settling")
  /\ call[r][l].op \in Stops
  /\ Free(l)
  /\ SetDev(l, BerthingCleared(Quieted(dev[l])))
  /\ Return(r, l, "ok")
  /\ UNCHANGED lock

FinishOff(r, l) ==
  /\ At(r, l, "settling")
  /\ call[r][l].op = "off"
  /\ SetDev(l, AllModesCleared(dev[l]))
  /\ Return(r, l, "ok")
  /\ UNCHANGED lock

FinishStopDrift(r, l) ==
  /\ At(r, l, "settling")
  /\ call[r][l].op = "stop_drift"
  /\ SetDev(l, DriftCleared(dev[l]))
  /\ Return(r, l, "ok")
  /\ UNCHANGED lock

-----------------------------------------------------------------------------
(* _start_continuous_mode_with_retry(VT), shared by both start coroutines.  *)

(* stop_continuous() and then send_command("VT"), which keeps the lock      *)
(* while it waits for the answer.                                           *)
SendVT(r, l) ==
  /\ At(r, l, "settling")
  /\ call[r][l].op \in Starts
  /\ Free(l)
  /\ SetDev(l, Quieted(dev[l]))
  /\ \/ /\ dev[l].socket # "none"
        /\ lock' = [lock EXCEPT ![l] = @ \cup {r}]
        /\ Go(r, l, "vt")
     \/ /\ dev[l].socket # "open"     \* not connected, or the send fails
        /\ Go(r, l, "undo")
        /\ UNCHANGED lock

VTAnswered(r, l) ==
  /\ At(r, l, "vt")
  /\ dev[l].socket # "none"
  /\ SetDev(l, [dev[l] EXCEPT !.continuous = TRUE])
  /\ lock' = [lock EXCEPT ![l] = @ \ {r}]
  /\ Go(r, l, "flow")

(* Mutant: the lock is not released when the command raises.                *)
VTFailsKeepsLock(r, l) ==
  /\ At(r, l, "vt")
  /\ Go(r, l, "undo")
  /\ UNCHANGED <<dev, lock>>

VTFails(r, l) ==
  /\ At(r, l, "vt")
  /\ lock' = [lock EXCEPT ![l] = @ \ {r}]
  /\ Go(r, l, "undo")
  /\ UNCHANGED dev

(* get_continuous_data() returns None at once outside continuous mode.      *)
Flow(r, l) ==
  /\ At(r, l, "flow")
  /\ Go(r, l, IF dev[l].continuous THEN "verify" ELSE "undo")
  /\ UNCHANGED <<dev, lock>>

BerthingStarted(r, l) ==
  /\ At(r, l, "verify")
  /\ call[r][l].op = "start_berthing"
  /\ SetDev(l, BerthingSet(dev[l], call[r][l].bid))
  /\ Return(r, l, "ok")
  /\ UNCHANGED lock

(* start_drift_mode asks for a second measurement.                          *)
DriftVerify(r, l) ==
  /\ At(r, l, "verify")
  /\ call[r][l].op = "start_drift"
  /\ IF dev[l].continuous THEN Go(r, l, "drift_verify") ELSE Return(r, l, "failed")
  /\ UNCHANGED <<dev, lock>>

NoData(r, l) ==
  /\ At(r, l, "verify")
  /\ Go(r, l, "undo")
  /\ UNCHANGED <<dev, lock>>

DriftStarted(r, l) ==
  /\ At(r, l, "drift_verify")
  /\ SetDev(l, DriftSet(dev[l]))
  /\ Return(r, l, "ok")
  /\ UNCHANGED lock

DriftNoData(r, l) ==
  /\ At(r, l, "drift_verify")
  /\ Return(r, l, "failed")
  /\ UNCHANGED <<dev, lock>>

(* stop_continuous() after a failed attempt, then the next attempt.         *)
Undo(r, l) ==
  /\ At(r, l, "undo")
  /\ Free(l)
  /\ SetDev(l, Quieted(dev[l]))
  /\ IF call[r][l].inner > 1
     THEN SetCall(r, l, [call[r][l] EXCEPT !.st = "settling", !.inner = @ - 1])
     ELSE RetryOrFail(r, l)
  /\ UNCHANGED lock

-----------------------------------------------------------------------------

(* The peer goes away; the code learns of it at its next send.              *)
LinkBreaks(l) ==
  /\ dev[l].socket = "open"
  /\ SetDev(l, [dev[l] EXCEPT !.socket = "dead"])
  /\ UNCHANGED <<lock, call>>

CallStep(r, l) ==
  \/ Connect(r, l)      \/ ConnectFails(r, l)    \/ CheckContinuous(r, l)
  \/ SkipEscape(r, l)   \/ EscapeSent(r, l)      \/ EscapeBreaks(r, l)
  \/ EscapeRaises(r, l) \/ FinishStop(r, l)      \/ FinishOff(r, l)
  \/ FinishStopDrift(r, l)
  \/ SendVT(r, l)       \/ VTAnswered(r, l)      \/ VTFails(r, l)
  \/ Flow(r, l)         \/ BerthingStarted(r, l) \/ DriftVerify(r, l)
  \/ NoData(r, l)       \/ DriftStarted(r, l)    \/ DriftNoData(r, l)
  \/ Undo(r, l)

=============================================================================
