----------------------------- MODULE LaserClient -----------------------------
(***************************************************************************)
(* The laser client of the lidar service (services/laser_manager.py):      *)
(* connection, drift compensation and sync coordinator, called from        *)
(* executor threads, with the threads that the calls start.                *)
(*                                                                         *)
(* A call of caller r is call[r]; a step of it is what runs between two    *)
(* accesses to shared state that another thread may separate.  No lock     *)
(* protects any of it: the "with threading.Lock()" blocks each make a lock *)
(* of their own.  The laser service is external: it drifts the berths in   *)
(* "drifting", and a request to it is taken or refused, its answer read or *)
(* lost.  The tables of devices and packets are left out.                  *)
(***************************************************************************)
EXTENDS Integers, FiniteSets

CONSTANTS
  Callers,     (* those that may have a call under way                       *)
  Berths,
  Listeners,   (* reception threads, 1 .. n: bounds the connections          *)
  Coords,      (* coordinator threads, 1 .. n: bounds their starts           *)
  NoBerth

VARIABLES
  lm,        (* the attributes of LaserManager                               *)
  listener,  (* listener[l]: a thread that receives from a websocket         *)
  coord,     (* coord[c]: a thread for _sync_coordinator_thread, "made"      *)
             (* until it is started                                          *)
  drifting,  (* berths whose lasers the laser service keeps in drift mode    *)
  call       (* call[r]: the call that r has in an executor thread           *)

laserVars == <<lm, listener, coord, drifting, call>>

Calls == {"connect", "drift", "sync", "unsync", "undrift", "disconnect"}
Points == {"enter", "set", "make", "begin", "posted", "taken", "try", "join", "returned"}
NoCall == [op |-> "none", at |-> "enter", berth |-> NoBerth, joins |-> 0, ok |-> FALSE]

Manager == [berth: Berths \cup {NoBerth}, conn: BOOLEAN, url: Berths \cup {NoBerth}, drift: BOOLEAN,
            sync: BOOLEAN, thread: Coords \cup {0}]
Listener == [at: {"new", "dial", "recv", "off"}, berth: Berths \cup {NoBerth}]
Call == [op: Calls \cup {"none"}, at: Points, berth: Berths \cup {NoBerth},
         joins: Coords \cup {0}, ok: BOOLEAN]

LaserTypeOK ==
  /\ lm \in Manager
  /\ listener \in [Listeners -> Listener]
  /\ coord \in [Coords -> {"new", "made", "run", "off"}]
  /\ drifting \subseteq Berths
  /\ call \in [Callers -> Call]

LaserInit ==
  /\ lm = [berth |-> NoBerth, conn |-> FALSE, url |-> NoBerth, drift |-> FALSE,
           sync |-> FALSE, thread |-> 0]
  /\ listener = [l \in Listeners |-> [at |-> "new", berth |-> NoBerth]]
  /\ coord = [c \in Coords |-> "new"]
  /\ drifting = {}
  /\ call = [r \in Callers |-> NoCall]

At(r, op, point) == call[r].op = op /\ call[r].at = point

(* The call of r goes on at another point, or returns.                      *)
Moves(r, point) == call' = [call EXCEPT ![r].at = point]
Returns(r, result) == call' = [call EXCEPT ![r].at = "returned", ![r].ok = result]

-----------------------------------------------------------------------------
(* connect_to_laser_manager: the check, then the start of a thread.         *)
Connect(r) ==
  /\ At(r, "connect", "enter")
  /\ IF lm.conn THEN Returns(r, FALSE) ELSE Moves(r, "set")
  /\ UNCHANGED <<lm, listener, coord, drifting>>

NextListener(l) == listener[l].at = "new" /\ \A k \in 1 .. l - 1: listener[k].at # "new"

(* A thread that has not dialled might as well not have begun.              *)
ConnectStarts(r) ==
  /\ At(r, "connect", "set")
  /\ lm' = [lm EXCEPT !.url = call[r].berth, !.conn = TRUE]
  /\ \E l \in Listeners: NextListener(l) /\ listener' = [listener EXCEPT ![l].at = "dial"]
  /\ Returns(r, TRUE)
  /\ UNCHANGED <<coord, drifting>>

(* disconnect_from_laser_manager, which leaves the thread to itself.        *)
Disconnect(r) ==
  /\ At(r, "disconnect", "enter")
  /\ lm' = [lm EXCEPT !.conn = FALSE]
  /\ Returns(r, TRUE)
  /\ UNCHANGED <<listener, coord, drifting>>

-----------------------------------------------------------------------------
(* start_ and stop_laser_drift_compensation: a POST for the berth that was  *)
(* configured last.  stop returns at once when the flag is not set.         *)
DriftPosts(r) ==
  /\ \/ At(r, "drift", "enter")
     \/ At(r, "undrift", "enter") /\ lm.drift
  /\ call' = [call EXCEPT ![r].at = "posted", ![r].berth = lm.berth]
  /\ UNCHANGED <<lm, listener, coord, drifting>>

NotDrifting(r) ==
  /\ At(r, "undrift", "enter") /\ ~lm.drift
  /\ Returns(r, TRUE)
  /\ UNCHANGED <<lm, listener, coord, drifting>>

ServiceTakes(r) ==
  /\ call[r].at = "posted"
  /\ drifting' = IF call[r].op = "drift" THEN drifting \cup {call[r].berth}
                                         ELSE drifting \ {call[r].berth}
  /\ Moves(r, "taken")
  /\ UNCHANGED <<lm, listener, coord>>

(* An error status, no connection, or no answer although the service acted. *)
DriftFails(r) ==
  /\ call[r].at \in {"posted", "taken"}
  /\ Returns(r, FALSE)
  /\ UNCHANGED <<lm, listener, coord, drifting>>

DriftAnswered(r) ==
  /\ call[r].at = "taken"
  /\ lm' = [lm EXCEPT !.drift = call[r].op = "drift"]
  /\ Returns(r, TRUE)
  /\ UNCHANGED <<listener, coord, drifting>>

-----------------------------------------------------------------------------
(* start_sync_coordinator: the checks, the flag, the thread, its start,     *)
(* each by an attribute that calls in other threads set.                    *)
Sync(r) ==
  /\ At(r, "sync", "enter")
  /\ IF lm.sync THEN Returns(r, TRUE)
     ELSE IF lm.conn THEN Moves(r, "set") ELSE Returns(r, FALSE)
  /\ UNCHANGED <<lm, listener, coord, drifting>>

SyncSets(r) ==
  /\ At(r, "sync", "set")
  /\ lm' = [lm EXCEPT !.sync = TRUE]
  /\ Moves(r, "make")
  /\ UNCHANGED <<listener, coord, drifting>>

NextCoord(c) == coord[c] = "new" /\ \A k \in 1 .. c - 1: coord[k] # "new"

SyncMakes(r) ==
  /\ At(r, "sync", "make")
  /\ \E c \in Coords: /\ NextCoord(c)
                      /\ lm' = [lm EXCEPT !.thread = c]
                      /\ coord' = [coord EXCEPT ![c] = "made"]
  /\ Moves(r, "begin")
  /\ UNCHANGED <<listener, drifting>>

(* The thread of now, which may be another call's.                          *)
SyncStarts(r) ==
  /\ At(r, "sync", "begin")
  /\ \E c \in Coords: /\ c = lm.thread /\ coord[c] = "made"
                      /\ coord' = [coord EXCEPT ![c] = "run"]
  /\ Returns(r, TRUE)
  /\ UNCHANGED <<lm, listener, drifting>>

(* A stop has taken the thread away, or another call has started it.        *)
SyncRaises(r) ==
  /\ At(r, "sync", "begin")
  /\ lm.thread \in Coords => coord[lm.thread] # "made"
  /\ lm' = [lm EXCEPT !.sync = FALSE]
  /\ Returns(r, FALSE)
  /\ UNCHANGED <<listener, coord, drifting>>

(* stop_sync_coordinator: the flag, then the thread, whose join raises if   *)
(* it is not yet started.  It is read twice: one that is taken away between *)
(* makes the answer FALSE, which nobody looks at.                           *)
Unsync(r) ==
  /\ At(r, "unsync", "enter")
  /\ IF lm.sync
     THEN lm' = [lm EXCEPT !.sync = FALSE] /\ Moves(r, "try")
     ELSE UNCHANGED lm /\ Returns(r, TRUE)
  /\ UNCHANGED <<listener, coord, drifting>>

UnsyncTries(r) ==
  /\ At(r, "unsync", "try")
  /\ IF lm.thread \in Coords /\ coord[lm.thread] \in {"run", "off"}
     THEN call' = [call EXCEPT ![r].at = "join", ![r].joins = lm.thread]
     ELSE Returns(r, lm.thread = 0)
  /\ UNCHANGED <<lm, listener, coord, drifting>>

(* The thread looks at the flag every second and join waits for two: it     *)
(* runs out only when the flag was set again.                               *)
UnsyncJoins(r) ==
  /\ At(r, "unsync", "join")
  /\ coord[call[r].joins] = "off" \/ lm.sync
  /\ lm' = [lm EXCEPT !.thread = 0]
  /\ Returns(r, TRUE)
  /\ UNCHANGED <<listener, coord, drifting>>

-----------------------------------------------------------------------------
(* The threads.                                                             *)

CoordEnds(c) ==
  /\ coord[c] = "run" /\ ~lm.sync
  /\ coord' = [coord EXCEPT ![c] = "off"]
  /\ UNCHANGED <<lm, listener, drifting, call>>

(* _websocket_client_loop: dial the url of now, receive as long as the flag *)
(* is set, looking at it every second, dial again after an error.           *)
ListenerDials(l) ==
  /\ listener[l].at = "dial"
  /\ listener' = [listener EXCEPT ![l] = IF lm.conn THEN [at |-> "recv", berth |-> lm.url]
                                                    ELSE [at |-> "off", berth |-> NoBerth]]
  /\ UNCHANGED <<lm, coord, drifting, call>>

(* Mutant: an error of the connection ends the thread.                      *)
ListenerGivesUp(l) ==
  /\ listener[l].at = "recv"
  /\ listener' = [listener EXCEPT ![l] = [at |-> "off", berth |-> NoBerth]]
  /\ UNCHANGED <<lm, coord, drifting, call>>

ListenerLeaves(l) ==
  /\ listener[l].at = "recv"
  /\ listener' = [listener EXCEPT ![l] = [at |-> "dial", berth |-> NoBerth]]
  /\ UNCHANGED <<lm, coord, drifting, call>>

LaserThreads ==
  \/ \E c \in Coords: CoordEnds(c)
  \/ \E l \in Listeners: ListenerDials(l) \/ ListenerLeaves(l)

CallStep(r) ==
  \/ Connect(r) \/ ConnectStarts(r) \/ Disconnect(r)
  \/ DriftPosts(r) \/ NotDrifting(r) \/ ServiceTakes(r) \/ DriftAnswered(r) \/ DriftFails(r)
  \/ Sync(r) \/ SyncSets(r) \/ SyncMakes(r) \/ SyncStarts(r) \/ SyncRaises(r)
  \/ Unsync(r) \/ UnsyncTries(r) \/ UnsyncJoins(r)

-----------------------------------------------------------------------------
(* Whoever finds the client connected and no connect between its check and  *)
(* its thread, finds a thread that receives from the url, or is to dial it: *)
(* a check and a set apart, calls of two operations and threads that look   *)
(* at the flag a second later never leave a connection that nobody reads.   *)
ListensToUrl ==
  lm.conn =>
    \/ \E l \in Listeners: \/ listener[l].at = "dial"
                           \/ listener[l].at = "recv" /\ listener[l].berth = lm.url
    \/ \E r \in Callers: At(r, "connect", "set")

(* The same of the coordinator: while the flag is set a thread runs that    *)
(* looks at it or a start is on its way, although starts and stops race,    *)
(* take threads from each other and start each other's.                     *)
CoordinatorRuns ==
  lm.sync =>
    \/ \E c \in Coords: coord[c] = "run"
    \/ \E r \in Callers: At(r, "sync", "make") \/ At(r, "sync", "begin")

(* What the client's flags say, a thread does.                              *)
FlagsBacked == ListensToUrl /\ CoordinatorRuns
=============================================================================
