---------------------------- MODULE CommandStack ----------------------------
(***************************************************************************)
(* ProductionLaserDevice.send_command                                      *)
(* (laser-service/core/production_laser_device.py): the retry loop and the *)
(* circuit breaker of CircuitBreaker around one AsyncConnection of an      *)
(* AsyncConnectionPool (laser-service/core/async_connection_pool.py) and   *)
(* the byte stream to the device.                                          *)
(*                                                                         *)
(* wait_for runs the operation of an attempt as a task of its own.  It     *)
(* suspends while it waits for the lock of the connection, while it opens  *)
(* a stream and while it reads; writing a command does not suspend.  At    *)
(* the end of an attempt the task is gone, by its own outcome or because   *)
(* wait_for cancelled it.                                                  *)
(*                                                                         *)
(* Bounds: there are no more callers than connection_semaphore admits (5), *)
(* so nobody waits for it; a command is written only while fewer than      *)
(* MaxPending lines of its stream are outstanding.                         *)
(***************************************************************************)
EXTENDS CircuitBreaker, Sequences

CONSTANTS
  Streams,   (* identities of byte streams that are open at the same time    *)
  MaxPending, (* bound: commands on one stream whose answers were not read   *)
  Keeper,    (* the health check and balancer loops, serialised by pool_lock *)
  NoStream, Nobody

ASSUME StackAssumption ==
  /\ Keeper \notin Callers /\ Nobody \notin Callers /\ Keeper # Nobody
  /\ NoStream \notin Streams
  /\ MaxPending \in Nat \ {0}

VARIABLES
  conn,     (* the AsyncConnection of the laser                              *)
  stream,   (* stream[s]: commands written and not answered, and the reader  *)
  op,       (* op[c]: where the operation of the attempt of c is suspended   *)
  pool      (* "open", "closing" (is_closed is set), "closed"                *)

vars == <<breaker, caller, conn, stream, op, pool>>
stackVars == <<conn, stream, op, pool>>

Conn ==
  [state: {"IDLE", "ACTIVE", "RECONNECTING", "FAILED", "CLOSED"},
   stream: Streams \cup {NoStream},            \* self.connection
   lock: Callers \cup {Keeper, Nobody}]

(* asked: who wrote the commands whose answers have not been read, Nobody   *)
(* if that command was given up; answered: how many of the answers have     *)
(* arrived; reader: the coroutine for which the StreamReader keeps a waiter; *)
(* broken, a history variable: an operation on the stream has raised.       *)
Stream ==
  [asked: Seq(Callers \cup {Nobody}), answered: Nat, reader: Callers \cup {Nobody},
   broken: BOOLEAN]

Op == [at: {"none", "enter", "lock", "creating", "reading"},
       stream: Streams \cup {NoStream}]

NoOp == [at |-> "none", stream |-> NoStream]
EmptyStream == [asked |-> <<>>, answered |-> 0, reader |-> Nobody, broken |-> FALSE]

(* The state after initialize(): add_connection has connected.              *)
Init ==
  /\ BreakerInit
  /\ \E s \in Streams : conn = [state |-> "ACTIVE", stream |-> s, lock |-> Nobody]
  /\ stream = [s \in Streams |-> EmptyStream]
  /\ op = [c \in Callers |-> NoOp]
  /\ pool = "open"

-----------------------------------------------------------------------------
(* Helpers.                                                                 *)

At(c, where) == op[c].at = where
Goes(c, where, s) == op' = [op EXCEPT ![c] = [at |-> where, stream |-> s]]

Usable == conn.state = "ACTIVE" /\ conn.stream # NoStream

FreeStreams ==
  {s \in Streams : conn.stream # s /\ \A c \in Callers : op[c].stream # s}

(* The answer to a command of c, if it still comes, is one nobody waits for; *)
(* a stream that nobody refers to any more is forgotten.  raised: c gives up *)
(* because its operation raised an exception that execute() sees.           *)
GivenUp(s, c, raised) ==
  IF conn.stream # s /\ \A d \in Callers \ {c} : op[d].stream # s
  THEN EmptyStream
  ELSE [asked |-> [i \in DOMAIN stream[s].asked |->
                     IF stream[s].asked[i] = c THEN Nobody ELSE stream[s].asked[i]],
        answered |-> stream[s].answered,
        reader |-> IF stream[s].reader = c THEN Nobody ELSE stream[s].reader,
        broken |-> stream[s].broken \/ (raised /\ op[c].stream = s)]

(* The task of c ends and leaves the connection in state st: "async with"   *)
(* releases the lock on every path.                                         *)
Ends(c, st, raised) ==
  /\ op' = [op EXCEPT ![c] = NoOp]
  /\ conn' = [conn EXCEPT !.state = st,
                          !.lock = IF conn.lock = c THEN Nobody ELSE conn.lock]
  /\ stream' = [s \in Streams |-> GivenUp(s, c, raised)]
  /\ UNCHANGED pool

(* Mutant: the lock of the connection is not released by a cancel.          *)
CancelledKeepsLock(c) ==
  /\ op' = [op EXCEPT ![c] = NoOp]
  /\ stream' = [s \in Streams |-> GivenUp(s, c, FALSE)]
  /\ UNCHANGED <<conn, pool>>

(* A CancelledError is no Exception: the connection keeps its state.        *)
Cancelled(c) == Ends(c, conn.state, FALSE)

(* "Mark connection as unhealthy on error", whichever stream it has by now. *)
MarkedFailed(c) == Ends(c, "FAILED", TRUE)

Opened(s, st) == conn' = [conn EXCEPT !.state = st, !.stream = s, !.lock = Nobody]

-----------------------------------------------------------------------------
(* get_connection and connect().                                            *)

Attempts(c, n) ==
  \/ Admitted(c, n) /\ Goes(c, "enter", NoStream) /\ UNCHANGED <<conn, stream, pool>>
  \/ Rejected(c, n) /\ UNCHANGED stackVars

(* Mutant: a closed pool still hands out its connection.                    *)
EntersAnyway(c) ==
  /\ At(c, "enter")
  /\ Goes(c, "lock", NoStream)
  /\ UNCHANGED <<breaker, caller, conn, stream, pool>>

(* is_closed is checked and the lock of the connection asked for in one     *)
(* step.                                                                    *)
Enters(c) ==
  /\ At(c, "enter")
  /\ pool = "open"
  /\ Goes(c, "lock", NoStream)
  /\ UNCHANGED <<breaker, caller, conn, stream, pool>>

FindsClosed(c) ==
  /\ At(c, "enter")
  /\ pool # "open"
  /\ Fails(c) /\ Ends(c, conn.state, FALSE)

Reconnects(c) ==
  /\ At(c, "lock") /\ conn.lock = Nobody /\ ~Usable
  /\ conn' = [conn EXCEPT !.lock = c, !.state = "RECONNECTING"]
  /\ Goes(c, "creating", NoStream)
  /\ UNCHANGED <<breaker, caller, stream, pool>>

(* create_func raises: OSError is retried, a TimeoutError is not, because   *)
(* the breaker turns it into an exception of its own.                       *)
ConnectFails(c) ==
  /\ At(c, "creating")
  /\ Fails(c) \/ FailsRetryably(c)
  /\ MarkedFailed(c)

-----------------------------------------------------------------------------
(* _send_raw_command: write, then readuntil.                                *)

Sends(c, s, written) ==
  /\ Len(written.asked) < MaxPending
  /\ Goes(c, "reading", s)
  /\ stream' = [stream EXCEPT ![s] = [written EXCEPT !.asked = Append(written.asked, c)]]
  /\ UNCHANGED <<breaker, caller, pool>>

SendsOnActive(c) ==
  /\ At(c, "lock") /\ conn.lock = Nobody /\ Usable
  /\ Sends(c, conn.stream, stream[conn.stream])
  /\ UNCHANGED conn

SendsOnNew(c) ==
  /\ At(c, "creating")
  /\ \E s \in FreeStreams : Opened(s, "ACTIVE") /\ Sends(c, s, EmptyStream)

(* The StreamReader keeps one waiter.                                       *)
Waits(c) ==
  LET s == op[c].stream IN
  /\ At(c, "reading")
  /\ stream[s].answered = 0 /\ stream[s].reader = Nobody
  /\ stream' = [stream EXCEPT ![s].reader = c]
  /\ UNCHANGED <<breaker, caller, conn, op, pool>>

(* "readuntil() called while another coroutine is already waiting for       *)
(* incoming data".                                                          *)
Clashes(c) ==
  LET s == op[c].stream IN
  /\ At(c, "reading")
  /\ stream[s].answered = 0 /\ stream[s].reader \notin {c, Nobody}
  /\ Fails(c) /\ MarkedFailed(c)

(* A line is there: it goes to whoever asks first.                          *)
ReadsLine(c) ==
  LET s == op[c].stream IN
  /\ At(c, "reading")
  /\ stream[s].answered > 0
  /\ Succeeds(c)
  /\ op' = [op EXCEPT ![c] = NoOp]
  /\ stream' = [t \in Streams |->
                  IF t = s /\ GivenUp(s, c, FALSE) # EmptyStream
                  THEN [GivenUp(s, c, FALSE) EXCEPT !.asked = Tail(@),
                                                    !.answered = stream[s].answered - 1]
                  ELSE GivenUp(t, c, FALSE)]
  /\ UNCHANGED <<conn, pool>>

(* Mutant: an error that will be retried does not fail the connection.      *)
StreamBreaksUnmarked(c) ==
  /\ At(c, "reading")
  /\ \/ Fails(c) /\ MarkedFailed(c)
     \/ FailsRetryably(c) /\ Ends(c, conn.state, TRUE)

(* The peer resets the connection (retried) or closes it (IncompleteReadError *)
(* is not retried).                                                         *)
StreamBreaks(c) ==
  /\ At(c, "reading")
  /\ Fails(c) \/ FailsRetryably(c)
  /\ MarkedFailed(c)

(* The timer of the breaker runs out, or the caller is cancelled.           *)
OpCancelled(c) ==
  /\ TimesOut(c) \/ Unrecorded(c)
  /\ Cancelled(c)

-----------------------------------------------------------------------------
(* The device, the maintenance loops of the pool, and close().              *)

DeviceAnswers(s) ==
  /\ stream[s].answered < Len(stream[s].asked)
  /\ stream' = [stream EXCEPT ![s].answered = stream[s].answered + 1, ![s].reader = Nobody]
  /\ UNCHANGED <<breaker, caller, conn, op, pool>>

KeeperReconnects ==
  /\ pool = "open"
  /\ conn.lock = Nobody /\ ~Usable
  /\ conn' = [conn EXCEPT !.lock = Keeper, !.state = "RECONNECTING"]
  /\ UNCHANGED <<breaker, caller, stream, op, pool>>

KeeperDone ==
  /\ conn.lock = Keeper
  /\ \/ \E s \in FreeStreams : /\ Opened(s, "ACTIVE")
                               /\ stream' = [stream EXCEPT ![s] = EmptyStream]
     \/ Opened(conn.stream, "FAILED") /\ UNCHANGED stream
  /\ UNCHANGED <<breaker, caller, op, pool>>

(* close(): is_closed is set and the loops are cancelled.                   *)
Close ==
  /\ pool = "open"
  /\ pool' = "closing"
  /\ conn' = [conn EXCEPT !.lock = IF conn.lock = Keeper THEN Nobody ELSE conn.lock]
  /\ UNCHANGED <<breaker, caller, stream, op>>

(* disconnect() gets the lock behind everyone who was waiting for it.       *)
CloseEnds ==
  /\ pool = "closing"
  /\ conn.lock = Nobody
  /\ \A c \in Callers : ~At(c, "lock")
  /\ conn' = IF conn.stream = NoStream THEN conn
             ELSE [conn EXCEPT !.stream = NoStream, !.state = "CLOSED"]
  /\ pool' = "closed"
  /\ UNCHANGED <<breaker, caller, stream, op>>

OpStep(c) ==
  \/ Enters(c)        \/ FindsClosed(c) \/ Reconnects(c) \/ ConnectFails(c)
  \/ SendsOnActive(c) \/ SendsOnNew(c)  \/ Waits(c)      \/ Clashes(c)
  \/ ReadsLine(c)     \/ StreamBreaks(c) \/ OpCancelled(c)

Next ==
  \/ \E c \in Callers, n \in 1 .. MaxAttempts : Attempts(c, n)
  \/ \E c \in Callers : OpStep(c)
  \/ \E s \in Streams : DeviceAnswers(s)
  \/ KeeperReconnects \/ KeeperDone \/ Close \/ CloseEnds
  \/ (Reset \/ ForceOpen \/ Tick) /\ UNCHANGED stackVars

Spec == Init /\ [][Next]_vars

-----------------------------------------------------------------------------

(* Type invariant; the task of an attempt exists exactly while the breaker  *)
(* waits for it.                                                            *)
TypeOK ==
  /\ BreakerTypeOK
  /\ conn \in Conn
  /\ stream \in [Streams -> Stream]
  /\ op \in [Callers -> Op]
  /\ pool \in {"open", "closing", "closed"}
  /\ \A c \in Callers : Running(c) <=> ~At(c, "none")

(* The lock of the connection is held by exactly the coroutine that is      *)
(* opening a stream, so it is free again after every failure, timeout and   *)
(* cancel of that coroutine.                                                *)
LockOnlyWhileOpening ==
  \A c \in Callers : conn.lock = c <=> At(c, "creating")

(* A command that passed the check of is_closed before close() may still    *)
(* open a stream while close() waits, but when close() has returned no      *)
(* stream is left and none will be opened.                                  *)
ClosedForGood ==
  pool = "closed" =>
    /\ conn.stream = NoStream
    /\ \A c \in Callers : op[c].at \notin {"lock", "creating"}

(* A stream on which an operation has raised carries no further command     *)
(* (async_connection_pool.py:45-59, 121-127): callers, the maintenance loops *)
(* and close() set state and stream of one connection at different awaits,  *)
(* a reconnect may fail or be cancelled after it has set the state, and an  *)
(* operation on an older stream may fail meanwhile, but nobody makes the    *)
(* connection ACTIVE again without a new stream.                            *)
BrokenStreamsRetired == Usable => ~stream[conn.stream].broken

-----------------------------------------------------------------------------

(* Every command gets the answer of the device to itself.                   *)
AnswerIsOwn ==
  [][\A c \in Callers : ReadsLine(c) => Head(stream[op[c].stream].asked) = c]_vars

=============================================================================
