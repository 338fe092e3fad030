----------------------------- MODULE DbStreamer ------------------------------
(***************************************************************************)
(* The database streamer of the lidar service (db_streamer_service.py) and *)
(* its consumers (database_consumer.py): one asyncio task registered in    *)
(* the service, the DatabaseConsumer it made, and a consumer task for each *)
(* sensor.  A stream s is one call of _run_consumers with that consumer    *)
(* object; the event loop runs one step at a time.                         *)
(***************************************************************************)
EXTENDS Integers, FiniteSets

CONSTANTS
  Stoppers,  (* those that may call start or stop                            *)
  Sensors,
  Streams    (* 1 .. n: bounds the starts                                    *)

ASSUME DbStreamerAssumption == Streams \subseteq Nat \ {0}

VARIABLES
  stream,      (* stream[s]: progress of the task, and what it needs         *)
  registered,  (* db_consumer_task: a stream, or 0                           *)
  db_cons,     (* the DatabaseConsumer made last: that of a stream, or 0     *)
  shutdown_event,
  consumer,    (* consumer[s][x]: the consumer task of sensor x              *)
  stored,      (* sensors with a row in the database                         *)
  lost,        (* history: streams unregistered by the stop of another one   *)
  stopping     (* stopping[r]: the stream that a stop of r waits for, or 0   *)

streamVars == <<stream, registered, db_cons, shutdown_event, consumer, stored, lost, stopping>>

StreamTask == [at: {"new", "ready", "running", "ending", "done"},
               sensors: SUBSET Sensors, cancelled: BOOLEAN, ends: Streams \cup {0}]

StreamTypeOK ==
  /\ stream \in [Streams -> StreamTask]
  /\ registered \in Streams \cup {0} /\ db_cons \in Streams \cup {0}
  /\ shutdown_event \in BOOLEAN
  /\ consumer \in [Streams -> [Sensors -> {"none", "runs", "told"}]]
  /\ stored \subseteq Sensors /\ lost \subseteq Streams
  /\ stopping \in [Stoppers -> Streams \cup {0}]

StreamInit ==
  /\ stream = [s \in Streams |-> [at |-> "new", sensors |-> {}, cancelled |-> FALSE, ends |-> 0]]
  /\ registered = 0 /\ db_cons = 0
  /\ shutdown_event = FALSE
  /\ consumer = [s \in Streams |-> [x \in Sensors |-> "none"]]
  /\ stored = {} /\ lost = {}
  /\ stopping = [r \in Stoppers |-> 0]

Live(s) == stream[s].at \in {"ready", "running", "ending"}
Streaming == registered # 0 /\ Live(registered)
NextStream(s) == stream[s].at = "new" /\ \A k \in 1 .. s - 1: stream[k].at # "new"

-----------------------------------------------------------------------------
(* start_db_streaming(ids), which never awaits: ignored while the           *)
(* registered task is live.                                                 *)
StartStreaming(ids) ==
  /\ IF Streaming \/ ids = {}
     THEN UNCHANGED <<stream, registered, db_cons>>
     ELSE \E s \in Streams:
            /\ NextStream(s)
            /\ stream' = [stream EXCEPT ![s].at = "ready", ![s].sensors = ids]
            /\ registered' = s /\ db_cons' = s
  /\ UNCHANGED <<shutdown_event, consumer, stored, lost, stopping>>

(* stop_db_streaming by r, up to its await, which it has only if the        *)
(* registered task is live.                                                 *)
StopStreaming(r) ==
  /\ IF Streaming
     THEN /\ shutdown_event' = TRUE
          /\ stream' = [stream EXCEPT ![registered].cancelled = TRUE]
          /\ stopping' = [stopping EXCEPT ![r] = registered]
     ELSE UNCHANGED <<shutdown_event, stream, stopping>>
  /\ UNCHANGED <<registered, db_cons, consumer, stored, lost>>

(* ... and from its await on.                                               *)
Stopped(r) == stopping[r] # 0 /\ stream[stopping[r]].at = "done"

StopStreamingEnds(r) ==
  /\ Stopped(r)
  /\ registered' = 0
  /\ lost' = IF registered \in {0, stopping[r]} THEN lost ELSE lost \cup {registered}
  /\ shutdown_event' = FALSE
  /\ stopping' = [stopping EXCEPT ![r] = 0]
  /\ UNCHANGED <<stream, db_cons, consumer, stored>>

-----------------------------------------------------------------------------
(* _run_consumers.  Its first step starts the consumers and awaits the      *)
(* event; a cancel that comes before it leaves nothing to do.  A stop that  *)
(* is to resume has been scheduled before the first step of a later task.   *)
StreamBegins(s) ==
  /\ stream[s].at = "ready"
  /\ \A r \in Stoppers: ~Stopped(r)
  /\ IF stream[s].cancelled
     THEN stream' = [stream EXCEPT ![s].at = "done"] /\ UNCHANGED consumer
     ELSE /\ stream' = [stream EXCEPT ![s].at = "running"]
          /\ consumer' = [consumer EXCEPT ![db_cons] =
               [x \in Sensors |-> IF x \in stream[s].sensors THEN "runs" ELSE @[x]]]
  /\ UNCHANGED <<registered, db_cons, shutdown_event, stored, lost, stopping>>

(* Mutant: the finally leaves the consumers to themselves.                  *)
StreamEndsAlone(s) ==
  /\ stream[s].at = "running" /\ (stream[s].cancelled \/ shutdown_event)
  /\ stream' = [stream EXCEPT ![s].at = "ending", ![s].cancelled = FALSE, ![s].ends = db_cons]
  /\ UNCHANGED <<registered, db_cons, shutdown_event, consumer, stored, lost, stopping>>

(* Its finally: stop_all_consumers of the object that db_cons is now, which *)
(* sets its event, cancels its tasks and gathers them.                      *)
StreamEnds(s) ==
  /\ stream[s].at = "running" /\ (stream[s].cancelled \/ shutdown_event)
  /\ stream' = [stream EXCEPT ![s].at = "ending", ![s].cancelled = FALSE, ![s].ends = db_cons]
  /\ consumer' = [consumer EXCEPT ![db_cons] =
       [x \in Sensors |-> IF @[x] = "runs" THEN "told" ELSE @[x]]]
  /\ UNCHANGED <<registered, db_cons, shutdown_event, stored, lost, stopping>>

(* The gather returns with its last task, or with a second cancel, which    *)
(* stop_all_consumers swallows.                                             *)
StreamDone(s) ==
  /\ stream[s].at = "ending"
  /\ stream[s].cancelled \/ \A x \in Sensors: consumer[stream[s].ends][x] = "none"
  /\ stream' = [stream EXCEPT ![s].at = "done"]
  /\ UNCHANGED <<registered, db_cons, shutdown_event, consumer, stored, lost, stopping>>

-----------------------------------------------------------------------------
(* _consume_async.  SharedHTTPClient.post has the parameters named here; a  *)
(* call with another keyword raises TypeError before anything is sent.      *)
PostParameters == {"url", "json_data", "headers"}

ConsumerPosts(s, x) ==
  /\ consumer[s][x] = "runs"
  /\ stored' = IF {"url", "json"} \subseteq PostParameters THEN stored \cup {x} ELSE stored
  /\ UNCHANGED <<stream, registered, db_cons, shutdown_event, consumer, lost, stopping>>

(* Told, it ends: its sleep breaks off, and a cycle gets no further than    *)
(* the sleep that follows it.                                               *)
ConsumerEnds(s, x) ==
  /\ consumer[s][x] = "told"
  /\ consumer' = [consumer EXCEPT ![s][x] = "none"]
  /\ UNCHANGED <<stream, registered, db_cons, shutdown_event, stored, lost, stopping>>

StreamTasks ==
  \E s \in Streams:
    \/ StreamBegins(s) \/ StreamEnds(s) \/ StreamDone(s)
    \/ \E x \in Sensors: ConsumerPosts(s, x) \/ ConsumerEnds(s, x)

-----------------------------------------------------------------------------
(* A consumer that nobody told to stop belongs to a stream that still runs: *)
(* no consumer outlives the task that is to stop it, whatever starts and    *)
(* stops overlap, unless a stop has forgotten a stream that was started     *)
(* between the end of the one it waited for and its own resumption.         *)
ConsumersOwned ==
  lost = {} =>
    \A s \in Streams, x \in Sensors: consumer[s][x] = "runs" => stream[s].at = "running" /\ registered = s
=============================================================================
