--------------------------- MODULE Operation_proofs ----------------------------
(***************************************************************************)
(* Theorems about Operation: its types, the threads behind the flags of    *)
(* the laser client, the consumers of the database streamer, and what an   *)
(* answer of success means.                                                *)
(***************************************************************************)
EXTENDS Operation, TLAPS

-----------------------------------------------------------------------------
Starts == {"connect", "drift", "sync"}
Stops == {"unsync", "undrift", "disconnect"}

(* What a request q has stored at each stage, and which call c its laser    *)
(* part may have under way.                                                 *)
Fits(q, c) ==
  /\ c.op # "none" => q.at = "work" /\ q.laser = "busy"
  /\ c.op = "none" => c.at = "enter"
  /\ c.at \in {"posted", "taken"} => c.berth \in Berths
  /\ q.at = "query" => q.kind \in {"start", "stop"} /\ q.berth \in Berths
  /\ q.laser = "busy" \/ q.lidar = "busy" => q.at = "work"
  /\ q.lidar = "busy" => q.kind \in {"start", "stop"} /\ q.berth \in Berths
  /\ q.kind = "start" /\ q.laser = "busy" => c.op \in Starts
  /\ q.kind \in {"stop", "shutdown"} /\ q.laser = "busy" => c.op \in Stops

(* Lasers are used, and called, only under a berth.                         *)
BerthKnown ==
  /\ use.laser => lm.berth \in Berths
  /\ \A r \in Callers: call[r].op # "none" => lm.berth \in Berths

RequestTypeOK ==
  /\ use \in [laser: BOOLEAN, lidar: BOOLEAN]
  /\ current \in BerthingIds \cup {0}
  /\ req \in [Callers -> Request]
  /\ lidarOn \subseteq Sensors
  /\ made \in 0 .. MaxRequests
  /\ closed \in BOOLEAN

RequestInv == RequestTypeOK /\ BerthKnown /\ \A r \in Callers: Fits(req[r], call[r])
ClientInv == LaserTypeOK /\ ListensToUrl /\ CoordinatorRuns

(* There is one live stream at a time, the one that the service knows.      *)
OneStream ==
  lost = {} =>
    /\ \A s \in Streams: Live(s) => registered = s /\ db_cons = s
    /\ \A s \in Streams, x \in Sensors: consumer[s][x] = "runs" => stream[s].at = "running"

StreamInv == StreamTypeOK /\ OneStream
IInv == RequestInv /\ ClientInv /\ StreamInv

-----------------------------------------------------------------------------
(* The streamer.                                                            *)

LEMMA StreamTypes ==
  ASSUME StreamTypeOK, NEW s \in Streams
  PROVE  /\ stream[s] \in StreamTask
         /\ \A at \in {"ready", "running", "ending", "done"} : [stream[s] EXCEPT !.at = at] \in StreamTask
         /\ [stream[s] EXCEPT !.cancelled = TRUE] \in StreamTask
BY DEF StreamTypeOK, StreamTask

LEMMA StartStreamingKeeps ==
  ASSUME StreamInv, NEW ids \in SUBSET Sensors, StartStreaming(ids)
  PROVE  StreamInv'
<1>1. CASE Streaming \/ ids = {}
  BY <1>1 DEF StreamInv, StreamTypeOK, OneStream, StartStreaming, Live
<1>2. CASE ~(Streaming \/ ids = {})
  <2>1. PICK s \in Streams : /\ NextStream(s)
                             /\ stream' = [stream EXCEPT ![s].at = "ready", ![s].sensors = ids]
                             /\ registered' = s /\ db_cons' = s
    BY <1>2 DEF StartStreaming
  <2>2. UNCHANGED <<consumer, lost, stored, shutdown_event, stopping>>
    BY DEF StartStreaming
  <2>a. stream[s] \in StreamTask
    BY DEF StreamInv, StreamTypeOK
  <2>b. stream' = [stream EXCEPT ![s] = [stream[s] EXCEPT !.at = "ready", !.sensors = ids]]
    BY <2>1
  <2>c. [stream[s] EXCEPT !.at = "ready", !.sensors = ids] \in StreamTask
    BY <2>a DEF StreamTask
  <2>3. StreamTypeOK'
    BY <2>1, <2>b, <2>c, <2>2 DEF StreamInv, StreamTypeOK
  <2>4. \A k \in Streams : k # s => stream'[k] = stream[k]
    BY <2>1 DEF StreamInv, StreamTypeOK
  <2>5. stream'[s].at = "ready" /\ stream[s].at = "new"
    BY <2>1 DEF StreamInv, StreamTypeOK, StreamTask, NextStream
  <2>6. ASSUME lost = {}, NEW k \in Streams PROVE ~Live(k)
    BY <1>2, <2>6, DbStreamerAssumption DEF Streaming, StreamInv, OneStream
  <2>7. OneStream'
    BY <2>1, <2>2, <2>4, <2>5, <2>6 DEF StreamInv, OneStream, Live
  <2> QED  BY <2>3, <2>7 DEF StreamInv
<1> QED  BY <1>1, <1>2

LEMMA StopStreamingKeeps ==
  ASSUME StreamInv, NEW r \in Callers, StopStreaming(r)
  PROVE  StreamInv'
<1>1. CASE ~Streaming
  BY <1>1 DEF StreamInv, StreamTypeOK, OneStream, StopStreaming, Live
<1>2. CASE Streaming
  <2>1. registered \in Streams
    BY <1>2 DEF Streaming, StreamInv, StreamTypeOK
  <2>2. /\ stream' = [stream EXCEPT ![registered].cancelled = TRUE]
        /\ stopping' = [stopping EXCEPT ![r] = registered]
        /\ shutdown_event' = TRUE
        /\ UNCHANGED <<registered, db_cons, consumer, stored, lost>>
    BY <1>2 DEF StopStreaming
  <2>a. stream' = [stream EXCEPT ![registered] = [stream[registered] EXCEPT !.cancelled = TRUE]]
    BY <2>2
  <2>b. [stream[registered] EXCEPT !.cancelled = TRUE] \in StreamTask
    BY <2>1, StreamTypes DEF StreamInv
  <2>3. StreamTypeOK'
    BY <2>1, <2>2, <2>a, <2>b DEF StreamInv, StreamTypeOK
  <2>4. \A k \in Streams : stream'[k].at = stream[k].at
    BY <2>1, <2>2 DEF StreamInv, StreamTypeOK, StreamTask
  <2> QED  BY <2>2, <2>3, <2>4 DEF StreamInv, OneStream, Live
<1> QED  BY <1>1, <1>2

LEMMA StopStreamingEndsKeeps ==
  ASSUME StreamInv, NEW r \in Callers, StopStreamingEnds(r)
  PROVE  StreamInv'
<1>1. StreamTypeOK'
  BY DEF StreamInv, StreamTypeOK, StopStreamingEnds
<1>2. ASSUME lost' = {} PROVE lost = {} /\ registered \in {0, stopping[r]}
  BY <1>2 DEF StopStreamingEnds
<1>3. ASSUME lost' = {}, NEW s \in Streams PROVE ~Live(s)
  BY <1>2, <1>3, DbStreamerAssumption DEF StreamInv, OneStream, StopStreamingEnds, Stopped, Live
<1> QED  BY <1>1, <1>2, <1>3 DEF StreamInv, OneStream, StopStreamingEnds, Live

LEMMA StreamBeginsKeeps ==
  ASSUME StreamInv, NEW s \in Streams, StreamBegins(s)
  PROVE  StreamInv'
<1>1. CASE stream[s].cancelled
  <2>1. stream' = [stream EXCEPT ![s].at = "done"] /\ UNCHANGED consumer
    BY <1>1 DEF StreamBegins
  <2>2. UNCHANGED <<registered, db_cons, shutdown_event, stored, lost, stopping>>
    BY DEF StreamBegins
  <2>a. stream' = [stream EXCEPT ![s] = [stream[s] EXCEPT !.at = "done"]]
    BY <2>1
  <2>b. [stream[s] EXCEPT !.at = "done"] \in StreamTask
    BY StreamTypes DEF StreamInv
  <2>3. StreamTypeOK'
    BY <2>1, <2>2, <2>a, <2>b DEF StreamInv, StreamTypeOK
  <2>4. stream[s].at = "ready"
    BY DEF StreamBegins
  <2>5. \A k \in Streams : stream'[k].at = IF k = s THEN "done" ELSE stream[k].at
    BY <2>1 DEF StreamInv, StreamTypeOK, StreamTask
  <2> QED  BY <2>1, <2>2, <2>3, <2>4, <2>5 DEF StreamInv, OneStream, Live
<1>2. CASE ~stream[s].cancelled
  <2>1. /\ stream' = [stream EXCEPT ![s].at = "running"]
        /\ consumer' = [consumer EXCEPT ![db_cons] =
              [x \in Sensors |-> IF x \in stream[s].sensors THEN "runs" ELSE consumer[db_cons][x]]]
    BY <1>2 DEF StreamBegins
  <2>2. UNCHANGED <<registered, db_cons, shutdown_event, stored, lost, stopping>>
    BY DEF StreamBegins
  <2>a. stream' = [stream EXCEPT ![s] = [stream[s] EXCEPT !.at = "running"]]
    BY <2>1
  <2>b. [stream[s] EXCEPT !.at = "running"] \in StreamTask
    BY StreamTypes DEF StreamInv
  <2>3. StreamTypeOK'
    BY <2>1, <2>2, <2>a, <2>b DEF StreamInv, StreamTypeOK
  <2>4. stream[s].at = "ready"
    BY DEF StreamBegins
  <2>5. \A k \in Streams : stream'[k].at = IF k = s THEN "running" ELSE stream[k].at
    BY <2>1 DEF StreamInv, StreamTypeOK, StreamTask
  <2>6. lost = {} => db_cons = s
    BY <2>4 DEF StreamInv, OneStream, Live
  <2>7. \A k \in Streams : k # db_cons => consumer'[k] = consumer[k]
    BY <2>1 DEF StreamInv, StreamTypeOK
  <2> QED  BY <2>2, <2>3, <2>4, <2>5, <2>6, <2>7 DEF StreamInv, OneStream, Live
<1> QED  BY <1>1, <1>2

LEMMA StreamEndsKeeps ==
  ASSUME StreamInv, NEW s \in Streams, StreamEnds(s)
  PROVE  StreamInv'
<1>1. /\ stream[s].at = "running"
      /\ stream' = [stream EXCEPT ![s] = [stream[s] EXCEPT !.at = "ending", !.cancelled = FALSE, !.ends = db_cons]]
      /\ consumer' = [consumer EXCEPT ![db_cons] =
              [x \in Sensors |-> IF consumer[db_cons][x] = "runs" THEN "told" ELSE consumer[db_cons][x]]]
      /\ UNCHANGED <<registered, db_cons, shutdown_event, stored, lost, stopping>>
  BY DEF StreamEnds
<1>2. stream[s] \in StreamTask /\ db_cons \in Streams \cup {0}
  BY DEF StreamInv, StreamTypeOK
<1>3. [stream[s] EXCEPT !.at = "ending", !.cancelled = FALSE, !.ends = db_cons] \in StreamTask
  BY <1>2 DEF StreamTask
<1>4. StreamTypeOK'
  BY <1>1, <1>3 DEF StreamInv, StreamTypeOK
<1>5. \A k \in Streams : stream'[k].at = IF k = s THEN "ending" ELSE stream[k].at
  BY <1>1, <1>2 DEF StreamInv, StreamTypeOK, StreamTask
<1>6. lost = {} => db_cons = s
  BY <1>1 DEF StreamInv, OneStream, Live
<1>7. \A k \in Streams : k # db_cons => consumer'[k] = consumer[k]
  BY <1>1 DEF StreamInv, StreamTypeOK
<1>8. ASSUME db_cons = s, NEW x \in Sensors PROVE consumer'[s][x] # "runs"
  BY <1>1, <1>8 DEF StreamInv, StreamTypeOK
<1> QED  BY <1>1, <1>4, <1>5, <1>6, <1>7, <1>8 DEF StreamInv, OneStream, Live

LEMMA StreamTasksKeep ==
  ASSUME StreamInv, StreamTasks
  PROVE  StreamInv'
<1>1. ASSUME NEW s \in Streams, StreamDone(s) PROVE StreamInv'
  <2>a. [stream[s] EXCEPT !.at = "done"] \in StreamTask
    BY StreamTypes DEF StreamInv
  <2>b. stream' = [stream EXCEPT ![s] = [stream[s] EXCEPT !.at = "done"]]
    BY <1>1 DEF StreamDone
  <2>1. StreamTypeOK'
    BY <1>1, <2>a, <2>b DEF StreamDone, StreamInv, StreamTypeOK
  <2>2. \A k \in Streams : stream'[k].at = IF k = s THEN "done" ELSE stream[k].at
    BY <1>1 DEF StreamDone, StreamInv, StreamTypeOK, StreamTask
  <2> QED  BY <1>1, <2>1, <2>2 DEF StreamDone, StreamInv, OneStream, Live
<1>2. ASSUME NEW s \in Streams, NEW x \in Sensors, ConsumerPosts(s, x) PROVE StreamInv'
  BY <1>2 DEF ConsumerPosts, StreamInv, StreamTypeOK, OneStream, Live
<1>3. ASSUME NEW s \in Streams, NEW x \in Sensors, ConsumerEnds(s, x) PROVE StreamInv'
  <2>1. StreamTypeOK'
    BY <1>3 DEF ConsumerEnds, StreamInv, StreamTypeOK
  <2>2. \A k \in Streams, y \in Sensors : consumer'[k][y] = "runs" => consumer[k][y] = "runs"
    BY <1>3 DEF ConsumerEnds, StreamInv, StreamTypeOK
  <2> QED  BY <1>3, <2>1, <2>2 DEF ConsumerEnds, StreamInv, OneStream, Live
<1> QED  BY <1>1, <1>2, <1>3, StreamBeginsKeeps, StreamEndsKeeps DEF StreamTasks

-----------------------------------------------------------------------------
(* The laser client.  A step of a call or a thread changes no request, and  *)
(* no call goes back to its check from behind it.                           *)

LEMMA CallTypes ==
  ASSUME LaserTypeOK, NEW r \in Callers
  PROVE  /\ call[r] \in Call
         /\ \A p \in Points : [call[r] EXCEPT !.at = p] \in Call
         /\ \A ok \in BOOLEAN : [call[r] EXCEPT !.at = "returned", !.ok = ok] \in Call
         /\ \A b \in Berths \cup {NoBerth} : [call[r] EXCEPT !.at = "posted", !.berth = b] \in Call
         /\ \A c \in Coords : [call[r] EXCEPT !.at = "join", !.joins = c] \in Call
BY DEF LaserTypeOK, Call, Points

(* The steps of start_sync_coordinator.                                     *)
SyncCall(r) == Sync(r) \/ SyncSets(r) \/ SyncMakes(r) \/ SyncStarts(r) \/ SyncRaises(r)

(* What a step of r's call leaves of it.                                    *)
Leaves(r, c) ==
  /\ c \in Call
  /\ call' = [call EXCEPT ![r] = c]
  /\ c.op = call[r].op
  /\ c.at # "enter"
  /\ c.at = "posted" => c.berth = lm.berth
  /\ c.at = "taken" => call[r].at = "posted" /\ c.berth = call[r].berth

LEMMA MovesLeaves ==
  ASSUME LaserTypeOK, NEW r \in Callers, NEW p \in Points \ {"enter", "posted"}, Moves(r, p),
         p = "taken" => call[r].at = "posted"
  PROVE  Leaves(r, [call[r] EXCEPT !.at = p])
<1>1. call' = [call EXCEPT ![r] = [call[r] EXCEPT !.at = p]]
  BY DEF Moves
<1>2. call[r] \in Call /\ [call[r] EXCEPT !.at = p] \in Call
  BY CallTypes
<1> QED  BY <1>1, <1>2 DEF Leaves, Call

LEMMA ReturnsLeaves ==
  ASSUME LaserTypeOK, NEW r \in Callers, NEW ok \in BOOLEAN, Returns(r, ok)
  PROVE  Leaves(r, [call[r] EXCEPT !.at = "returned", !.ok = ok])
<1>1. call' = [call EXCEPT ![r] = [call[r] EXCEPT !.at = "returned", !.ok = ok]]
  BY DEF Returns
<1>2. call[r] \in Call /\ [call[r] EXCEPT !.at = "returned", !.ok = ok] \in Call
  BY CallTypes
<1> QED  BY <1>1, <1>2 DEF Leaves, Call

LEMMA CallStepShape ==
  ASSUME LaserTypeOK, NEW r \in Callers, CallStep(r)
  PROVE  \E c \in Call : Leaves(r, c)
<1> DEFINE Goal == \E c \in Call : Leaves(r, c)
<1> TRUE \in BOOLEAN /\ FALSE \in BOOLEAN
  OBVIOUS
<1>1. ASSUME NEW ok \in BOOLEAN, Returns(r, ok) PROVE Goal
  BY <1>1, ReturnsLeaves DEF Leaves
<1>2. ASSUME NEW p \in {"set", "make", "begin", "try"}, Moves(r, p) PROVE Goal
  BY <1>2, MovesLeaves DEF Leaves, Points
<1>3. CASE ServiceTakes(r)
  BY <1>3, MovesLeaves DEF Leaves, Points, ServiceTakes
<1>4. CASE DriftPosts(r)
  <2>1. call' = [call EXCEPT ![r] = [call[r] EXCEPT !.at = "posted", !.berth = lm.berth]]
    BY <1>4 DEF DriftPosts
  <2>2. call[r] \in Call /\ [call[r] EXCEPT !.at = "posted", !.berth = lm.berth] \in Call
    BY CallTypes DEF LaserTypeOK, Manager
  <2> QED  BY <2>1, <2>2 DEF Leaves, Call
<1>5. CASE Connect(r) \/ Disconnect(r) \/ NotDrifting(r) \/ DriftAnswered(r) \/ DriftFails(r)
  BY <1>1, <1>2, <1>5 DEF Connect, Disconnect, NotDrifting, DriftAnswered, DriftFails
<1>6. CASE ConnectStarts(r) \/ Unsync(r) \/ UnsyncJoins(r)
  BY <1>1, <1>2, <1>6 DEF ConnectStarts, Unsync, UnsyncJoins
<1>7. CASE SyncCall(r)
  BY <1>1, <1>2, <1>7 DEF SyncCall, Sync, SyncSets, SyncMakes, SyncStarts, SyncRaises
<1>8. CASE UnsyncTries(r)
  <2>1. CASE lm.thread \in Coords /\ coord[lm.thread] \in {"run", "off"}
    <3>1. call' = [call EXCEPT ![r] = [call[r] EXCEPT !.at = "join", !.joins = lm.thread]]
      BY <1>8, <2>1 DEF UnsyncTries
    <3>2. call[r] \in Call /\ [call[r] EXCEPT !.at = "join", !.joins = lm.thread] \in Call
      BY <2>1, CallTypes
    <3> QED  BY <3>1, <3>2 DEF Leaves, Call
  <2>2. CASE ~(lm.thread \in Coords /\ coord[lm.thread] \in {"run", "off"})
    <3>1. Returns(r, lm.thread = 0) /\ (lm.thread = 0) \in BOOLEAN
      BY <1>8, <2>2 DEF UnsyncTries
    <3> QED  BY <1>1, <3>1
  <2> QED  BY <2>1, <2>2
<1> QED  BY <1>3, <1>4, <1>5, <1>6, <1>7, <1>8 DEF CallStep, SyncCall

LEMMA CallStepTypes ==
  ASSUME LaserTypeOK, NEW r \in Callers, Fits(req[r], call[r]), CallStep(r)
  PROVE  LaserTypeOK' /\ lm'.berth = lm.berth
<1>1. call' \in [Callers -> Call]
  BY CallStepShape DEF Leaves, LaserTypeOK
<1>2. lm' \in Manager /\ lm'.berth = lm.berth
  <2>1. CASE ConnectStarts(r)
    <3>1. call[r].berth \in Berths \cup {NoBerth} /\ lm \in Manager
      BY DEF LaserTypeOK, Call
    <3> QED  BY <2>1, <3>1 DEF ConnectStarts, Manager
  <2>2. CASE Disconnect(r) \/ DriftAnswered(r) \/ Unsync(r) \/ UnsyncJoins(r)
    <3>1. lm \in Manager
      BY DEF LaserTypeOK
    <3>2. CASE Disconnect(r) \/ Unsync(r) \/ UnsyncJoins(r)
      BY <3>1, <3>2 DEF Disconnect, Unsync, UnsyncJoins, Manager
    <3>3. CASE DriftAnswered(r)
      <4>1. lm' = [lm EXCEPT !.drift = call[r].op = "drift"] /\ (call[r].op = "drift") \in BOOLEAN
        BY <3>3 DEF DriftAnswered
      <4> QED  BY <3>1, <4>1 DEF Manager
    <3> QED  BY <2>2, <3>2, <3>3
  <2>3. CASE SyncSets(r) \/ SyncMakes(r) \/ SyncRaises(r)
    BY <2>3 DEF SyncSets, SyncMakes, SyncRaises, LaserTypeOK, Manager
  <2>4. CASE UNCHANGED lm
    BY <2>4 DEF LaserTypeOK
  <2> QED  BY <2>1, <2>2, <2>3, <2>4 DEF CallStep, Connect, DriftPosts, NotDrifting, ServiceTakes, DriftFails, Sync,
                 SyncStarts, UnsyncTries
<1>3. listener' \in [Listeners -> Listener]
  <2>1. CASE ConnectStarts(r)
    <3>1. PICK l \in Listeners : listener' = [listener EXCEPT ![l].at = "dial"]
      BY <2>1 DEF ConnectStarts
    <3>2. listener' = [listener EXCEPT ![l] = [listener[l] EXCEPT !.at = "dial"]]
      BY <3>1
    <3>3. [listener[l] EXCEPT !.at = "dial"] \in Listener
      BY DEF LaserTypeOK, Listener
    <3> QED  BY <3>2, <3>3 DEF LaserTypeOK
  <2>2. CASE UNCHANGED listener
    BY <2>2 DEF LaserTypeOK
  <2> QED  BY <2>1, <2>2 DEF CallStep, Connect, Disconnect, DriftPosts, NotDrifting, ServiceTakes, DriftAnswered,
                 DriftFails, Sync, SyncSets, SyncMakes, SyncStarts, SyncRaises, Unsync, UnsyncTries, UnsyncJoins
<1>4. coord' \in [Coords -> {"new", "made", "run", "off"}]
  <2>1. CASE SyncMakes(r) \/ SyncStarts(r)
    BY <2>1 DEF LaserTypeOK, SyncMakes, SyncStarts
  <2>2. CASE UNCHANGED coord
    BY <2>2 DEF LaserTypeOK
  <2> QED  BY <2>1, <2>2 DEF CallStep, Connect, ConnectStarts, Disconnect, DriftPosts, NotDrifting, ServiceTakes,
                 DriftAnswered, DriftFails, Sync, SyncSets, SyncRaises, Unsync, UnsyncTries, UnsyncJoins
<1>5. drifting' \subseteq Berths
  <2>1. CASE ServiceTakes(r)
    BY <2>1 DEF Fits, LaserTypeOK, ServiceTakes
  <2>2. CASE UNCHANGED drifting
    BY <2>2 DEF LaserTypeOK
  <2> QED  BY <2>1, <2>2 DEF CallStep, Connect, ConnectStarts, Disconnect, DriftPosts, NotDrifting, DriftAnswered,
                 DriftFails, Sync, SyncSets, SyncMakes, SyncStarts, SyncRaises, Unsync, UnsyncTries, UnsyncJoins
<1> QED  BY <1>1, <1>2, <1>3, <1>4, <1>5 DEF LaserTypeOK

LEMMA CallStepListens ==
  ASSUME LaserTypeOK, NEW r \in Callers, CallStep(r), ListensToUrl, CoordinatorRuns
  PROVE  ListensToUrl' /\ CoordinatorRuns'
<1>a. \A q \in Callers : q # r => call'[q] = call[q]
  BY CallStepShape DEF Leaves, LaserTypeOK
<1>1. CASE ConnectStarts(r)
  <2>1. PICK l \in Listeners : listener' = [listener EXCEPT ![l].at = "dial"]
    BY <1>1 DEF ConnectStarts
  <2>2. listener'[l].at = "dial"
    BY <2>1 DEF LaserTypeOK, Listener
  <2>3. lm'.sync = lm.sync /\ UNCHANGED coord
    BY <1>1 DEF ConnectStarts, LaserTypeOK, Manager
  <2>4. ~At(r, "sync", "make") /\ ~At(r, "sync", "begin")
    BY <1>1 DEF ConnectStarts, At
  <2> QED  BY <1>a, <2>2, <2>3, <2>4 DEF ListensToUrl, CoordinatorRuns, At
<1>2. CASE SyncSets(r) \/ SyncMakes(r) \/ SyncStarts(r) \/ SyncRaises(r)
  <2>1. CoordinatorRuns'
    <3>1. CASE SyncSets(r) \/ SyncMakes(r)
      <4>1. call'[r].op = "sync" /\ call'[r].at \in {"make", "begin"}
        BY <3>1 DEF SyncSets, SyncMakes, Moves, At, LaserTypeOK, Call
      <4> QED  BY <4>1 DEF CoordinatorRuns, At
    <3>2. CASE SyncStarts(r)
      <4>1. PICK c \in Coords : coord' = [coord EXCEPT ![c] = "run"]
        BY <3>2 DEF SyncStarts
      <4>2. coord'[c] = "run"
        BY <4>1 DEF LaserTypeOK
      <4> QED  BY <4>2 DEF CoordinatorRuns
    <3>3. CASE SyncRaises(r)
      <4>1. ~lm'.sync
        BY <3>3 DEF SyncRaises, LaserTypeOK, Manager
      <4> QED  BY <4>1 DEF CoordinatorRuns
    <3> QED  BY <1>2, <3>1, <3>2, <3>3
  <2>2. UNCHANGED listener /\ lm'.conn = lm.conn /\ lm'.url = lm.url
    BY <1>2 DEF SyncSets, SyncMakes, SyncStarts, SyncRaises, LaserTypeOK, Manager
  <2>3. ~At(r, "connect", "set")
    BY <1>2 DEF SyncSets, SyncMakes, SyncStarts, SyncRaises, At
  <2> QED  BY <1>a, <2>1, <2>2, <2>3 DEF ListensToUrl, At
<1>3. CASE ~ConnectStarts(r) /\ ~SyncSets(r) /\ ~SyncMakes(r) /\ ~SyncStarts(r) /\ ~SyncRaises(r)
  <2>1. UNCHANGED <<listener, coord>>
    BY <1>3 DEF CallStep, Connect, Disconnect, DriftPosts, NotDrifting, ServiceTakes, DriftAnswered,
                DriftFails, Sync, Unsync, UnsyncTries, UnsyncJoins
  <2>2. (lm'.conn => lm.conn) /\ lm'.url = lm.url /\ (lm'.sync => lm.sync)
    BY <1>3 DEF CallStep, Connect, Disconnect, DriftPosts, NotDrifting, ServiceTakes, DriftAnswered,
                DriftFails, Sync, Unsync, UnsyncTries, UnsyncJoins, LaserTypeOK, Manager
  <2>3. ~At(r, "connect", "set") /\ ~At(r, "sync", "make") /\ ~At(r, "sync", "begin")
    BY <1>3 DEF At, CallStep, Connect, Disconnect, DriftPosts, NotDrifting, ServiceTakes, DriftAnswered,
                DriftFails, Sync, Unsync, UnsyncTries, UnsyncJoins
  <2> QED  BY <1>a, <2>1, <2>2, <2>3 DEF ListensToUrl, CoordinatorRuns, At
<1> QED  BY <1>1, <1>2, <1>3

LEMMA ThreadsTypes ==
  ASSUME LaserTypeOK, LaserThreads
  PROVE  LaserTypeOK' /\ UNCHANGED <<lm, call>>
<1>1. ASSUME NEW c \in Coords, CoordEnds(c) PROVE LaserTypeOK' /\ UNCHANGED <<lm, call>>
  BY <1>1 DEF CoordEnds, LaserTypeOK
<1>2. ASSUME NEW l \in Listeners, ListenerDials(l) PROVE LaserTypeOK' /\ UNCHANGED <<lm, call>>
  <2>1. [at |-> "recv", berth |-> lm.url] \in Listener /\ [at |-> "off", berth |-> NoBerth] \in Listener
    BY DEF LaserTypeOK, Manager, Listener
  <2> QED  BY <1>2, <2>1 DEF ListenerDials, LaserTypeOK
<1>3. ASSUME NEW l \in Listeners, ListenerLeaves(l) PROVE LaserTypeOK' /\ UNCHANGED <<lm, call>>
  <2>1. [at |-> "dial", berth |-> NoBerth] \in Listener
    BY DEF Listener
  <2> QED  BY <1>3, <2>1 DEF ListenerLeaves, LaserTypeOK
<1> QED  BY <1>1, <1>2, <1>3 DEF LaserThreads

LEMMA ThreadsListen ==
  ASSUME LaserTypeOK, ListensToUrl, CoordinatorRuns, LaserThreads
  PROVE  ListensToUrl' /\ CoordinatorRuns'
<1>1. ASSUME NEW c \in Coords, CoordEnds(c) PROVE ListensToUrl' /\ CoordinatorRuns'
  BY <1>1 DEF CoordEnds, ListensToUrl, CoordinatorRuns, At
<1>2. ASSUME NEW l \in Listeners, ListenerDials(l) \/ ListenerLeaves(l) PROVE ListensToUrl' /\ CoordinatorRuns'
  <2>1. UNCHANGED <<lm, coord, call>>
    BY <1>2 DEF ListenerDials, ListenerLeaves
  <2>2. CoordinatorRuns'
    BY <2>1 DEF CoordinatorRuns, At
  <2>3. \A k \in Listeners : k # l => listener'[k] = listener[k]
    BY <1>2 DEF ListenerDials, ListenerLeaves, LaserTypeOK
  <2>4. lm.conn => listener'[l].at = "dial" \/ (listener'[l].at = "recv" /\ listener'[l].berth = lm.url)
    BY <1>2 DEF ListenerDials, ListenerLeaves, LaserTypeOK, Listener
  <2> QED  BY <2>1, <2>2, <2>3, <2>4 DEF ListensToUrl, At
<1> QED  BY <1>1, <1>2 DEF LaserThreads

LEMMA CallStepKeeps ==
  ASSUME RequestInv, ClientInv, NEW r \in Callers, CallStep(r), UNCHANGED operationVars
  PROVE  RequestInv' /\ ClientInv'
<1>1. Fits(req[r], call[r]) /\ LaserTypeOK
  BY DEF RequestInv, ClientInv
<1>2. LaserTypeOK' /\ lm'.berth = lm.berth
  BY <1>1, CallStepTypes
<1>3. PICK c \in Call : Leaves(r, c)
  BY <1>1, CallStepShape
<1>4. call[r].op # "none"
  BY <1>1 DEF Fits, CallStep, Connect, ConnectStarts, Disconnect, DriftPosts, NotDrifting, ServiceTakes,
                 DriftAnswered, DriftFails, Sync, SyncSets, SyncMakes, SyncStarts, SyncRaises, Unsync, UnsyncTries,
                 UnsyncJoins, At
<1>5. lm.berth \in Berths
  BY <1>4 DEF RequestInv, BerthKnown
<1>6. /\ call'[r] = c
      /\ \A k \in Callers : k # r => call'[k] = call[k]
  BY <1>1, <1>3 DEF Leaves, LaserTypeOK
<1>7. Fits(req[r], c)
  BY <1>1, <1>3, <1>4, <1>5 DEF Fits, Leaves
<1>8. RequestInv'
  BY <1>2, <1>3, <1>4, <1>5, <1>6, <1>7 DEF RequestInv, RequestTypeOK, BerthKnown, Leaves, operationVars, Fits
<1> QED  BY <1>1, <1>2, <1>8, CallStepListens DEF ClientInv

LEMMA ThreadsKeep ==
  ASSUME RequestInv, ClientInv, LaserThreads, UNCHANGED operationVars
  PROVE  RequestInv' /\ ClientInv'
<1>1. LaserTypeOK' /\ UNCHANGED <<lm, call>>
  BY ThreadsTypes DEF ClientInv
<1>2. RequestInv'
  BY <1>1 DEF RequestInv, RequestTypeOK, BerthKnown, operationVars, Fits
<1> QED  BY <1>1, <1>2, ThreadsListen DEF ClientInv

-----------------------------------------------------------------------------
(* The requests.                                                            *)

(* A step of a request that leaves the client and its threads alone and no  *)
(* call in the middle.                                                      *)
LEMMA RequestsKeep ==
  ASSUME RequestInv, ClientInv, RequestTypeOK', call' \in [Callers -> Call],
         UNCHANGED <<lm, listener, coord, drifting, use>>,
         \A k \in Callers: /\ Fits(req'[k], call'[k])
                           /\ \/ call'[k] = call[k]
                              \/ call[k].at \notin {"set", "make", "begin"} /\ (call'[k].op = "none" \/ lm.berth \in Berths)
  PROVE  RequestInv' /\ ClientInv'
<1>1. RequestInv'
  BY DEF RequestInv, BerthKnown
<1>2. LaserTypeOK' /\ CoordinatorRuns'
  BY DEF ClientInv, LaserTypeOK, CoordinatorRuns, At
<1>3. ListensToUrl'
  BY DEF ClientInv, ListensToUrl, At
<1> QED  BY <1>1, <1>2, <1>3 DEF ClientInv

LEMMA OneRequest ==
  ASSUME RequestInv, ClientInv, NEW r \in Callers, NEW q \in Request, NEW c \in Call,
         req' = [req EXCEPT ![r] = q], call' = [call EXCEPT ![r] = c], Fits(q, c),
         c = call[r] \/ (call[r].at \notin {"set", "make", "begin"} /\ (c.op = "none" \/ lm.berth \in Berths)),
         UNCHANGED <<lm, listener, coord, drifting, use, current, made, closed>>, lidarOn' \subseteq Sensors
  PROVE  RequestInv' /\ ClientInv'
<1>1. RequestTypeOK' /\ call' \in [Callers -> Call]
  BY DEF RequestInv, RequestTypeOK, ClientInv, LaserTypeOK
<1>2. \A k \in Callers: req'[k] = (IF k = r THEN q ELSE req[k]) /\ call'[k] = (IF k = r THEN c ELSE call[k])
  BY DEF RequestInv, RequestTypeOK, ClientInv, LaserTypeOK
<1> QED  BY <1>1, <1>2, RequestsKeep DEF RequestInv

LEMMA OneRequestOnly ==
  ASSUME RequestInv, ClientInv, NEW r \in Callers, NEW q \in Request, Fits(q, call[r]),
         req' = [req EXCEPT ![r] = q],
         UNCHANGED <<laserVars, use, current, made, closed>>, lidarOn' \subseteq Sensors
  PROVE  RequestInv' /\ ClientInv'
<1>1. call[r] \in Call /\ call' = [call EXCEPT ![r] = call[r]]
  BY DEF ClientInv, LaserTypeOK, laserVars
<1> QED  BY <1>1, OneRequest DEF laserVars

LEMMA NoCallType == NoCall \in Call /\ \A op \in Calls, b \in Berths \cup {NoBerth} :
                      [NoCall EXCEPT !.op = op, !.berth = b] \in Call /\ [NoCall EXCEPT !.op = op] \in Call
  BY DEF NoCall, Call, Points

LEMMA IdleType == Idle \in Request
  BY DEF Idle, Request, Parts

(* A request that arrives finds no call of its caller.                      *)
LEMMA Arrival ==
  ASSUME RequestInv, NEW r \in Callers, NEW q \in Request, Arrives(r, q)
  PROVE  /\ req' \in [Callers -> Request] /\ made' \in 0 .. MaxRequests
         /\ req'[r] = [q EXCEPT !.alone = Quiet]
         /\ \A k \in Callers : k # r => req'[k] = [req[k] EXCEPT !.alone = FALSE]
         /\ call[r].op = "none" /\ call[r].at = "enter"
         /\ \A k \in Callers : k # r => Fits(req'[k], call[k])
<1>1. req' = [k \in Callers |-> IF k = r THEN [q EXCEPT !.alone = Quiet] ELSE [req[k] EXCEPT !.alone = FALSE]]
  BY DEF Arrives
<1>2. Quiet \in BOOLEAN
  BY DEF Quiet
<1>3. \A k \in Callers : req[k] \in Request /\ [req[k] EXCEPT !.alone = FALSE] \in Request
  BY DEF RequestInv, RequestTypeOK, Request
<1>4. [q EXCEPT !.alone = Quiet] \in Request
  BY <1>2 DEF Request
<1>5. made' \in 0 .. MaxRequests
  BY OperationAssumption DEF Arrives, RequestInv, RequestTypeOK
<1>6. call[r].op = "none" /\ call[r].at = "enter"
  BY DEF RequestInv, Fits, Arrives
<1>7. ASSUME NEW k \in Callers, k # r PROVE Fits(req'[k], call[k])
  <2>1. Fits(req[k], call[k]) /\ req[k] \in Request
    BY <1>3 DEF RequestInv
  <2>2. req'[k] = [req[k] EXCEPT !.alone = FALSE]
    BY <1>1, <1>7
  <2> QED  BY <2>1, <2>2 DEF Fits, Request
<1> QED  BY <1>1, <1>3, <1>4, <1>5, <1>6, <1>7

LEMMA StartKeeps ==
  ASSUME RequestInv, ClientInv, NEW r \in Callers, NEW b \in Berths, NEW id \in BerthingIds,
         NEW type \in Types, NEW uses \in Uses, Start(r, b, id, type, uses)
  PROVE  RequestInv' /\ ClientInv'
<1> DEFINE auto == type \in {"BERTH", "UNMOOR"}
           q == [Idle EXCEPT !.kind = "start", !.berth = b, !.auto = auto, !.at = "query"]
<1>a. auto \in BOOLEAN
  OBVIOUS
<1>b. ASSUME NEW l \in BOOLEAN
      PROVE  [Idle EXCEPT !.kind = "start", !.berth = b, !.auto = l, !.at = "query"] \in Request
  BY IdleType DEF Start, Request
<1>1. q \in Request
  BY <1>a, <1>b
<1>2. Arrives(r, q)
  BY DEF Start
<1> HIDE DEF q
<1>3. /\ req' \in [Callers -> Request] /\ made' \in 0 .. MaxRequests
      /\ req'[r] = [q EXCEPT !.alone = Quiet]
      /\ call[r].op = "none" /\ call[r].at = "enter"
      /\ \A k \in Callers : k # r => Fits(req'[k], call[k])
  BY <1>1, <1>2, Arrival
<1>4. Fits(req'[r], call[r])
  BY <1>3 DEF Fits, q, Idle
<1>5. /\ lm' = [lm EXCEPT !.berth = IF uses.laser THEN b ELSE @]
      /\ use' = uses /\ current' = id
      /\ UNCHANGED <<listener, coord, drifting, call, lidarOn, closed>>
  BY DEF Start
<1>6. RequestTypeOK'
  BY <1>3, <1>5, OperationAssumption DEF RequestInv, RequestTypeOK
<1>7. /\ lm' \in Manager /\ lm'.conn = lm.conn /\ lm'.url = lm.url /\ lm'.sync = lm.sync
      /\ lm'.berth = IF uses.laser THEN b ELSE lm.berth
  BY <1>5 DEF ClientInv, LaserTypeOK, Manager
<1>8. BerthKnown'
  BY <1>5, <1>7 DEF BerthKnown, RequestInv
<1>9. RequestInv'
  BY <1>3, <1>4, <1>5, <1>6, <1>8 DEF RequestInv
<1> QED  BY <1>5, <1>7, <1>9 DEF ClientInv, LaserTypeOK, ListensToUrl, CoordinatorRuns, At

LEMMA StopKeeps ==
  ASSUME RequestInv, ClientInv, NEW r \in Callers, NEW b \in Berths, Stop(r, b)
  PROVE  RequestInv' /\ ClientInv'
<1> DEFINE last == use = [laser |-> TRUE, lidar |-> TRUE] /\ lm.berth = b
           q == [Idle EXCEPT !.kind = "stop", !.berth = b, !.at = "query", !.configured = last]
<1>a. last \in BOOLEAN
  OBVIOUS
<1>b. ASSUME NEW l \in BOOLEAN
      PROVE  [Idle EXCEPT !.kind = "stop", !.berth = b, !.at = "query", !.configured = l] \in Request
  BY IdleType DEF Stop, Request
<1>1. q \in Request
  BY <1>a, <1>b
<1>2. Arrives(r, q)
  BY DEF Stop
<1> HIDE DEF q
<1>3. /\ req' \in [Callers -> Request] /\ made' \in 0 .. MaxRequests
      /\ req'[r] = [q EXCEPT !.alone = Quiet]
      /\ call[r].op = "none" /\ call[r].at = "enter"
      /\ \A k \in Callers : k # r => Fits(req'[k], call[k])
  BY <1>1, <1>2, Arrival
<1>4. Fits(req'[r], call[r])
  BY <1>3 DEF Fits, q, Idle
<1>5. /\ current' = IF current = b THEN 0 ELSE current
      /\ UNCHANGED <<lm, listener, coord, drifting, call, use, lidarOn, closed>>
  BY DEF Stop, laserVars
<1>6. RequestTypeOK' /\ call' \in [Callers -> Call]
  BY <1>3, <1>5 DEF RequestInv, RequestTypeOK, ClientInv, LaserTypeOK
<1> QED  BY <1>3, <1>4, <1>5, <1>6, RequestsKeep

LEMMA ShutdownKeeps ==
  ASSUME RequestInv, ClientInv, NEW r \in Callers, Shutdown(r)
  PROVE  RequestInv' /\ ClientInv'
<1> DEFINE q == [Idle EXCEPT !.kind = "shutdown", !.at = "work", !.laser = IF use.laser THEN "busy" ELSE "none"]
           c == IF use.laser THEN [NoCall EXCEPT !.op = "unsync"] ELSE call[r]
<1>1. q \in Request
  BY IdleType DEF Shutdown, Request, Parts
<1>2. Arrives(r, q) /\ use.laser \in BOOLEAN
  BY DEF Shutdown, RequestInv, RequestTypeOK
<1> HIDE DEF q
<1>3. /\ req' \in [Callers -> Request] /\ made' \in 0 .. MaxRequests
      /\ req'[r] = [q EXCEPT !.alone = Quiet]
      /\ call[r].op = "none" /\ call[r].at = "enter"
      /\ \A k \in Callers : k # r => Fits(req'[k], call[k])
  BY <1>1, <1>2, Arrival
<1>4. c \in Call /\ call' \in [Callers -> Call]
      /\ \A k \in Callers : call'[k] = IF k = r THEN c ELSE call[k]
  BY <1>2, NoCallType DEF Calls, Shutdown, ClientInv, LaserTypeOK
<1>5. Fits(req'[r], c)
  BY <1>2, <1>3 DEF Fits, q, Idle, NoCall, Stops
<1>6. c = call[r] \/ lm.berth \in Berths
  BY <1>2 DEF RequestInv, BerthKnown
<1> HIDE DEF c
<1>7. UNCHANGED <<lm, listener, coord, drifting, use, current>> /\ closed' = TRUE /\ lidarOn' = {}
  BY DEF Shutdown
<1>8. RequestTypeOK'
  BY <1>3, <1>7 DEF RequestInv, RequestTypeOK
<1> QED  BY <1>3, <1>4, <1>5, <1>6, <1>7, <1>8, RequestsKeep

-----------------------------------------------------------------------------
(* The parts of a request.                                                  *)

LEMMA QueryKeeps ==
  ASSUME RequestInv, ClientInv, NEW r \in Callers, QueryFails(r) \/ Queried(r)
  PROVE  RequestInv' /\ ClientInv'
<1>1. Fits(req[r], call[r]) /\ req[r] \in Request
  BY DEF RequestInv, RequestTypeOK
<1>2. CASE QueryFails(r)
  <2> DEFINE q == [req[r] EXCEPT !.at = "answer"]
  <2>1. q \in Request /\ Fits(q, call[r])
    BY <1>1, <1>2 DEF Request, Fits, QueryFails
  <2>2. req' = [req EXCEPT ![r] = q]
    BY <1>2 DEF QueryFails
  <2>3. UNCHANGED <<laserVars, use, current, made, closed>> /\ lidarOn' \subseteq Sensors
    BY <1>2 DEF QueryFails, RequestInv, RequestTypeOK
  <2> HIDE DEF q
  <2> QED  BY <2>1, <2>2, <2>3, OneRequestOnly
<1>3. CASE Queried(r)
  <2> DEFINE laser == IF LaserPart(r) THEN "busy" ELSE "none"
             lidar == IF LidarPart(r) THEN "busy" ELSE "none"
             q == [req[r] EXCEPT !.at = "work", !.laser = laser, !.lidar = lidar]
             op == FirstCall(req[r].kind)
             c == IF LaserPart(r) THEN [NoCall EXCEPT !.op = op, !.berth = req[r].berth] ELSE call[r]
  <2>1. req[r].at = "query" /\ req[r].kind \in {"start", "stop"} /\ req[r].berth \in Berths
    BY <1>1, <1>3 DEF Queried, Fits
  <2>2. op = (IF req[r].kind = "start" THEN "connect" ELSE "unsync") /\ op \in Calls
    BY <2>1 DEF FirstCall, Calls
  <2>3. laser \in {"busy", "none"} /\ lidar \in {"busy", "none"}
    OBVIOUS
  <2>4. q \in Request
    <3> HIDE DEF laser, lidar
    <3> QED  BY <1>1, <2>3 DEF Request, Parts
  <2>5. c \in Call
    BY <2>1, <2>2, NoCallType DEF ClientInv, LaserTypeOK
  <2>6. req' = [req EXCEPT ![r] = q]
    BY <1>3 DEF Queried
  <2>7. call' = [call EXCEPT ![r] = c]
    <3>1. CASE LaserPart(r)
      BY <1>3, <3>1 DEF Queried
    <3>2. CASE ~LaserPart(r)
      BY <1>3, <3>2 DEF Queried, ClientInv, LaserTypeOK
    <3> QED  BY <3>1, <3>2
  <2>8. call[r].op = "none" /\ call[r].at = "enter"
    BY <1>1, <2>1 DEF Fits
  <2>9. LaserPart(r) => lm.berth \in Berths
    BY DEF LaserPart, RequestInv, BerthKnown
  <2>10. Fits(q, c)
    <3>1. q.at = "work" /\ q.laser = laser /\ q.lidar = lidar /\ q.kind = req[r].kind /\ q.berth = req[r].berth
      BY <1>1, <2>3 DEF Request
    <3>2. CASE LaserPart(r)
      <4>1. c.op = op /\ c.at = "enter" /\ laser = "busy"
        BY <3>2 DEF NoCall
      <4> QED  BY <2>1, <2>2, <2>3, <3>1, <4>1 DEF Fits, Starts, Stops
    <3>3. CASE ~LaserPart(r)
      <4>1. c = call[r] /\ laser = "none"
        BY <3>3
      <4> QED  BY <2>1, <2>3, <2>8, <3>1, <4>1 DEF Fits
    <3> QED  BY <3>2, <3>3
  <2>11. UNCHANGED <<lm, listener, coord, drifting, use, current, made, closed>> /\ lidarOn' \subseteq Sensors
    BY <1>3 DEF Queried, RequestInv, RequestTypeOK
  <2> HIDE DEF q, c
  <2> QED  BY <2>4, <2>5, <2>6, <2>7, <2>8, <2>9, <2>10, <2>11, OneRequest DEF c
<1> QED  BY <1>2, <1>3

LEMMA AfterType ==
  /\ After("connect") = "drift" /\ After("drift") = "sync"
  /\ After("unsync") = "undrift" /\ After("undrift") = "disconnect"
  BY DEF After

(* A call has returned: the next one is made, or the laser part ends.       *)
LEMMA ReturnedKeeps ==
  ASSUME RequestInv, ClientInv, NEW r \in Callers, LaserReturns(r) \/ ShutdownGoesOn(r)
  PROVE  RequestInv' /\ ClientInv'
<1>1. Fits(req[r], call[r]) /\ req[r] \in Request /\ call[r] \in Call
  BY DEF RequestInv, RequestTypeOK, ClientInv, LaserTypeOK
<1>2. req[r].laser = "busy" /\ call[r].at = "returned" /\ req[r].at = "work"
  BY <1>1 DEF LaserReturns, ShutdownGoesOn, Fits
<1>3. call[r].op # "none" /\ lm.berth \in Berths
  BY <1>1, <1>2 DEF Fits, RequestInv, BerthKnown
<1>4. UNCHANGED <<lm, listener, coord, drifting, use, current, made, closed>> /\ lidarOn' \subseteq Sensors
  BY DEF LaserReturns, ShutdownGoesOn, RequestInv, RequestTypeOK
<1>5. ASSUME NEW c \in Call, call' = [call EXCEPT ![r] = c], UNCHANGED req,
             c.at = "enter",
             \/ req[r].kind = "start" /\ c.op \in Starts
             \/ req[r].kind \in {"stop", "shutdown"} /\ c.op \in Stops
      PROVE  RequestInv' /\ ClientInv'
  <2>1. req' = [req EXCEPT ![r] = req[r]]
    BY <1>5 DEF RequestInv, RequestTypeOK
  <2>2. Fits(req[r], c)
    BY <1>1, <1>2, <1>5 DEF Fits, Starts, Stops
  <2> QED  BY <1>1, <1>2, <1>3, <1>4, <1>5, <2>1, <2>2, OneRequest
<1>6. ASSUME NEW p \in {"yes", "no"}, req' = [req EXCEPT ![r].laser = p], call' = [call EXCEPT ![r] = NoCall]
      PROVE  RequestInv' /\ ClientInv'
  <2> DEFINE q == [req[r] EXCEPT !.laser = p]
  <2>1. q \in Request
    BY <1>1 DEF Request, Parts
  <2>2. Fits(q, NoCall)
    BY <1>1, <1>2 DEF Fits, NoCall, Request
  <2>3. req' = [req EXCEPT ![r] = q] /\ NoCall.op = "none"
    BY <1>6 DEF NoCall
  <2> HIDE DEF q
  <2> QED  BY <1>2, <1>4, <1>6, <2>1, <2>2, <2>3, NoCallType, OneRequest
<1>7. CASE LaserReturns(r)
  <2>1. CASE Goes(call[r].op, call[r].ok)
    <3> DEFINE c == [NoCall EXCEPT !.op = After(call[r].op), !.berth = req[r].berth]
    <3>1. call' = [call EXCEPT ![r] = c] /\ UNCHANGED req
      BY <1>7, <2>1 DEF LaserReturns
    <3>2. \/ req[r].kind = "start" /\ After(call[r].op) \in Starts
          \/ req[r].kind = "stop" /\ After(call[r].op) \in Stops
      BY <1>1, <1>2, <1>7, <2>1, AfterType DEF LaserReturns, Goes, Fits, Starts, Stops
    <3>3. c \in Call /\ c.at = "enter" /\ c.op = After(call[r].op)
      BY <1>1, <3>2, NoCallType DEF Request, NoCall, Starts, Stops, Calls
    <3> HIDE DEF c
    <3> QED  BY <1>5, <3>1, <3>2, <3>3
  <2>2. CASE ~Goes(call[r].op, call[r].ok)
    BY <1>6, <1>7, <2>2 DEF LaserReturns
  <2> QED  BY <2>1, <2>2
<1>8. CASE ShutdownGoesOn(r)
  <2>1. CASE call[r].op = "disconnect"
    BY <1>6, <1>8, <2>1 DEF ShutdownGoesOn
  <2>2. CASE call[r].op # "disconnect"
    <3> DEFINE c == [NoCall EXCEPT !.op = After(call[r].op)]
    <3>1. call' = [call EXCEPT ![r] = c] /\ UNCHANGED req
      BY <1>8, <2>2 DEF ShutdownGoesOn
    <3>2. req[r].kind = "shutdown" /\ After(call[r].op) \in Stops
      BY <1>1, <1>2, <1>8, <2>2, AfterType DEF ShutdownGoesOn, Fits, Stops
    <3>3. c \in Call /\ c.at = "enter" /\ c.op = After(call[r].op)
      BY <3>2, NoCallType DEF NoCall, Stops, Calls
    <3> HIDE DEF c
    <3> QED  BY <1>5, <3>1, <3>2, <3>3
  <2> QED  BY <2>1, <2>2
<1> QED  BY <1>7, <1>8

LEMMA LidarKeeps ==
  ASSUME RequestInv, ClientInv, NEW r \in Callers, LidarEnabled(r) \/ LidarDisabled(r) \/ LidarRaises(r)
  PROVE  RequestInv' /\ ClientInv'
<1>1. Fits(req[r], call[r]) /\ req[r] \in Request
  BY DEF RequestInv, RequestTypeOK
<1>2. UNCHANGED <<laserVars, use, current, made, closed>> /\ req[r].lidar = "busy"
  BY DEF LidarEnabled, LidarDisabled, LidarRaises
<1>3. req[r].at = "work" /\ SensorsOf[req[r].berth] \subseteq Sensors
  BY <1>1, <1>2, OperationAssumption DEF Fits
<1>4. lidarOn' \subseteq Sensors
  BY <1>3 DEF LidarEnabled, LidarDisabled, LidarRaises, RequestInv, RequestTypeOK
<1>5. ASSUME NEW p \in {"good", "bad", "exception"}, NEW got \in SUBSET Sensors,
             req' = [req EXCEPT ![r] = [req[r] EXCEPT !.lidar = p, !.got = got]]
      PROVE  RequestInv' /\ ClientInv'
  <2> DEFINE q == [req[r] EXCEPT !.lidar = p, !.got = got]
  <2>1. q \in Request
    BY <1>1 DEF Request, Parts
  <2>2. Fits(q, call[r])
    BY <1>1, <1>3 DEF Fits, Request
  <2> HIDE DEF q
  <2> QED  BY <1>2, <1>4, <1>5, <2>1, <2>2, OneRequestOnly DEF q
<1>6. ASSUME NEW p \in {"good", "bad", "exception"}, req' = [req EXCEPT ![r].lidar = p]
      PROVE  RequestInv' /\ ClientInv'
  <2>1. [req[r] EXCEPT !.lidar = p] = [req[r] EXCEPT !.lidar = p, !.got = req[r].got] /\ req[r].got \in SUBSET Sensors
    BY <1>1 DEF Request
  <2> QED  BY <1>5, <1>6, <2>1
<1>7. CASE LidarEnabled(r)
  <2>1. PICK on \in SUBSET SensorsOf[req[r].berth] :
          req' = [req EXCEPT ![r].lidar = IF on = {} THEN "bad" ELSE "good", ![r].got = on]
    BY <1>7 DEF LidarEnabled
  <2> DEFINE p == IF on = {} THEN "bad" ELSE "good"
  <2>2. req' = [req EXCEPT ![r] = [req[r] EXCEPT !.lidar = p, !.got = on]] /\ p \in {"good", "bad", "exception"}
    BY <2>1
  <2> HIDE DEF p
  <2> QED  BY <1>3, <1>5, <2>2
<1>8. CASE LidarDisabled(r) \/ LidarRaises(r)
  BY <1>6, <1>8 DEF LidarDisabled, LidarRaises
<1> QED  BY <1>7, <1>8

(* A request with both parts at rest goes on to another stage of its end.   *)
LEMMA EndKeeps ==
  ASSUME RequestInv, ClientInv, NEW r \in Callers, NEW at \in {"stopping", "answer"}, NEW ok \in BOOLEAN,
         req[r].laser # "busy", req[r].lidar # "busy",
         req' = [req EXCEPT ![r] = [req[r] EXCEPT !.at = at, !.success = ok]],
         UNCHANGED <<laserVars, use, current, lidarOn, made, closed>>
  PROVE  RequestInv' /\ ClientInv'
<1>1. Fits(req[r], call[r]) /\ req[r] \in Request /\ lidarOn' \subseteq Sensors
  BY DEF RequestInv, RequestTypeOK
<1> DEFINE q == [req[r] EXCEPT !.at = at, !.success = ok]
<1>2. q \in Request
  BY <1>1 DEF Request
<1>3. Fits(q, call[r])
  BY <1>1 DEF Fits, Request
<1> HIDE DEF q
<1> QED  BY <1>1, <1>2, <1>3, OneRequestOnly DEF q

LEMMA GatheredKeeps ==
  ASSUME RequestInv, ClientInv, StreamInv, NEW r \in Callers, Gathered(r) \/ ShutdownStreams(r)
  PROVE  RequestInv' /\ ClientInv' /\ StreamInv'
<1>1. req[r].laser # "busy" /\ req[r].lidar # "busy" /\ req[r].got \in SUBSET Sensors
  BY DEF Gathered, ShutdownStreams, RequestInv, RequestTypeOK, Request, Fits
<1>2. UNCHANGED <<laserVars, use, current, lidarOn, made, closed>>
  BY DEF Gathered, ShutdownStreams
<1>3. ASSUME NEW ok \in BOOLEAN, Answer(r, ok) PROVE RequestInv' /\ ClientInv'
  <2>1. req' = [req EXCEPT ![r] = [req[r] EXCEPT !.at = "answer", !.success = ok]]
    BY <1>3 DEF Answer
  <2> QED  BY <1>1, <1>2, <2>1, EndKeeps
<1>4. ASSUME NEW ok \in BOOLEAN, StopsStreamer(r, ok) PROVE RequestInv' /\ ClientInv' /\ StreamInv'
  <2> DEFINE at == IF Streaming THEN "stopping" ELSE "answer"
  <2>1. req' = [req EXCEPT ![r] = [req[r] EXCEPT !.at = at, !.success = ok]] /\ at \in {"stopping", "answer"}
    BY <1>4 DEF StopsStreamer
  <2>2. StreamInv'
    BY <1>4, StopStreamingKeeps DEF StopsStreamer
  <2> HIDE DEF at
  <2> QED  BY <1>1, <1>2, <2>1, <2>2, EndKeeps
<1>5. UNCHANGED streamVars => StreamInv'
  BY DEF streamVars, StreamInv, StreamTypeOK, OneStream, Live
<1>6. CASE StartGathered(r)
  <2> DEFINE ids == IF req[r].auto /\ LidarPart(r) /\ ~Misread(r) THEN req[r].got ELSE {}
             ok == ~Misread(r) /\ LaserSuccess(r) /\ LidarSuccess(r)
  <2>1. StartStreaming(ids) /\ Answer(r, ok) /\ ids \in SUBSET Sensors /\ ok \in BOOLEAN
    BY <1>1, <1>6 DEF StartGathered
  <2> HIDE DEF ids, ok
  <2> QED  BY <1>3, <2>1, StartStreamingKeeps
<1>7. CASE StopGathered(r)
  <2> DEFINE ok == LaserSuccess(r) /\ LidarSuccess(r)
  <2>1. ok \in BOOLEAN /\ FALSE \in BOOLEAN
    BY DEF LaserSuccess, LidarSuccess
  <2>2. \/ Answer(r, FALSE) /\ UNCHANGED streamVars
        \/ StopsStreamer(r, ok)
    BY <1>7 DEF StopGathered
  <2> HIDE DEF ok
  <2> QED  BY <1>3, <1>4, <1>5, <2>1, <2>2
<1>8. CASE ShutdownStreams(r)
  <2>1. TRUE \in BOOLEAN
    OBVIOUS
  <2> QED  BY <1>3, <1>4, <1>5, <1>8, <2>1 DEF ShutdownStreams
<1> QED  BY <1>6, <1>7, <1>8 DEF Gathered

LEMMA StreamerStoppedKeeps ==
  ASSUME RequestInv, ClientInv, StreamInv, NEW r \in Callers, StreamerStopped(r)
  PROVE  RequestInv' /\ ClientInv' /\ StreamInv'
<1>1. Fits(req[r], call[r]) /\ req[r] \in Request
  BY DEF RequestInv, RequestTypeOK
<1>2. req[r].laser # "busy" /\ req[r].lidar # "busy" /\ req[r].success \in BOOLEAN
  BY <1>1 DEF StreamerStopped, Fits, Request
<1>3. [req[r] EXCEPT !.at = "answer"] = [req[r] EXCEPT !.at = "answer", !.success = req[r].success]
  BY <1>1 DEF Request
<1>4. req' = [req EXCEPT ![r] = [req[r] EXCEPT !.at = "answer", !.success = req[r].success]]
  BY <1>3 DEF StreamerStopped
<1>5. UNCHANGED <<laserVars, use, current, lidarOn, made, closed>> /\ StopStreamingEnds(r)
  BY DEF StreamerStopped
<1> QED  BY <1>2, <1>4, <1>5, EndKeeps, StopStreamingEndsKeeps

LEMMA AnswersKeeps ==
  ASSUME RequestInv, ClientInv, NEW r \in Callers, Answers(r)
  PROVE  RequestInv' /\ ClientInv'
<1>1. Fits(req[r], call[r]) /\ req[r] \in Request /\ lidarOn' \subseteq Sensors
  BY DEF RequestInv, RequestTypeOK, Answers
<1>2. Fits(Idle, call[r])
  BY <1>1 DEF Answers, Fits, Idle
<1>3. req' = [req EXCEPT ![r] = Idle] /\ UNCHANGED <<laserVars, use, current, made, closed>>
  BY DEF Answers
<1> QED  BY <1>1, <1>2, <1>3, IdleType, OneRequestOnly

-----------------------------------------------------------------------------
(* The invariant and its consequences.                                      *)

LEMMA OperationInit == Init => IInv
<1> SUFFICES ASSUME Init PROVE IInv
  OBVIOUS
<1>1. NoCall \in Call /\ Idle \in Request
  BY NoCallType, IdleType
<1>2. LaserTypeOK
  BY <1>1 DEF Init, LaserInit, LaserTypeOK, Manager, Listener
<1>3. ListensToUrl /\ CoordinatorRuns
  BY DEF Init, LaserInit, ListensToUrl, CoordinatorRuns
<1>4. StreamTypeOK /\ OneStream
  BY DEF Init, StreamInit, StreamTypeOK, StreamTask, OneStream, Live
<1>5. RequestTypeOK
  <2>1. 0 \in 0 .. MaxRequests
    BY OperationAssumption
  <2> QED  BY <1>1, <2>1 DEF Init, RequestTypeOK
<1>6. BerthKnown /\ \A r \in Callers: Fits(req[r], call[r])
  BY DEF Init, LaserInit, BerthKnown, Fits, Idle, NoCall
<1> QED  BY <1>2, <1>3, <1>4, <1>5, <1>6 DEF IInv, RequestInv, ClientInv, StreamInv

LEMMA OperationStep == IInv /\ [Next]_vars => IInv'
<1> SUFFICES ASSUME IInv, [Next]_vars PROVE IInv'
  OBVIOUS
<1> RequestInv /\ ClientInv /\ StreamInv
  BY DEF IInv
<1>1. UNCHANGED streamVars => StreamInv'
  BY DEF streamVars, StreamInv, StreamTypeOK, OneStream, Live
<1>2. ASSUME NEW r \in Callers, Begin(r) PROVE IInv'
  <2>1. UNCHANGED streamVars
    BY <1>2 DEF Begin, Start, Stop, Shutdown
  <2> QED  BY <1>1, <1>2, <2>1, StartKeeps, StopKeeps, ShutdownKeeps DEF Begin, IInv
<1>3. ASSUME NEW r \in Callers, Continue(r) PROVE IInv'
  <2>1. CASE ShutdownStreams(r)
    BY <2>1, GatheredKeeps DEF IInv
  <2>2. CASE QueryFails(r) \/ Queried(r) \/ LaserReturns(r) \/ ShutdownGoesOn(r)
    <3>1. UNCHANGED streamVars
      BY <2>2 DEF QueryFails, Queried, LaserReturns, ShutdownGoesOn
    <3> QED  BY <1>1, <2>2, <3>1, QueryKeeps, ReturnedKeeps DEF IInv
  <2>3. CASE LidarEnabled(r) \/ LidarDisabled(r) \/ LidarRaises(r) \/ Answers(r)
    <3>1. UNCHANGED streamVars
      BY <2>3 DEF LidarEnabled, LidarDisabled, LidarRaises, Answers
    <3> QED  BY <1>1, <2>3, <3>1, LidarKeeps, AnswersKeeps DEF IInv
  <2> QED  BY <1>3, <2>1, <2>2, <2>3 DEF Continue
<1>4. ASSUME NEW r \in Callers, Gathered(r) \/ StreamerStopped(r) PROVE IInv'
  BY <1>4, GatheredKeeps, StreamerStoppedKeeps DEF IInv
<1>5. ASSUME NEW r \in Callers, CallStep(r), UNCHANGED <<streamVars, operationVars>> PROVE IInv'
  BY <1>1, <1>5, CallStepKeeps DEF IInv
<1>6. CASE Background
  <2>1. CASE LaserThreads /\ UNCHANGED <<streamVars, operationVars>>
    BY <1>1, <2>1, ThreadsKeep DEF IInv
  <2>2. CASE StreamTasks /\ UNCHANGED <<laserVars, operationVars>>
    <3>1. RequestInv' /\ ClientInv'
      BY <2>2 DEF laserVars, operationVars, RequestInv, RequestTypeOK, BerthKnown, ClientInv, LaserTypeOK,
                  ListensToUrl, CoordinatorRuns, At
    <3> QED  BY <2>2, <3>1, StreamTasksKeep DEF IInv
  <2> QED  BY <1>6, <2>1, <2>2 DEF Background
<1>7. CASE UNCHANGED vars
  <2>1. RequestInv' /\ ClientInv'
    BY <1>7 DEF vars, laserVars, operationVars, RequestInv, RequestTypeOK, BerthKnown, ClientInv, LaserTypeOK,
                ListensToUrl, CoordinatorRuns, At
  <2> QED  BY <1>1, <1>7, <2>1 DEF IInv, vars
<1> QED  BY <1>2, <1>3, <1>4, <1>5, <1>6, <1>7 DEF Next

(* Every attribute of the laser client, the streamer and the device manager *)
(* keeps its type, in particular the berth that a call posts for is one.    *)
THEOREM OperationTypeCorrect == Spec => []TypeOK
<1>1. IInv => TypeOK
  BY DEF IInv, RequestInv, ClientInv, StreamInv, RequestTypeOK, TypeOK
<1> QED  BY <1>1, OperationInit, OperationStep, PTL DEF Spec

(* However connects, disconnects, starts and stops of the coordinator race  *)
(* without a lock, a flag of the laser client that is set has a thread that *)
(* does what it says.                                                       *)
THEOREM FlagsStayBacked == Spec => []FlagsBacked
<1>1. IInv => FlagsBacked
  BY DEF IInv, ClientInv, FlagsBacked
<1> QED  BY <1>1, OperationInit, OperationStep, PTL DEF Spec

(* As long as no stop forgets a stream, a consumer that nobody told to stop *)
(* belongs to the one stream that the service knows and that still runs.    *)
THEOREM ConsumersStayOwned == Spec => []ConsumersOwned
<1>1. IInv => ConsumersOwned
  BY DEF IInv, StreamInv, OneStream, ConsumersOwned, Live
<1> QED  BY <1>1, OperationInit, OperationStep, PTL DEF Spec

-----------------------------------------------------------------------------
(* What an answer of success stands on: the rest of the inductive invariant. *)

(* A request that no other one overlapped is the only one.                  *)
Undisturbed ==
  \A r \in Callers:
    req[r].alone => req[r].at # "idle" /\ \A k \in Callers \ {r}: req[k].at = "idle"

(* The stages of a request, whatever runs beside it.                        *)
Staged(q) ==
  /\ q.at \in {"query", "work"} => ~q.success
  /\ q.at = "query" => q.laser = "none" /\ q.lidar = "none"
  /\ q.laser \in {"none", "busy", "yes", "no"} /\ q.lidar \in {"none", "busy", "good", "bad", "exception"}
  /\ q.at = "stopping" => q.kind # "start"

Stages ==
  \A r \in Callers: Staged(req[r]) /\ (stopping[r] # 0 => req[r].at = "stopping")

(* The service's stream ends only while a stop waits for it; an event left  *)
(* set by a stop that is to resume finds a stream that has not begun.       *)
EndedBySomeStop ==
  /\ \A s \in Streams: stream[s].at = "new" => ~stream[s].cancelled
  /\ registered # 0 => stream[registered].at # "new"
  /\ shutdown_event =>
       /\ registered # 0
       /\ \E r \in Callers: \/ stopping[r] = registered
                            \/ Stopped(r) /\ stream[registered].at = "ready"
  /\ Streaming /\ (stream[registered].cancelled \/ stream[registered].at = "ending") =>
       \E r \in Callers: stopping[r] = registered

(* Undisturbed, the parts of a request are those that its flags ask for.    *)
PartsAsked(r) ==
  /\ req[r].laser # "none" <=> LaserPart(r)
  /\ req[r].lidar # "none" <=> LidarPart(r)

(* How far the laser part of a start or a stop for berth b has come.        *)
LaserGained(b) == lm.conn /\ lm.sync /\ lm.drift /\ b \in drifting
LaserGone == ~lm.conn /\ ~lm.sync /\ ~lm.drift

Gains(b, c) ==
  /\ c.at \in {"posted", "taken"} => c.op = "drift"
  /\ c.op \in {"drift", "sync"} => lm.conn
  /\ c.op = "sync" /\ c.at \in {"make", "begin"} => lm.sync
  /\ c.op = "sync" => lm.drift /\ b \in drifting
  /\ c.op = "drift" /\ c.at \in {"posted", "taken"} => c.berth = b
  /\ c.op = "drift" /\ c.at = "taken" => b \in drifting
  /\ c.at = "returned" /\ c.ok =>
       /\ c.op = "connect" => lm.conn
       /\ c.op = "drift" => lm.drift /\ b \in drifting
       /\ c.op = "sync" => lm.sync

Loses(c) ==
  /\ c.at \in {"posted", "taken"} => c.op = "undrift"
  /\ c.op \in {"undrift", "disconnect"} => ~lm.sync
  /\ c.op = "disconnect" => ~lm.drift
  /\ c.op = "unsync" /\ c.at \in {"try", "join", "returned"} => ~lm.sync
  /\ c.op = "undrift" /\ c.at = "returned" /\ c.ok => ~lm.drift
  /\ c.op = "disconnect" /\ c.at = "returned" => ~lm.conn

Settled(q) == q.laser \in {"none", "yes"} /\ q.lidar \in {"none", "good"}

StartGoesWell(r) ==
  LET q == req[r] IN
    /\ q.at \in {"query", "work"} /\ use.laser => lm.berth = q.berth
    /\ q.laser = "busy" => Gains(q.berth, call[r])
    /\ q.laser = "yes" => LaserGained(q.berth)
    /\ q.lidar = "good" => SensorsOf[q.berth] \subseteq lidarOn /\ q.got # {}
    /\ q.success => Settled(q) /\ (q.lidar # "none" /\ q.auto => Streaming)

StopGoesWell(r) ==
  LET q == req[r] IN
    /\ q.configured => use = [laser |-> TRUE, lidar |-> TRUE]
    /\ q.laser = "busy" => Loses(call[r])
    /\ q.laser = "yes" => LaserGone
    /\ q.lidar = "good" => lidarOn = {}
    /\ q.success => Settled(q)
    /\ q.at = "answer" /\ q.success /\ lost = {} => \A s \in Streams: ~Live(s)

GoesWell(r) ==
  /\ req[r].kind \in {"start", "stop"} /\ (req[r].at = "work" \/ req[r].success) => PartsAsked(r)
  /\ req[r].kind = "start" => StartGoesWell(r)
  /\ req[r].kind = "stop" => StopGoesWell(r)

AloneInv == Undisturbed /\ Stages /\ EndedBySomeStop /\ \A r \in Callers: req[r].alone => GoesWell(r)

-----------------------------------------------------------------------------
(* The streamer keeps its part.                                             *)

(* A stream that starts is new: nothing has cancelled it.                   *)
LEMMA StartStreamingEnded ==
  ASSUME StreamInv, EndedBySomeStop, NEW ids \in SUBSET Sensors, StartStreaming(ids)
  PROVE  /\ EndedBySomeStop' /\ UNCHANGED <<stopping, lost>>
         /\ ids # {} => Streaming'
<1>1. CASE Streaming \/ ids = {}
  <2>1. UNCHANGED <<stream, registered, shutdown_event, stopping, lost>>
    BY <1>1 DEF StartStreaming
  <2> QED  BY <1>1, <2>1 DEF EndedBySomeStop, Streaming, Stopped, Live
<1>2. CASE ~(Streaming \/ ids = {})
  <2>1. PICK s \in Streams : /\ NextStream(s)
                             /\ stream' = [stream EXCEPT ![s].at = "ready", ![s].sensors = ids]
                             /\ registered' = s /\ db_cons' = s
    BY <1>2 DEF StartStreaming
  <2>2. UNCHANGED <<consumer, lost, shutdown_event, stopping>>
    BY DEF StartStreaming
  <2>3. s # 0 /\ stream[s].at = "new" /\ stream[s] \in StreamTask
    BY <2>1, DbStreamerAssumption DEF NextStream, StreamInv, StreamTypeOK
  <2>4. stream' = [stream EXCEPT ![s] = [stream[s] EXCEPT !.at = "ready", !.sensors = ids]]
    BY <2>1
  <2>5. /\ \A k \in Streams : k # s => stream'[k] = stream[k]
        /\ stream'[s].at = "ready" /\ stream'[s].cancelled = stream[s].cancelled
    BY <2>3, <2>4 DEF StreamInv, StreamTypeOK, StreamTask
  <2>6. ~stream'[s].cancelled
    BY <2>3, <2>5 DEF EndedBySomeStop
  <2>7. ASSUME shutdown_event PROVE \E r \in Callers : Stopped(r)' /\ stream'[registered'].at = "ready"
    <3>1. registered \in Streams /\ registered # s
      BY <2>3, <2>7 DEF EndedBySomeStop, StreamInv, StreamTypeOK
    <3>2. stream[registered].at \in {"new", "ready", "running", "ending", "done"}
      BY <3>1 DEF StreamInv, StreamTypeOK, StreamTask
    <3>3. stream[registered].at = "done"
      BY <1>2, <3>1, <3>2, <2>7 DEF Streaming, Live, EndedBySomeStop
    <3>4. PICK r \in Callers : Stopped(r)
      BY <2>7, <3>1, <3>3 DEF EndedBySomeStop, Stopped
    <3>5. stopping[r] \in Streams /\ stopping[r] # s
      BY <2>3, <3>4, OperationAssumption DEF Stopped, StreamInv, StreamTypeOK
    <3> QED  BY <2>1, <2>2, <2>5, <3>4, <3>5 DEF Stopped
  <2>8. Streaming' /\ registered' # 0
    BY <2>1, <2>3, <2>5 DEF Streaming, Live
  <2>9. \A k \in Streams : stream'[k].at = "new" => ~stream'[k].cancelled
    BY <2>5, <2>6 DEF EndedBySomeStop
  <2> QED  BY <2>1, <2>2, <2>5, <2>6, <2>7, <2>8, <2>9 DEF EndedBySomeStop
<1> QED  BY <1>1, <1>2

(* A stop cancels the stream that it waits for.                             *)
LEMMA StopStreamingEnded ==
  ASSUME StreamInv, EndedBySomeStop, NEW r \in Callers, StopStreaming(r)
  PROVE  /\ EndedBySomeStop' /\ UNCHANGED lost
         /\ \A k \in Callers \ {r} : stopping'[k] = stopping[k]
         /\ Streaming \/ UNCHANGED <<stream, stopping>>
         /\ \A s \in Streams : Live(s)' <=> Live(s)
<1>1. CASE ~Streaming
  <2>1. UNCHANGED <<stream, registered, shutdown_event, stopping, lost>>
    BY <1>1 DEF StopStreaming
  <2> QED  BY <1>1, <2>1 DEF EndedBySomeStop, Streaming, Stopped, Live
<1>2. CASE Streaming
  <2>1. registered \in Streams /\ registered # 0
    BY <1>2 DEF Streaming, StreamInv, StreamTypeOK
  <2>2. /\ stream' = [stream EXCEPT ![registered].cancelled = TRUE]
        /\ stopping' = [stopping EXCEPT ![r] = registered]
        /\ shutdown_event' = TRUE
        /\ UNCHANGED <<registered, lost>>
    BY <1>2 DEF StopStreaming
  <2>3. /\ \A k \in Streams : stream'[k].at = stream[k].at
        /\ \A k \in Streams \ {registered} : stream'[k].cancelled = stream[k].cancelled
    BY <2>1, <2>2 DEF StreamInv, StreamTypeOK, StreamTask
  <2>4. stopping'[r] = registered /\ \A k \in Callers \ {r} : stopping'[k] = stopping[k]
    BY <2>2, OperationAssumption DEF StreamInv, StreamTypeOK
  <2>5. stream[registered].at # "new"
    BY <2>1 DEF EndedBySomeStop
  <2>6. \A k \in Streams : stream'[k].at = "new" => ~stream'[k].cancelled
    BY <2>3, <2>5 DEF EndedBySomeStop
  <2> QED  BY <1>2, <2>1, <2>2, <2>3, <2>4, <2>5, <2>6 DEF EndedBySomeStop, Live
<1> QED  BY <1>1, <1>2

(* A stop that resumes leaves no live stream, unless it forgets one.        *)
LEMMA StopStreamingEndsEnded ==
  ASSUME StreamInv, EndedBySomeStop, NEW r \in Callers, StopStreamingEnds(r)
  PROVE  /\ EndedBySomeStop'
         /\ stopping'[r] = 0 /\ \A k \in Callers \ {r} : stopping'[k] = stopping[k]
         /\ lost' = {} => \A s \in Streams : ~Live(s)'
<1>1. UNCHANGED stream /\ registered' = 0 /\ shutdown_event' = FALSE
  BY DEF StopStreamingEnds
<1>2. EndedBySomeStop'
  BY <1>1 DEF EndedBySomeStop, Streaming
<1>3. stopping'[r] = 0 /\ \A k \in Callers \ {r} : stopping'[k] = stopping[k]
  BY OperationAssumption DEF StopStreamingEnds, StreamInv, StreamTypeOK
<1>4. ASSUME lost' = {} PROVE lost = {} /\ registered \in {0, stopping[r]}
  BY <1>4 DEF StopStreamingEnds
<1>5. ASSUME lost' = {}, NEW s \in Streams PROVE ~Live(s)
  BY <1>4, <1>5, DbStreamerAssumption DEF StreamInv, OneStream, StopStreamingEnds, Stopped, Live
<1> QED  BY <1>1, <1>2, <1>3, <1>5 DEF Live

(* A step of stream s that leaves it at another stage.                      *)
LEMMA StreamStepEnded ==
  ASSUME StreamInv, EndedBySomeStop, NEW s \in Streams, NEW at \in {"running", "ending", "done"},
         stream[s].at # "new", stream[s].at # "done",
         \A k \in Streams \ {s} : stream'[k] = stream[k],
         stream'[s].at = at, stream'[s].cancelled => stream[s].cancelled,
         UNCHANGED <<registered, shutdown_event, stopping>>,
         stream[s].at = "ready" => \A r \in Callers : ~Stopped(r),
         stream[s].at = "ready" /\ ~stream[s].cancelled => at = "running",
         at = "ending" => stream[s].cancelled \/ shutdown_event,
         at = "done" /\ stream[s].at # "ready" => stream[s].at = "ending"
  PROVE  /\ EndedBySomeStop'
         /\ \A k \in Streams : Live(k)' => Live(k)
         /\ Streaming /\ (\A r \in Callers : stopping[r] = 0) => Streaming'
<1>1. \A k \in Streams : stream'[k].at = (IF k = s THEN at ELSE stream[k].at)
  OBVIOUS
<1>2. stream[s].at \in {"ready", "running", "ending"}
  BY DEF StreamInv, StreamTypeOK, StreamTask
<1>3. \A k \in Streams : stream'[k].at = "new" => ~stream'[k].cancelled
  BY <1>1 DEF EndedBySomeStop
<1>4. registered \in Streams \cup {0} /\ \A r \in Callers : stopping[r] \in Streams \cup {0}
  BY OperationAssumption DEF StreamInv, StreamTypeOK
<1>5. \A r \in Callers : Stopped(r) => Stopped(r)'
  BY <1>1, <1>4 DEF Stopped
<1>6. registered' # 0 => stream'[registered'].at # "new"
  BY <1>1, <1>4 DEF EndedBySomeStop
<1>7. ASSUME shutdown_event
      PROVE  /\ registered # 0
             /\ \E r \in Callers: \/ stopping[r] = registered
                                  \/ Stopped(r)' /\ stream'[registered].at = "ready"
  <2>1. registered # 0
    BY <1>7 DEF EndedBySomeStop
  <2>2. PICK r \in Callers : stopping[r] = registered \/ (Stopped(r) /\ stream[registered].at = "ready")
    BY <1>7 DEF EndedBySomeStop
  <2>3. CASE stopping[r] = registered
    BY <2>1, <2>3
  <2>4. CASE Stopped(r) /\ stream[registered].at = "ready"
    <3>1. registered # s
      BY <2>4
    <3> QED  BY <1>1, <1>4, <1>5, <2>1, <2>4, <3>1
  <2> QED  BY <2>2, <2>3, <2>4
<1>8. ASSUME Streaming', stream'[registered].cancelled \/ stream'[registered].at = "ending"
      PROVE  \E r \in Callers: stopping[r] = registered
  <2>1. registered \in Streams /\ registered # 0
    BY <1>4, <1>8 DEF Streaming
  <2>2. CASE registered # s
    BY <1>8, <2>1, <2>2 DEF EndedBySomeStop, Streaming, Live
  <2>3. CASE registered = s /\ (stream[s].cancelled \/ stream[s].at = "ending")
    BY <1>2, <2>1, <2>3 DEF EndedBySomeStop, Streaming, Live
  <2>4. CASE registered = s /\ ~stream[s].cancelled /\ stream[s].at # "ending"
    <3>1. at = "ending" /\ shutdown_event
      BY <1>8, <2>4
    <3>2. stream'[registered].at # "ready"
      BY <2>4
    <3> QED  BY <1>7, <3>1, <3>2
  <2> QED  BY <2>2, <2>3, <2>4
<1>9. \A k \in Streams : Live(k)' => Live(k)
  BY <1>1, <1>2 DEF Live
<1>10. ASSUME Streaming, \A r \in Callers : stopping[r] = 0 PROVE Streaming'
  <2>1. registered \in Streams /\ registered # 0
    BY <1>4, <1>10 DEF Streaming
  <2>2. ~stream[registered].cancelled /\ stream[registered].at # "ending" /\ ~shutdown_event
    BY <1>10, <2>1 DEF EndedBySomeStop, Stopped
  <2>3. registered = s => at \notin {"ending", "done"}
    BY <1>2, <2>2
  <2>4. CASE registered = s
    <3>1. at = "running"
      BY <1>2, <2>2, <2>3, <2>4
    <3> QED  BY <2>1, <2>4, <3>1 DEF Streaming, Live
  <2>5. CASE registered # s
    BY <1>10, <2>1, <2>5 DEF Streaming, Live
  <2> QED  BY <2>4, <2>5
<1> QED  BY <1>3, <1>6, <1>7, <1>8, <1>9, <1>10 DEF EndedBySomeStop

(* The tasks end no stream that no stop waits for, and start none.          *)
LEMMA StreamTasksEnded ==
  ASSUME StreamInv, EndedBySomeStop, StreamTasks
  PROVE  /\ EndedBySomeStop' /\ UNCHANGED <<stopping, lost>>
         /\ \A k \in Streams : Live(k)' => Live(k)
         /\ Streaming /\ (\A r \in Callers : stopping[r] = 0) => Streaming'
<1> DEFINE Goal == /\ EndedBySomeStop' /\ UNCHANGED <<stopping, lost>>
                   /\ \A k \in Streams : Live(k)' => Live(k)
                   /\ Streaming /\ (\A r \in Callers : stopping[r] = 0) => Streaming'
<1>1. ASSUME NEW s \in Streams, StreamBegins(s) PROVE Goal
  <2>1. stream[s] \in StreamTask /\ stream[s].at = "ready" /\ \A r \in Callers : ~Stopped(r)
    BY <1>1, OperationAssumption DEF StreamBegins, StreamInv, StreamTypeOK
  <2>2. UNCHANGED <<registered, shutdown_event, stopping, lost>>
    BY <1>1 DEF StreamBegins
  <2> DEFINE at == IF stream[s].cancelled THEN "done" ELSE "running"
  <2>3. stream' = [stream EXCEPT ![s].at = at]
    BY <1>1 DEF StreamBegins
  <2>4. at \in {"running", "done"} /\ (~stream[s].cancelled => at = "running")
    OBVIOUS
  <2> HIDE DEF at
  <2>5. /\ \A k \in Streams \ {s} : stream'[k] = stream[k]
        /\ stream'[s].at = at /\ stream'[s].cancelled = stream[s].cancelled
    BY <2>1, <2>3 DEF StreamInv, StreamTypeOK, StreamTask
  <2> QED  BY <2>1, <2>2, <2>4, <2>5, StreamStepEnded
<1>2. ASSUME NEW s \in Streams, StreamEnds(s) PROVE Goal
  <2>1. stream[s] \in StreamTask /\ stream[s].at = "running" /\ (stream[s].cancelled \/ shutdown_event)
    BY <1>2 DEF StreamEnds, StreamInv, StreamTypeOK
  <2>2. UNCHANGED <<registered, shutdown_event, stopping, lost>>
    BY <1>2 DEF StreamEnds
  <2>3. stream' = [stream EXCEPT ![s] = [stream[s] EXCEPT !.at = "ending", !.cancelled = FALSE, !.ends = db_cons]]
    BY <1>2 DEF StreamEnds
  <2>4. /\ \A k \in Streams \ {s} : stream'[k] = stream[k]
        /\ stream'[s].at = "ending" /\ stream'[s].cancelled = FALSE
    BY <2>1, <2>3 DEF StreamInv, StreamTypeOK, StreamTask
  <2> QED  BY <2>1, <2>2, <2>4, StreamStepEnded
<1>3. ASSUME NEW s \in Streams, StreamDone(s) PROVE Goal
  <2>1. stream[s] \in StreamTask /\ stream[s].at = "ending"
    BY <1>3 DEF StreamDone, StreamInv, StreamTypeOK
  <2>2. UNCHANGED <<registered, shutdown_event, stopping, lost>> /\ stream' = [stream EXCEPT ![s].at = "done"]
    BY <1>3 DEF StreamDone
  <2>3. /\ \A k \in Streams \ {s} : stream'[k] = stream[k]
        /\ stream'[s].at = "done" /\ stream'[s].cancelled = stream[s].cancelled
    BY <2>1, <2>2 DEF StreamInv, StreamTypeOK, StreamTask
  <2> QED  BY <2>1, <2>2, <2>3, StreamStepEnded
<1>4. ASSUME NEW s \in Streams, NEW x \in Sensors, ConsumerPosts(s, x) \/ ConsumerEnds(s, x) PROVE Goal
  <2>1. UNCHANGED <<stream, registered, shutdown_event, stopping, lost>>
    BY <1>4 DEF ConsumerPosts, ConsumerEnds
  <2> QED  BY <2>1 DEF EndedBySomeStop, Streaming, Stopped, Live
<1> QED  BY <1>1, <1>2, <1>3, <1>4 DEF StreamTasks

-----------------------------------------------------------------------------
(* The laser part of an undisturbed start gains, that of a stop loses.      *)

(* A step of a call for berth b.                                            *)
LEMMA CallGains ==
  ASSUME LaserTypeOK, NEW r \in Callers, NEW b \in Berths, CallStep(r), call[r].op \in Starts,
         lm.berth = b, Gains(b, call[r])
  PROVE  Gains(b, call[r])'
<1>1. call[r] \in Call /\ lm \in Manager
  BY DEF LaserTypeOK
<1>2. CASE Connect(r) \/ ConnectStarts(r)
  <2>1. /\ call'[r].op = "connect" /\ call'[r].at \in {"set", "returned"}
        /\ (call'[r].at = "returned" /\ call'[r].ok => lm'.conn)
    <3>1. CASE Connect(r) /\ lm.conn
      BY <1>1, <3>1 DEF Connect, At, Returns, LaserTypeOK, Call
    <3>2. CASE Connect(r) /\ ~lm.conn
      BY <1>1, <3>2 DEF Connect, At, Moves, LaserTypeOK, Call
    <3>3. CASE ConnectStarts(r)
      BY <1>1, <3>3 DEF ConnectStarts, At, Returns, LaserTypeOK, Call, Manager
    <3> QED  BY <1>2, <3>1, <3>2, <3>3
  <2> QED  BY <2>1 DEF Gains
<1>3. CASE DriftPosts(r)
  <2>1. call'[r].op = "drift" /\ call'[r].at = "posted" /\ call'[r].berth = b /\ lm' = lm /\ call[r].op = "drift"
    BY <1>1, <1>3 DEF DriftPosts, At, LaserTypeOK, Call, Starts
  <2> QED  BY <2>1 DEF Gains
<1>4. CASE ServiceTakes(r)
  <2>1. /\ call'[r].op = call[r].op /\ call'[r].at = "taken" /\ call'[r].berth = call[r].berth
        /\ lm' = lm /\ call[r].at = "posted"
        /\ drifting' = IF call[r].op = "drift" THEN drifting \cup {call[r].berth} ELSE drifting \ {call[r].berth}
    BY <1>1, <1>4 DEF ServiceTakes, Moves, LaserTypeOK, Call
  <2>2. CASE call[r].op = "drift"
    BY <2>1, <2>2 DEF Gains
  <2>3. CASE call[r].op = "sync"
    BY <1>4, <2>3 DEF Gains, ServiceTakes
  <2>4. CASE call[r].op = "connect"
    BY <2>1, <2>4 DEF Gains
  <2> QED  BY <2>2, <2>3, <2>4 DEF Starts
<1>5. CASE DriftFails(r)
  <2>1. /\ call'[r].op = call[r].op /\ call'[r].at = "returned" /\ ~call'[r].ok
        /\ lm' = lm /\ drifting' = drifting
    BY <1>1, <1>5 DEF DriftFails, Returns, LaserTypeOK, Call
  <2> QED  BY <2>1 DEF Gains
<1>6. CASE DriftAnswered(r)
  <2>1. /\ call'[r].op = call[r].op /\ call'[r].at = "returned"
        /\ lm'.conn = lm.conn /\ drifting' = drifting /\ call[r].at = "taken"
        /\ lm'.drift <=> call[r].op = "drift"
    BY <1>1, <1>6 DEF DriftAnswered, Returns, LaserTypeOK, Call, Manager
  <2> QED  BY <2>1 DEF Gains
<1>7. CASE SyncCall(r)
  <2>1. /\ call[r].op = "sync" /\ drifting' = drifting /\ lm'.conn = lm.conn /\ lm'.drift = lm.drift
    BY <1>1, <1>7 DEF SyncCall, Sync, SyncSets, SyncMakes, SyncStarts, SyncRaises, At, Manager
  <2>2. /\ call'[r].op = "sync" /\ call'[r].at \in {"set", "make", "begin", "returned"}
        /\ call'[r].at \in {"make", "begin"} \/ (call'[r].at = "returned" /\ call'[r].ok) => lm'.sync
    <3>1. CASE Sync(r) /\ (lm.sync \/ ~lm.conn)
      BY <1>1, <2>1, <3>1 DEF Sync, Returns, LaserTypeOK, Call, Manager
    <3>2. CASE Sync(r) /\ ~lm.sync /\ lm.conn
      BY <1>1, <2>1, <3>2 DEF Sync, Moves, LaserTypeOK, Call
    <3>3. CASE SyncSets(r)
      BY <1>1, <2>1, <3>3 DEF SyncSets, Moves, LaserTypeOK, Call, Manager
    <3>4. CASE SyncMakes(r)
      <4>1. lm'.sync = lm.sync /\ Moves(r, "begin") /\ call[r].at = "make"
        BY <1>1, <3>4 DEF SyncMakes, At, Manager
      <4> QED  BY <1>1, <2>1, <4>1 DEF Gains, Moves, LaserTypeOK, Call
    <3>5. CASE SyncStarts(r)
      <4>1. lm' = lm /\ Returns(r, TRUE) /\ call[r].at = "begin"
        BY <3>5 DEF SyncStarts, At
      <4> QED  BY <1>1, <2>1, <4>1 DEF Gains, Returns, LaserTypeOK, Call
    <3>6. CASE SyncRaises(r)
      <4>1. Returns(r, FALSE)
        BY <3>6 DEF SyncRaises
      <4> QED  BY <1>1, <2>1, <4>1 DEF Returns, LaserTypeOK, Call
    <3> QED  BY <1>7, <3>1, <3>2, <3>3, <3>4, <3>5, <3>6 DEF SyncCall
  <2> QED  BY <2>1, <2>2 DEF Gains
<1> QED  BY <1>2, <1>3, <1>4, <1>5, <1>6, <1>7
         DEF CallStep, SyncCall, Disconnect, NotDrifting, Unsync, UnsyncTries, UnsyncJoins, At, Starts

LEMMA CallLoses ==
  ASSUME LaserTypeOK, NEW r \in Callers, CallStep(r), call[r].op \in Stops, Loses(call[r])
  PROVE  Loses(call[r])'
<1>1. call[r] \in Call /\ lm \in Manager
  BY DEF LaserTypeOK
<1>2. CASE Unsync(r) \/ UnsyncTries(r) \/ UnsyncJoins(r)
  <2>1. call'[r].op = "unsync" /\ ~lm'.sync /\ call'[r].at \in {"try", "join", "returned"}
    <3>1. CASE Unsync(r)
      BY <1>1, <3>1 DEF Unsync, At, Moves, Returns, LaserTypeOK, Call, Manager
    <3>2. CASE UnsyncTries(r)
      <4>1. call[r].op = "unsync" /\ ~lm'.sync
        BY <3>2 DEF Loses, UnsyncTries, At
      <4>2. call'[r].op = call[r].op /\ call'[r].at \in {"join", "returned"}
        BY <1>1, <3>2 DEF UnsyncTries, Returns, LaserTypeOK, Call
      <4> QED  BY <4>1, <4>2
    <3>3. CASE UnsyncJoins(r)
      BY <1>1, <3>3 DEF Loses, UnsyncJoins, At, Moves, Returns, LaserTypeOK, Call, Manager
    <3> QED  BY <1>2, <3>1, <3>2, <3>3
  <2> QED  BY <2>1 DEF Loses
<1>3. CASE DriftPosts(r)
  <2>1. call'[r].op = call[r].op /\ call'[r].at = "posted" /\ lm' = lm /\ call[r].op = "undrift"
    BY <1>1, <1>3 DEF DriftPosts, At, LaserTypeOK, Call, Stops
  <2> QED  BY <2>1 DEF Loses
<1>4. CASE ServiceTakes(r)
  <2>1. call'[r].op = call[r].op /\ call'[r].at = "taken" /\ lm' = lm /\ call[r].at = "posted"
    BY <1>1, <1>4 DEF ServiceTakes, Moves, LaserTypeOK, Call
  <2> QED  BY <2>1 DEF Loses
<1>5. CASE DriftFails(r)
  <2>1. call'[r].op = call[r].op /\ call'[r].at = "returned" /\ ~call'[r].ok /\ lm' = lm
        /\ call[r].at \in {"posted", "taken"}
    BY <1>1, <1>5 DEF DriftFails, Returns, LaserTypeOK, Call
  <2> QED  BY <2>1 DEF Loses
<1>6. CASE DriftAnswered(r)
  <2>1. /\ call'[r].op = call[r].op /\ call'[r].at = "returned" /\ lm'.sync = lm.sync /\ lm'.conn = lm.conn
        /\ ~lm'.drift /\ call[r].at = "taken"
    BY <1>1, <1>6 DEF DriftAnswered, Returns, LaserTypeOK, Call, Manager, Stops
  <2> QED  BY <2>1 DEF Loses
<1>7. CASE NotDrifting(r)
  <2>1. call[r].op = "undrift" /\ call'[r].op = "undrift" /\ lm' = lm /\ ~lm.drift /\ call'[r].at = "returned"
    BY <1>1, <1>7 DEF NotDrifting, At, Returns, LaserTypeOK, Call
  <2> QED  BY <2>1 DEF Loses
<1>8. CASE Disconnect(r)
  <2>1. /\ call[r].op = "disconnect" /\ call'[r].op = "disconnect" /\ call'[r].at = "returned"
        /\ ~lm'.conn /\ lm'.sync = lm.sync /\ lm'.drift = lm.drift
    BY <1>1, <1>8 DEF Disconnect, At, Returns, LaserTypeOK, Call, Manager
  <2> QED  BY <2>1 DEF Loses
<1> QED  BY <1>2, <1>3, <1>4, <1>5, <1>6, <1>7, <1>8
         DEF CallStep, Connect, ConnectStarts, Sync, SyncSets, SyncMakes, SyncStarts, SyncRaises, At, Stops

-----------------------------------------------------------------------------
(* A step of one request.                                                   *)

(* Only r moves, or ends, and it stays undisturbed only if it was.          *)
LEMMA OneMoves ==
  ASSUME RequestInv, AloneInv, NEW r \in Callers, NEW q \in Request,
         req[r].at # "idle", req' = [req EXCEPT ![r] = q],
         q.alone => req[r].alone /\ q.at # "idle",
         Staged(q), EndedBySomeStop', stopping'[r] # 0 => q.at = "stopping",
         \A k \in Callers \ {r} : stopping'[k] = stopping[k],
         q.alone => GoesWell(r)'
  PROVE  AloneInv'
<1>1. req'[r] = q /\ \A k \in Callers \ {r} : req'[k] = req[k]
  BY DEF RequestInv, RequestTypeOK
<1>2. \A k \in Callers \ {r} : ~req[k].alone
  BY DEF AloneInv, Undisturbed
<1>3. Undisturbed'
  BY <1>1, <1>2 DEF AloneInv, Undisturbed
<1>4. Stages'
  BY <1>1 DEF AloneInv, Stages
<1> QED  BY <1>1, <1>2, <1>3, <1>4 DEF AloneInv

(* A request arrives: from then on no other one is undisturbed.             *)
LEMMA ArrivalAlone ==
  ASSUME RequestInv, AloneInv, NEW r \in Callers, NEW q \in Request, Arrives(r, q),
         q.at # "idle", Staged(q), q.at # "stopping", UNCHANGED streamVars,
         req'[r] = [q EXCEPT !.alone = Quiet] => GoesWell(r)'
  PROVE  AloneInv'
<1>1. /\ req'[r] = [q EXCEPT !.alone = Quiet]
      /\ \A k \in Callers : k # r => req'[k] = [req[k] EXCEPT !.alone = FALSE]
  BY Arrival
<1>2. \A k \in Callers : req[k] \in Request
  BY DEF RequestInv, RequestTypeOK
<1> DEFINE quiet == Quiet
<1>a. quiet \in BOOLEAN
  BY DEF Quiet
<1>b. ASSUME NEW k \in Callers \ {r}
      PROVE  ~req'[k].alone /\ req'[k].at = req[k].at /\ (Staged(req[k]) => Staged(req'[k]))
  <2>1. req'[k] = [req[k] EXCEPT !.alone = FALSE] /\ req[k] \in Request
    BY <1>1, <1>2
  <2>2. ~req'[k].alone /\ req'[k].at = req[k].at
    BY <2>1 DEF Request
  <2>3. /\ req'[k].kind = req[k].kind /\ req'[k].success = req[k].success
        /\ req'[k].laser = req[k].laser /\ req'[k].lidar = req[k].lidar
    BY <2>1 DEF Request
  <2> QED  BY <2>2, <2>3 DEF Staged
<1>c. [q EXCEPT !.alone = quiet].alone = quiet /\ [q EXCEPT !.alone = quiet].at = q.at
      /\ Staged([q EXCEPT !.alone = quiet])
  <2> HIDE DEF quiet
  <2> QED  BY <1>a DEF Request, Staged
<1>3. /\ req'[r].alone = Quiet /\ req'[r].at = q.at /\ Staged(req'[r])
      /\ \A k \in Callers \ {r} : ~req'[k].alone /\ req'[k].at = req[k].at /\ (Staged(req[k]) => Staged(req'[k]))
  BY <1>1, <1>b, <1>c
<1>4. Undisturbed'
  BY <1>3 DEF Undisturbed, Quiet
<1>5. req[r].at = "idle" /\ stopping' = stopping
  BY DEF Arrives, streamVars
<1>6. Stages'
  BY <1>3, <1>5 DEF AloneInv, Stages
<1>7. EndedBySomeStop'
  BY DEF AloneInv, EndedBySomeStop, streamVars, Streaming, Stopped, Live
<1> QED  BY <1>1, <1>3, <1>4, <1>6, <1>7 DEF AloneInv

(* Steps that leave the streamer alone.                                     *)
LEMMA StreamStill ==
  ASSUME UNCHANGED streamVars, EndedBySomeStop
  PROVE  EndedBySomeStop'
BY DEF EndedBySomeStop, streamVars, Streaming, Stopped, Live

(* Every request begins with nothing done.                                  *)
LEMMA BeginAlone ==
  ASSUME RequestInv, ClientInv, AloneInv, NEW r \in Callers, Begin(r)
  PROVE  AloneInv'
<1>1. ASSUME NEW b \in Berths, NEW id \in BerthingIds, NEW type \in Types, NEW uses \in Uses,
             Start(r, b, id, type, uses)
      PROVE  AloneInv'
  <2> DEFINE auto == type \in {"BERTH", "UNMOOR"}
             q == [Idle EXCEPT !.kind = "start", !.berth = b, !.auto = auto, !.at = "query"]
  <2>a. auto \in BOOLEAN
    OBVIOUS
  <2>b. ASSUME NEW l \in BOOLEAN
        PROVE  [Idle EXCEPT !.kind = "start", !.berth = b, !.auto = l, !.at = "query"] \in Request
    BY <1>1, IdleType DEF Start, Request
  <2>1. q \in Request
    BY <2>a, <2>b
  <2>2. Arrives(r, q) /\ UNCHANGED streamVars
    BY <1>1 DEF Start
  <2>3. /\ q.kind = "start" /\ q.berth = b /\ q.at = "query" /\ q.laser = "none" /\ q.lidar = "none" /\ ~q.success
    BY DEF Idle
  <2> HIDE DEF q
  <2>4. uses.laser \in BOOLEAN /\ use' = uses /\ lm' = [lm EXCEPT !.berth = IF uses.laser THEN b ELSE @]
    BY <1>1, OperationAssumption DEF Start
  <2>5. use'.laser => lm'.berth = b
    BY <2>4 DEF ClientInv, LaserTypeOK, Manager
  <2>6. ASSUME req'[r] = [q EXCEPT !.alone = Quiet] PROVE GoesWell(r)'
    <3>1. /\ req'[r].kind = "start" /\ req'[r].berth = b /\ req'[r].at = "query"
          /\ req'[r].laser = "none" /\ req'[r].lidar = "none" /\ ~req'[r].success
      BY <2>1, <2>3, <2>6 DEF Request
    <3> QED  BY <2>5, <3>1 DEF GoesWell, StartGoesWell
  <2>7. Staged(q)
    BY <2>3 DEF Staged
  <2> QED  BY <2>1, <2>2, <2>3, <2>6, <2>7, ArrivalAlone
<1>2. ASSUME NEW b \in Berths, Stop(r, b) PROVE AloneInv'
  <2> DEFINE last == use = [laser |-> TRUE, lidar |-> TRUE] /\ lm.berth = b
             q == [Idle EXCEPT !.kind = "stop", !.berth = b, !.at = "query", !.configured = last]
  <2>a. last \in BOOLEAN
    OBVIOUS
  <2>b. ASSUME NEW l \in BOOLEAN
        PROVE  [Idle EXCEPT !.kind = "stop", !.berth = b, !.at = "query", !.configured = l] \in Request
    BY <1>2, IdleType DEF Stop, Request
  <2>1. q \in Request
    BY <2>a, <2>b
  <2>2. Arrives(r, q) /\ UNCHANGED streamVars /\ use' = use
    BY <1>2 DEF Stop
  <2>3. /\ q.kind = "stop" /\ q.at = "query" /\ q.laser = "none" /\ q.lidar = "none" /\ ~q.success
        /\ q.configured => use = [laser |-> TRUE, lidar |-> TRUE]
    BY DEF Idle
  <2> HIDE DEF q
  <2>4. ASSUME req'[r] = [q EXCEPT !.alone = Quiet] PROVE GoesWell(r)'
    <3>1. /\ req'[r].kind = "stop" /\ req'[r].configured = q.configured /\ req'[r].at = "query"
          /\ req'[r].laser = "none" /\ req'[r].lidar = "none" /\ ~req'[r].success
      BY <2>1, <2>3, <2>4 DEF Request
    <3> QED  BY <2>2, <2>3, <3>1 DEF GoesWell, StopGoesWell
  <2>5. Staged(q)
    BY <2>3 DEF Staged
  <2> QED  BY <2>1, <2>2, <2>3, <2>4, <2>5, ArrivalAlone
<1>3. CASE Shutdown(r)
  <2> DEFINE q == [Idle EXCEPT !.kind = "shutdown", !.at = "work", !.laser = IF use.laser THEN "busy" ELSE "none"]
  <2>1. q \in Request
    BY <1>3, IdleType DEF Shutdown, Request, Parts
  <2>2. Arrives(r, q) /\ UNCHANGED streamVars
    BY <1>3 DEF Shutdown
  <2>3. q.kind = "shutdown" /\ q.at = "work" /\ q.laser \in {"busy", "none"} /\ q.lidar = "none" /\ ~q.success
    BY DEF Idle
  <2> HIDE DEF q
  <2>4. ASSUME req'[r] = [q EXCEPT !.alone = Quiet] PROVE GoesWell(r)'
    <3>1. req'[r].kind = "shutdown"
      BY <2>1, <2>3, <2>4 DEF Request
    <3> QED  BY <3>1 DEF GoesWell
  <2>5. Staged(q)
    BY <2>3 DEF Staged
  <2> QED  BY <2>1, <2>2, <2>3, <2>4, <2>5, ArrivalAlone
<1> QED  BY <1>1, <1>2, <1>3 DEF Begin

(* The query: a failure is no success, and the parts are those asked for.   *)
LEMMA QueryAlone ==
  ASSUME RequestInv, ClientInv, AloneInv, NEW r \in Callers, QueryFails(r) \/ Queried(r)
  PROVE  AloneInv'
<1>1. Fits(req[r], call[r]) /\ req[r] \in Request /\ Staged(req[r]) /\ req[r].at = "query"
  BY DEF RequestInv, RequestTypeOK, AloneInv, Stages, QueryFails, Queried
<1>2. UNCHANGED streamVars /\ UNCHANGED <<lm, drifting, use, lidarOn>>
  BY DEF QueryFails, Queried, laserVars
<1>3. EndedBySomeStop' /\ UNCHANGED stopping /\ stopping[r] = 0
  BY <1>1, <1>2, StreamStill DEF AloneInv, Stages, streamVars
<1>4. ~req[r].success /\ req[r].laser = "none" /\ req[r].lidar = "none"
  BY <1>1 DEF Staged
<1>5. CASE QueryFails(r)
  <2> DEFINE q == [req[r] EXCEPT !.at = "answer"]
  <2>1. q \in Request /\ req' = [req EXCEPT ![r] = q]
    BY <1>1, <1>5 DEF Request, QueryFails
  <2>2. /\ q.at = "answer" /\ q.alone = req[r].alone /\ q.kind = req[r].kind /\ ~q.success
        /\ q.laser = "none" /\ q.lidar = "none" /\ q.configured = req[r].configured
    BY <1>1, <1>4 DEF Request
  <2> HIDE DEF q
  <2>3. req'[r] = q
    BY <2>1 DEF RequestInv, RequestTypeOK
  <2>4. req[r].alone => GoesWell(r)'
    BY <1>2, <2>2, <2>3 DEF AloneInv, GoesWell, StartGoesWell, StopGoesWell
  <2>5. Staged(q)
    BY <2>2 DEF Staged
  <2> QED  BY <1>1, <1>3, <2>1, <2>2, <2>4, <2>5, OneMoves
<1>6. CASE Queried(r)
  <2> DEFINE laser == IF LaserPart(r) THEN "busy" ELSE "none"
             lidar == IF LidarPart(r) THEN "busy" ELSE "none"
             q == [req[r] EXCEPT !.at = "work", !.laser = laser, !.lidar = lidar]
  <2>1. laser \in {"busy", "none"} /\ lidar \in {"busy", "none"}
        /\ (laser # "none" <=> LaserPart(r)) /\ (lidar # "none" <=> LidarPart(r))
    OBVIOUS
  <2>2. req' = [req EXCEPT ![r] = q]
    BY <1>6 DEF Queried
  <2>a. req[r].kind \in {"start", "stop"} /\ req[r].berth \in Berths
    BY <1>1 DEF Fits
  <2>3. laser = "busy" => call'[r].op = FirstCall(req[r].kind) /\ call'[r].at = "enter"
    <3>1. ASSUME LaserPart(r) PROVE call'[r] = [NoCall EXCEPT !.op = FirstCall(req[r].kind), !.berth = req[r].berth]
      BY <1>6, <3>1 DEF Queried, ClientInv, LaserTypeOK
    <3> QED  BY <3>1 DEF NoCall
  <2> HIDE DEF laser, lidar
  <2>4. q \in Request
    BY <1>1, <2>1 DEF Request, Parts
  <2>5. /\ q.at = "work" /\ q.alone = req[r].alone /\ q.kind = req[r].kind /\ ~q.success /\ q.berth = req[r].berth
        /\ q.laser = laser /\ q.lidar = lidar /\ q.configured = req[r].configured
    BY <1>1, <1>4 DEF Request
  <2> HIDE DEF q
  <2>6. req'[r] = q
    BY <2>2 DEF RequestInv, RequestTypeOK
  <2>7. PartsAsked(r)'
    BY <1>2, <2>1, <2>5, <2>6 DEF PartsAsked, LaserPart, LidarPart
  <2>8. ASSUME req[r].alone, req[r].kind = "start" PROVE StartGoesWell(r)'
    <3>1. use'.laser => lm'.berth = q.berth
      BY <1>1, <1>2, <2>5, <2>8 DEF AloneInv, GoesWell, StartGoesWell
    <3>2. ASSUME q.laser = "busy", NEW b \in Berths PROVE Gains(b, call[r])'
      BY <2>3, <2>5, <2>8, <3>2 DEF Gains, FirstCall
    <3>3. q.laser # "yes" /\ q.lidar # "good" /\ q.berth \in Berths
      BY <2>1, <2>5, <2>a
    <3> QED  BY <2>5, <2>6, <3>1, <3>2, <3>3 DEF StartGoesWell, Gains
  <2>9. ASSUME req[r].alone, req[r].kind = "stop" PROVE StopGoesWell(r)'
    <3>1. q.configured => use' = [laser |-> TRUE, lidar |-> TRUE]
      BY <1>2, <2>5, <2>9 DEF AloneInv, GoesWell, StopGoesWell
    <3>2. q.laser = "busy" => Loses(call[r])'
      BY <2>3, <2>5, <2>9 DEF Loses, FirstCall
    <3> QED  BY <2>1, <2>5, <2>6, <3>1, <3>2 DEF StopGoesWell
  <2>10. Staged(q)
    BY <2>1, <2>5 DEF Staged
  <2>11. req[r].alone => GoesWell(r)'
    BY <2>5, <2>6, <2>7, <2>8, <2>9 DEF GoesWell
  <2> QED  BY <1>1, <1>3, <2>2, <2>4, <2>5, <2>10, <2>11, OneMoves
<1> QED  BY <1>5, <1>6

(* A call has returned: what it gained or lost stands.                      *)
LEMMA ReturnedAlone ==
  ASSUME RequestInv, ClientInv, AloneInv, NEW r \in Callers, LaserReturns(r) \/ ShutdownGoesOn(r)
  PROVE  AloneInv'
<1>1. Fits(req[r], call[r]) /\ req[r] \in Request /\ Staged(req[r]) /\ call[r] \in Call
  BY DEF RequestInv, RequestTypeOK, AloneInv, Stages, ClientInv, LaserTypeOK
<1>2. UNCHANGED streamVars /\ UNCHANGED <<lm, drifting, use, lidarOn>>
  BY DEF LaserReturns, ShutdownGoesOn
<1>3. req[r].laser = "busy" /\ req[r].at = "work" /\ call[r].at = "returned"
  BY <1>1 DEF LaserReturns, ShutdownGoesOn, Fits
<1>4. EndedBySomeStop' /\ UNCHANGED stopping /\ stopping[r] = 0 /\ ~req[r].success
  BY <1>1, <1>2, <1>3, StreamStill DEF AloneInv, Stages, streamVars, Staged
<1>5. PICK q \in Request :
        /\ req' = [req EXCEPT ![r] = q]
        /\ q = req[r] \/ \E p \in {"yes", "no"} : q = [req[r] EXCEPT !.laser = p]
  <2>1. CASE UNCHANGED req
    <3>1. req' = [req EXCEPT ![r] = req[r]]
      BY <2>1 DEF RequestInv, RequestTypeOK
    <3> QED  BY <1>1, <3>1
  <2>2. ASSUME NEW p \in {"yes", "no"}, req' = [req EXCEPT ![r].laser = p]
        PROVE  \E q \in Request : /\ req' = [req EXCEPT ![r] = q]
                                  /\ q = req[r] \/ \E y \in {"yes", "no"} : q = [req[r] EXCEPT !.laser = y]
    <3>1. [req[r] EXCEPT !.laser = p] \in Request
      BY <1>1 DEF Request, Parts
    <3> QED  BY <2>2, <3>1
  <2> QED  BY <2>1, <2>2 DEF LaserReturns, ShutdownGoesOn
<1>6. /\ q.at = "work" /\ q.alone = req[r].alone /\ q.kind = req[r].kind /\ ~q.success /\ q.berth = req[r].berth
      /\ q.lidar = req[r].lidar /\ q.got = req[r].got /\ q.configured = req[r].configured /\ q.auto = req[r].auto
      /\ q.laser \in {"busy", "yes", "no"}
  BY <1>1, <1>3, <1>4, <1>5 DEF Request
<1>7. req'[r] = q
  BY <1>5 DEF RequestInv, RequestTypeOK
<1>8. Staged(q)
  BY <1>1, <1>6 DEF Staged
<1>9. ASSUME req[r].alone, req[r].kind \in {"start", "stop"} PROVE GoesWell(r)'
  <2>1. PartsAsked(r)'
    BY <1>2, <1>3, <1>6, <1>7, <1>9 DEF AloneInv, GoesWell, PartsAsked, LaserPart, LidarPart
  <2>2. LaserReturns(r)
    BY <1>9 DEF ShutdownGoesOn
  <2>3. CASE Goes(call[r].op, call[r].ok)
    <3>1. call' = [call EXCEPT ![r] = [NoCall EXCEPT !.op = After(call[r].op), !.berth = req[r].berth]] /\ UNCHANGED req
      BY <2>2, <2>3 DEF LaserReturns
    <3>2. call'[r].at = "enter" /\ call'[r].op = After(call[r].op) /\ q = req[r]
      BY <1>7, <3>1 DEF ClientInv, LaserTypeOK, NoCall
    <3>3. CASE req[r].kind = "start"
      <4>1. Gains(req[r].berth, call[r]) /\ call[r].op \in Starts
        BY <1>1, <1>3, <1>9, <3>3 DEF AloneInv, GoesWell, StartGoesWell, Fits
      <4>2. /\ call[r].op \in {"connect", "drift"} /\ lm.conn
            /\ call[r].op = "drift" => lm.drift /\ req[r].berth \in drifting
        BY <1>3, <2>3, <4>1 DEF Gains, Goes, Starts
      <4>3. Gains(req[r].berth, call[r])'
        BY <1>2, <1>7, <3>2, <4>2, AfterType DEF Gains
      <4>4. StartGoesWell(r)'
        BY <1>2, <1>3, <1>6, <1>7, <1>9, <3>2, <3>3, <4>3 DEF AloneInv, GoesWell, StartGoesWell
      <4> QED  BY <1>6, <1>7, <2>1, <3>3, <4>4 DEF GoesWell
    <3>4. CASE req[r].kind = "stop"
      <4>1. Loses(call[r]) /\ call[r].op \in Stops
        BY <1>1, <1>3, <1>9, <3>4 DEF AloneInv, GoesWell, StopGoesWell, Fits
      <4>2. /\ call[r].op \in {"unsync", "undrift"} /\ ~lm.sync
            /\ call[r].op = "undrift" => ~lm.drift
        BY <1>3, <2>3, <4>1 DEF Loses, Goes, Stops
      <4>3. Loses(call[r])'
        BY <1>2, <3>2, <4>2, AfterType DEF Loses
      <4>4. StopGoesWell(r)'
        BY <1>2, <1>3, <1>6, <1>7, <1>9, <3>2, <3>4, <4>3 DEF AloneInv, GoesWell, StopGoesWell
      <4> QED  BY <1>6, <1>7, <2>1, <3>4, <4>4 DEF GoesWell
    <3> QED  BY <1>9, <3>3, <3>4
  <2>4. CASE ~Goes(call[r].op, call[r].ok)
    <3> DEFINE p == IF call[r].ok \/ call[r].op = "disconnect" THEN "yes" ELSE "no"
    <3>1. req' = [req EXCEPT ![r].laser = p]
      BY <2>2, <2>4 DEF LaserReturns
    <3>2. q.laser = p
      BY <1>1, <1>7, <3>1 DEF RequestInv, RequestTypeOK, Request
    <3>3. p \in {"yes", "no"} /\ (p = "yes" => call[r].ok \/ call[r].op = "disconnect")
      OBVIOUS
    <3> HIDE DEF p
    <3>4. CASE req[r].kind = "start"
      <4>1. Gains(req[r].berth, call[r]) /\ call[r].op \in Starts
        BY <1>1, <1>3, <1>9, <3>4 DEF AloneInv, GoesWell, StartGoesWell, Fits
      <4>2. p = "yes" => LaserGained(req[r].berth)
        BY <1>3, <2>4, <3>3, <4>1 DEF Gains, Goes, Starts, LaserGained
      <4>3. p = "yes" => LaserGained(req[r].berth)'
        BY <1>2, <1>6, <1>7, <4>2 DEF LaserGained
      <4>4. StartGoesWell(r)'
        BY <1>2, <1>3, <1>6, <1>7, <1>9, <3>2, <3>3, <3>4, <4>3 DEF AloneInv, GoesWell, StartGoesWell
      <4> QED  BY <1>6, <1>7, <2>1, <3>4, <4>4 DEF GoesWell
    <3>5. CASE req[r].kind = "stop"
      <4>1. Loses(call[r]) /\ call[r].op \in Stops
        BY <1>1, <1>3, <1>9, <3>5 DEF AloneInv, GoesWell, StopGoesWell, Fits
      <4>2. p = "yes" => LaserGone
        BY <1>3, <2>4, <3>3, <4>1 DEF Loses, Goes, Stops, LaserGone
      <4>3. p = "yes" => LaserGone'
        BY <1>2, <4>2 DEF LaserGone
      <4>4. StopGoesWell(r)'
        BY <1>2, <1>3, <1>6, <1>7, <1>9, <3>2, <3>3, <3>5, <4>3 DEF AloneInv, GoesWell, StopGoesWell
      <4> QED  BY <1>6, <1>7, <2>1, <3>5, <4>4 DEF GoesWell
    <3> QED  BY <1>9, <3>4, <3>5
  <2> QED  BY <2>3, <2>4
<1>10. req[r].kind \notin {"start", "stop"} => GoesWell(r)'
  BY <1>6, <1>7 DEF GoesWell
<1> QED  BY <1>3, <1>4, <1>5, <1>6, <1>8, <1>9, <1>10, OneMoves

(* The lidar part is over: good means what the lidar manager was asked for. *)
LEMMA LidarAlone ==
  ASSUME RequestInv, ClientInv, AloneInv, NEW r \in Callers, LidarEnabled(r) \/ LidarDisabled(r) \/ LidarRaises(r)
  PROVE  AloneInv'
<1>1. Fits(req[r], call[r]) /\ req[r] \in Request /\ Staged(req[r])
  BY DEF RequestInv, RequestTypeOK, AloneInv, Stages
<1>2. UNCHANGED streamVars /\ UNCHANGED <<lm, drifting, call, use>>
  BY DEF LidarEnabled, LidarDisabled, LidarRaises, laserVars
<1>3. req[r].lidar = "busy" /\ req[r].at = "work" /\ req[r].kind \in {"start", "stop"}
  BY <1>1 DEF LidarEnabled, LidarDisabled, LidarRaises, Fits
<1>4. EndedBySomeStop' /\ UNCHANGED stopping /\ stopping[r] = 0 /\ ~req[r].success
  BY <1>1, <1>2, <1>3, StreamStill DEF AloneInv, Stages, streamVars, Staged
<1>5. ASSUME NEW p \in {"good", "bad", "exception"}, NEW got \in SUBSET Sensors,
             req' = [req EXCEPT ![r] = [req[r] EXCEPT !.lidar = p, !.got = got]],
             p = "good" /\ req[r].kind = "start" => SensorsOf[req[r].berth] \subseteq lidarOn' /\ got # {},
             p = "good" /\ req[r].kind = "stop" => lidarOn' = {}
      PROVE  AloneInv'
  <2> DEFINE q == [req[r] EXCEPT !.lidar = p, !.got = got]
  <2>1. q \in Request /\ req' = [req EXCEPT ![r] = q]
    BY <1>1, <1>5 DEF Request, Parts
  <2>2. /\ q.at = "work" /\ q.alone = req[r].alone /\ q.kind = req[r].kind /\ ~q.success /\ q.berth = req[r].berth
        /\ q.laser = req[r].laser /\ q.configured = req[r].configured /\ q.auto = req[r].auto
        /\ q.lidar = p /\ q.got = got
    BY <1>1, <1>3, <1>4 DEF Request
  <2> HIDE DEF q
  <2>3. req'[r] = q
    BY <2>1 DEF RequestInv, RequestTypeOK
  <2>4. Staged(q)
    BY <1>1, <2>2 DEF Staged
  <2>5. ASSUME req[r].alone PROVE GoesWell(r)'
    <3>1. PartsAsked(r)'
      BY <1>2, <1>3, <2>2, <2>3, <2>5 DEF AloneInv, GoesWell, PartsAsked, LaserPart, LidarPart
    <3>2. CASE req[r].kind = "start"
      <4>1. StartGoesWell(r) /\ (p = "good" => SensorsOf[req[r].berth] \subseteq lidarOn' /\ got # {})
        BY <1>5, <2>5, <3>2 DEF AloneInv, GoesWell
      <4>2. StartGoesWell(r)'
        BY <1>2, <1>3, <2>2, <2>3, <4>1 DEF StartGoesWell, Gains, LaserGained
      <4> QED  BY <2>2, <2>3, <3>1, <3>2, <4>2 DEF GoesWell
    <3>3. CASE req[r].kind = "stop"
      <4>1. StopGoesWell(r) /\ (p = "good" => lidarOn' = {})
        BY <1>5, <2>5, <3>3 DEF AloneInv, GoesWell
      <4>2. StopGoesWell(r)'
        BY <1>2, <1>3, <2>2, <2>3, <4>1 DEF StopGoesWell, Loses, LaserGone
      <4> QED  BY <2>2, <2>3, <3>1, <3>3, <4>2 DEF GoesWell
    <3> QED  BY <1>3, <3>2, <3>3
  <2> QED  BY <1>3, <1>4, <2>1, <2>2, <2>4, <2>5, OneMoves
<1>6. ASSUME NEW p \in {"good", "bad", "exception"}, req' = [req EXCEPT ![r].lidar = p],
             p = "good" => req[r].kind = "stop" /\ lidarOn' = {}
      PROVE  AloneInv'
  <2>1. [req[r] EXCEPT !.lidar = p] = [req[r] EXCEPT !.lidar = p, !.got = req[r].got] /\ req[r].got \in SUBSET Sensors
    BY <1>1 DEF Request
  <2> QED  BY <1>5, <1>6, <2>1
<1>7. CASE LidarEnabled(r)
  <2>1. PICK on \in SUBSET SensorsOf[req[r].berth] :
          req' = [req EXCEPT ![r].lidar = IF on = {} THEN "bad" ELSE "good", ![r].got = on]
    BY <1>7 DEF LidarEnabled
  <2>2. lidarOn' = lidarOn \cup SensorsOf[req[r].berth] /\ req[r].kind = "start"
    BY <1>7 DEF LidarEnabled
  <2>3. SensorsOf[req[r].berth] \subseteq Sensors
    BY <1>1, <1>3, OperationAssumption DEF Fits
  <2> DEFINE p == IF on = {} THEN "bad" ELSE "good"
  <2>4. req' = [req EXCEPT ![r] = [req[r] EXCEPT !.lidar = p, !.got = on]] /\ p \in {"good", "bad", "exception"}
        /\ (p = "good" => on # {})
    BY <2>1
  <2> HIDE DEF p
  <2> QED  BY <1>5, <2>2, <2>3, <2>4
<1>8. CASE LidarDisabled(r)
  <2> DEFINE p == IF lidarOn' = {} THEN "good" ELSE "bad"
  <2>1. req' = [req EXCEPT ![r].lidar = p] /\ req[r].kind = "stop"
    BY <1>8 DEF LidarDisabled
  <2>2. p \in {"good", "bad", "exception"} /\ (p = "good" => lidarOn' = {})
    OBVIOUS
  <2> HIDE DEF p
  <2> QED  BY <1>6, <2>1, <2>2
<1>9. CASE LidarRaises(r)
  BY <1>6, <1>9 DEF LidarRaises
<1> QED  BY <1>7, <1>8, <1>9

(* The results of an undisturbed request are those of its parts.            *)
LEMMA ResultsRead ==
  ASSUME NEW r \in Callers, PartsAsked(r), req[r].lidar \in {"none", "good", "bad", "exception"},
         req[r].laser \in {"none", "yes", "no"}
  PROVE  /\ ~Misread(r)
         /\ LaserSuccess(r) => req[r].laser \in {"none", "yes"}
         /\ LidarSuccess(r) => req[r].lidar \in {"none", "good"}
<1> DEFINE l == req[r].laser
           d == req[r].lidar
<1>1. CASE l # "none" /\ d # "none"
  <2>a. Results(r) = <<l>> \o <<d>>
    BY <1>1, Zenon DEF Results
  <2>b. <<l>> \in Seq({l, d}) /\ <<d>> \in Seq({l, d}) /\ Len(<<l>>) = 1 /\ Len(<<d>>) = 1
    OBVIOUS
  <2>2. LaserPart(r) /\ LidarPart(r) /\ LidarIndex(r) = 2
    BY <1>1 DEF PartsAsked, LidarIndex
  <2>3. Len(Results(r)) = 2 /\ Results(r)[1] = l /\ Results(r)[2] = d /\ Results(r) # <<>>
    BY <2>a, <2>b
  <2> QED  BY <1>1, <2>2, <2>3 DEF Misread, LaserSuccess, LidarSuccess
<1>2. CASE l # "none" /\ d = "none"
  <2>1. Results(r) = <<l>>
    BY <1>2 DEF Results
  <2>2. LaserPart(r) /\ ~LidarPart(r)
    BY <1>2 DEF PartsAsked
  <2>3. Results(r)[1] = l /\ Results(r) # <<>>
    BY <2>1
  <2> QED  BY <1>2, <2>2, <2>3 DEF Misread, LaserSuccess, LidarSuccess
<1>3. CASE l = "none" /\ d # "none"
  <2>1. Results(r) = <<d>>
    BY <1>3 DEF Results
  <2>2. ~LaserPart(r) /\ LidarPart(r) /\ LidarIndex(r) = 1
    BY <1>3 DEF PartsAsked, LidarIndex
  <2>3. Len(Results(r)) = 1 /\ Results(r)[1] = d /\ Results(r) # <<>>
    BY <2>1
  <2> QED  BY <1>3, <2>2, <2>3 DEF Misread, LaserSuccess, LidarSuccess
<1>4. CASE l = "none" /\ d = "none"
  <2>1. ~LidarPart(r)
    BY <1>4 DEF PartsAsked
  <2> QED  BY <1>4, <2>1 DEF Misread
<1> QED  BY <1>1, <1>2, <1>3, <1>4

(* The gather is over: r answers, or waits for the streamer.  What stands   *)
(* of its parts stands on.                                                  *)
LEMMA EndAlone ==
  ASSUME RequestInv, AloneInv, NEW r \in Callers, NEW at \in {"stopping", "answer"}, NEW ok \in BOOLEAN,
         req[r].at \in {"work", "stopping"},
         req' = [req EXCEPT ![r] = [req[r] EXCEPT !.at = at, !.success = ok]],
         at = "stopping" => req[r].kind # "start",
         EndedBySomeStop', stopping'[r] # 0 => at = "stopping",
         \A k \in Callers \ {r} : stopping'[k] = stopping[k],
         UNCHANGED <<laserVars, use, lidarOn>>,
         req[r].alone /\ ok /\ req[r].kind \in {"start", "stop"} => Settled(req[r]) /\ PartsAsked(r),
         req[r].alone /\ ok /\ req[r].kind = "start" => (req[r].lidar # "none" /\ req[r].auto => Streaming'),
         req[r].alone /\ ok /\ req[r].kind = "stop" /\ at = "answer" /\ lost' = {} => \A s \in Streams : ~Live(s)'
  PROVE  AloneInv'
<1>1. req[r] \in Request /\ Staged(req[r])
  BY DEF RequestInv, RequestTypeOK, AloneInv, Stages
<1> DEFINE q == [req[r] EXCEPT !.at = at, !.success = ok]
<1>2. q \in Request
  BY <1>1 DEF Request
<1>3. /\ q.at = at /\ q.alone = req[r].alone /\ q.kind = req[r].kind /\ q.success = ok /\ q.berth = req[r].berth
      /\ q.laser = req[r].laser /\ q.lidar = req[r].lidar /\ q.got = req[r].got /\ q.auto = req[r].auto
      /\ q.configured = req[r].configured
  BY <1>1 DEF Request
<1> HIDE DEF q
<1>4. req'[r] = q
  BY <1>3 DEF RequestInv, RequestTypeOK, q
<1>5. Staged(q)
  BY <1>1, <1>3 DEF Staged
<1>6. ASSUME req[r].alone PROVE GoesWell(r)'
  <2>1. req[r].kind \in {"start", "stop"} /\ ok => PartsAsked(r)'
    BY <1>3, <1>4, <1>6 DEF PartsAsked, LaserPart, LidarPart
  <2>2. CASE req[r].kind = "start"
    <3>1. StartGoesWell(r)
      BY <1>6, <2>2 DEF AloneInv, GoesWell
    <3>2. StartGoesWell(r)'
      BY <1>3, <1>4, <1>6, <2>2, <3>1 DEF StartGoesWell, Gains, LaserGained, laserVars, Settled
    <3> QED  BY <1>3, <1>4, <2>1, <2>2, <3>2 DEF GoesWell
  <2>3. CASE req[r].kind = "stop"
    <3>1. StopGoesWell(r)
      BY <1>6, <2>3 DEF AloneInv, GoesWell
    <3>2. StopGoesWell(r)'
      BY <1>3, <1>4, <1>6, <2>3, <3>1 DEF StopGoesWell, Loses, LaserGone, laserVars, Settled
    <3> QED  BY <1>3, <1>4, <2>1, <2>3, <3>2 DEF GoesWell
  <2>4. CASE req[r].kind \notin {"start", "stop"}
    BY <1>3, <1>4, <2>4 DEF GoesWell
  <2> QED  BY <2>2, <2>3, <2>4
<1> QED  BY <1>2, <1>3, <1>5, <1>6, OneMoves DEF q

(* Without a stream that the service knows and that lives, none lives.      *)
LEMMA NoneLives ==
  ASSUME StreamInv, ~Streaming, lost = {}, NEW s \in Streams
  PROVE  ~Live(s)
BY DbStreamerAssumption DEF Streaming, StreamInv, OneStream

(* The results of the gather make the answer.                               *)
LEMMA GatheredAlone ==
  ASSUME RequestInv, StreamInv, AloneInv, NEW r \in Callers, Gathered(r) \/ ShutdownStreams(r)
  PROVE  AloneInv'
<1>1. /\ req[r].at = "work" /\ req[r].laser # "busy" /\ req[r].lidar # "busy"
      /\ req[r].kind \in {"start", "stop", "shutdown"} /\ UNCHANGED <<laserVars, use, lidarOn>>
  BY DEF Gathered, ShutdownStreams, RequestInv, Fits
<1>2. Staged(req[r]) /\ req[r] \in Request /\ stopping[r] = 0
  BY <1>1 DEF AloneInv, Stages, RequestInv, RequestTypeOK
<1>3. req[r].laser \in {"none", "yes", "no"} /\ req[r].lidar \in {"none", "good", "bad", "exception"}
      /\ req[r].got \in SUBSET Sensors
  BY <1>1, <1>2 DEF Staged, Request
<1>4. ASSUME req[r].alone, req[r].kind \in {"start", "stop"}
      PROVE  /\ PartsAsked(r) /\ ~Misread(r)
             /\ LaserSuccess(r) /\ LidarSuccess(r) => Settled(req[r])
  BY <1>1, <1>3, <1>4, ResultsRead DEF AloneInv, GoesWell, Settled
<1>5. ASSUME NEW ok \in BOOLEAN, StopsStreamer(r, ok), req[r].kind \in {"stop", "shutdown"},
             req[r].alone /\ ok /\ req[r].kind = "stop" => Settled(req[r])
      PROVE  AloneInv'
  <2> DEFINE at == IF Streaming THEN "stopping" ELSE "answer"
  <2>1. req' = [req EXCEPT ![r] = [req[r] EXCEPT !.at = at, !.success = ok]] /\ at \in {"stopping", "answer"}
        /\ (at = "answer" <=> ~Streaming)
    BY <1>5 DEF StopsStreamer
  <2>2. /\ EndedBySomeStop' /\ UNCHANGED lost
        /\ \A k \in Callers \ {r} : stopping'[k] = stopping[k]
        /\ Streaming \/ UNCHANGED <<stream, stopping>>
        /\ \A s \in Streams : Live(s)' <=> Live(s)
    BY <1>5, StopStreamingEnded DEF StopsStreamer, AloneInv
  <2> HIDE DEF at
  <2>3. at = "answer" /\ lost' = {} => \A s \in Streams : ~Live(s)'
    BY <2>1, <2>2, NoneLives
  <2>4. stopping'[r] # 0 => at = "stopping"
    BY <1>2, <2>1, <2>2
  <2> QED  BY <1>1, <1>4, <1>5, <2>1, <2>2, <2>3, <2>4, EndAlone
<1>6. ASSUME Answer(r, FALSE) \/ (Answer(r, TRUE) /\ req[r].kind = "shutdown"), UNCHANGED streamVars PROVE AloneInv'
  <2>1. EndedBySomeStop' /\ UNCHANGED stopping
    BY <1>6, StreamStill DEF AloneInv, streamVars
  <2>2. ASSUME NEW ok \in BOOLEAN, Answer(r, ok), ok => req[r].kind = "shutdown" PROVE AloneInv'
    <3>1. req' = [req EXCEPT ![r] = [req[r] EXCEPT !.at = "answer", !.success = ok]]
      BY <2>2 DEF Answer
    <3> QED  BY <1>1, <1>2, <2>1, <2>2, <3>1, EndAlone
  <2>3. TRUE \in BOOLEAN /\ FALSE \in BOOLEAN
    OBVIOUS
  <2> QED  BY <1>6, <2>2, <2>3
<1>7. CASE Gathered(r) /\ req[r].kind = "start" /\ StartGathered(r)
  <2> DEFINE ids == IF req[r].auto /\ LidarPart(r) /\ ~Misread(r) THEN req[r].got ELSE {}
             ok == ~Misread(r) /\ LaserSuccess(r) /\ LidarSuccess(r)
  <2>1. StartStreaming(ids) /\ Answer(r, ok) /\ ids \in SUBSET Sensors /\ ok \in BOOLEAN
    BY <1>3, <1>7 DEF StartGathered
  <2>2. EndedBySomeStop' /\ UNCHANGED stopping /\ (ids # {} => Streaming')
    <3> HIDE DEF ids
    <3> QED  BY <2>1, StartStreamingEnded DEF AloneInv
  <2>3. req[r].alone /\ ok => Settled(req[r]) /\ PartsAsked(r)
    BY <1>4, <1>7
  <2>4. ASSUME req[r].alone, ok, req[r].lidar # "none", req[r].auto PROVE Streaming'
    <3>1. req[r].lidar = "good" /\ LidarPart(r) /\ ~Misread(r)
      BY <1>7, <1>4, <2>3, <2>4 DEF Settled, PartsAsked
    <3>2. ids = req[r].got /\ req[r].got # {}
      BY <1>7, <2>4, <3>1 DEF AloneInv, GoesWell, StartGoesWell
    <3> QED  BY <2>2, <3>2
  <2>5. req' = [req EXCEPT ![r] = [req[r] EXCEPT !.at = "answer", !.success = ok]]
    BY <2>1 DEF Answer
  <2> HIDE DEF ids, ok
  <2> QED  BY <1>1, <1>2, <1>7, <2>1, <2>2, <2>3, <2>4, <2>5, EndAlone
<1>8. CASE Gathered(r) /\ req[r].kind = "stop" /\ StopGathered(r)
  <2>1. CASE Misread(r)
    BY <1>6, <1>8, <2>1 DEF StopGathered
  <2>2. CASE ~Misread(r)
    <3> DEFINE ok == LaserSuccess(r) /\ LidarSuccess(r)
    <3>1. ok \in BOOLEAN
      BY DEF LaserSuccess, LidarSuccess
    <3>2. StopsStreamer(r, ok)
      BY <1>8, <2>2 DEF StopGathered
    <3>3. req[r].alone /\ ok => Settled(req[r])
      BY <1>4, <1>8
    <3> HIDE DEF ok
    <3> QED  BY <1>5, <1>8, <3>1, <3>2, <3>3
  <2> QED  BY <2>1, <2>2
<1>9. CASE ShutdownStreams(r)
  <2>1. TRUE \in BOOLEAN /\ req[r].kind = "shutdown"
    BY <1>9 DEF ShutdownStreams
  <2>2. CASE Answer(r, TRUE) /\ UNCHANGED streamVars
    BY <1>6, <2>1, <2>2
  <2>3. CASE StopsStreamer(r, TRUE)
    BY <1>5, <2>1, <2>3
  <2> QED  BY <1>9, <2>2, <2>3 DEF ShutdownStreams
<1> QED  BY <1>7, <1>8, <1>9 DEF Gathered

(* A stop resumes after the stream has ended.                               *)
LEMMA StreamerStoppedAlone ==
  ASSUME RequestInv, StreamInv, AloneInv, NEW r \in Callers, StreamerStopped(r)
  PROVE  AloneInv'
<1>1. req[r] \in Request /\ Staged(req[r]) /\ req[r].at = "stopping" /\ req[r].success \in BOOLEAN
  BY DEF StreamerStopped, RequestInv, RequestTypeOK, Request, AloneInv, Stages
<1>2. [req[r] EXCEPT !.at = "answer"] = [req[r] EXCEPT !.at = "answer", !.success = req[r].success]
  BY <1>1 DEF Request
<1>3. req' = [req EXCEPT ![r] = [req[r] EXCEPT !.at = "answer", !.success = req[r].success]]
  BY <1>2 DEF StreamerStopped
<1>4. /\ EndedBySomeStop'
      /\ stopping'[r] = 0 /\ \A k \in Callers \ {r} : stopping'[k] = stopping[k]
      /\ lost' = {} => \A s \in Streams : ~Live(s)'
  BY StopStreamingEndsEnded DEF StreamerStopped, AloneInv
<1>5. UNCHANGED <<laserVars, use, lidarOn>> /\ req[r].kind # "start"
  BY <1>1 DEF StreamerStopped, Staged
<1>6. ASSUME req[r].alone, req[r].success, req[r].kind = "stop" PROVE Settled(req[r]) /\ PartsAsked(r)
  BY <1>6 DEF AloneInv, GoesWell, StopGoesWell
<1> QED  BY <1>1, <1>3, <1>4, <1>5, <1>6, EndAlone

(* An answer makes its caller idle again.                                   *)
LEMMA AnswersAlone ==
  ASSUME RequestInv, AloneInv, NEW r \in Callers, Answers(r)
  PROVE  AloneInv'
<1>1. req[r].at = "answer" /\ req' = [req EXCEPT ![r] = Idle] /\ UNCHANGED streamVars
  BY DEF Answers
<1>2. EndedBySomeStop' /\ UNCHANGED stopping /\ stopping[r] = 0
  BY <1>1, StreamStill DEF AloneInv, Stages, streamVars
<1>3. Staged(Idle) /\ ~Idle.alone
  BY DEF Idle, Staged
<1> QED  BY <1>1, <1>2, <1>3, IdleType, OneMoves

(* The call of an undisturbed request is the only one.                      *)
LEMMA CallStepAlone ==
  ASSUME RequestInv, ClientInv, AloneInv, NEW r \in Callers, CallStep(r), UNCHANGED <<streamVars, operationVars>>
  PROVE  AloneInv'
<1>1. Fits(req[r], call[r]) /\ req[r] \in Request /\ Staged(req[r]) /\ LaserTypeOK
  BY DEF RequestInv, RequestTypeOK, AloneInv, Stages, ClientInv
<1>2. call[r].op # "none"
  BY <1>1 DEF Fits, CallStep, Connect, ConnectStarts, Disconnect, DriftPosts, NotDrifting, ServiceTakes,
                 DriftAnswered, DriftFails, Sync, SyncSets, SyncMakes, SyncStarts, SyncRaises, Unsync, UnsyncTries,
                 UnsyncJoins, At
<1>3. req[r].at = "work" /\ req[r].laser = "busy" /\ ~req[r].success
  BY <1>1, <1>2 DEF Fits, Staged
<1>4. EndedBySomeStop' /\ UNCHANGED stopping /\ stopping[r] = 0
  BY <1>3, StreamStill DEF AloneInv, Stages, streamVars
<1>5. UNCHANGED <<req, use, lidarOn>> /\ req' = [req EXCEPT ![r] = req[r]] /\ lm'.berth = lm.berth
  BY <1>1, CallStepTypes DEF operationVars, RequestInv, RequestTypeOK
<1>6. ASSUME req[r].alone PROVE GoesWell(r)'
  <2>1. GoesWell(r)
    BY <1>6 DEF AloneInv
  <2>2. PartsAsked(r) => PartsAsked(r)'
    BY <1>5 DEF PartsAsked, LaserPart, LidarPart
  <2>3. CASE req[r].kind = "start"
    <3>1. StartGoesWell(r) /\ PartsAsked(r) /\ call[r].op \in Starts
      BY <1>1, <1>3, <2>1, <2>3 DEF GoesWell, Fits
    <3>2. lm.berth = req[r].berth /\ req[r].berth \in Berths
      BY <1>2, <1>3, <3>1 DEF StartGoesWell, PartsAsked, LaserPart, RequestInv, BerthKnown
    <3>3. PICK b \in Berths : b = req[r].berth
      BY <3>2
    <3>4. Gains(b, call[r])'
      BY <1>1, <1>3, <3>1, <3>2, <3>3, CallGains DEF StartGoesWell
    <3>5. StartGoesWell(r)'
      BY <1>3, <1>5, <3>1, <3>3, <3>4 DEF StartGoesWell
    <3> QED  BY <1>5, <2>2, <2>3, <3>1, <3>5 DEF GoesWell
  <2>4. CASE req[r].kind = "stop"
    <3>1. StopGoesWell(r) /\ PartsAsked(r) /\ call[r].op \in Stops
      BY <1>1, <1>3, <2>1, <2>4 DEF GoesWell, Fits
    <3>2. Loses(call[r])'
      BY <1>1, <1>3, <3>1, CallLoses DEF StopGoesWell
    <3>3. StopGoesWell(r)'
      BY <1>3, <1>5, <3>1, <3>2 DEF StopGoesWell
    <3> QED  BY <1>5, <2>2, <2>4, <3>1, <3>3 DEF GoesWell
  <2>5. CASE req[r].kind \notin {"start", "stop"}
    BY <1>5, <2>5 DEF GoesWell
  <2> QED  BY <2>3, <2>4, <2>5
<1> QED  BY <1>1, <1>3, <1>4, <1>5, <1>6, OneMoves

(* Threads and stream tasks take nothing of what a request stands on.       *)
LEMMA BackgroundAlone ==
  ASSUME RequestInv, ClientInv, StreamInv, AloneInv, Background
  PROVE  AloneInv'
<1>1. UNCHANGED operationVars /\ UNCHANGED <<lm, call, drifting>>
  <2>1. ASSUME LaserThreads PROVE UNCHANGED <<lm, call, drifting>>
    BY <2>1 DEF LaserThreads, CoordEnds, ListenerDials, ListenerLeaves
  <2> QED  BY <2>1 DEF Background, laserVars
<1>2. /\ EndedBySomeStop' /\ UNCHANGED <<stopping, lost>>
      /\ \A k \in Streams : Live(k)' => Live(k)
      /\ Streaming /\ (\A r \in Callers : stopping[r] = 0) => Streaming'
  <2>1. CASE UNCHANGED streamVars
    BY <2>1, StreamStill DEF AloneInv, streamVars, Live, Streaming
  <2>2. CASE StreamTasks
    BY <2>2, StreamTasksEnded DEF AloneInv
  <2> QED  BY <2>1, <2>2 DEF Background
<1>3. Undisturbed' /\ Stages'
  BY <1>1, <1>2 DEF AloneInv, Undisturbed, Stages, operationVars
<1>4. ASSUME NEW r \in Callers, req[r].alone PROVE GoesWell(r)'
  <2>1. GoesWell(r)
    BY <1>4 DEF AloneInv
  <2>2. PartsAsked(r) => PartsAsked(r)'
    BY <1>1 DEF PartsAsked, LaserPart, LidarPart, operationVars
  <2>3. CASE req[r].kind = "start"
    <3>1. \A k \in Callers : stopping[k] = 0
      BY <1>4, <2>3 DEF AloneInv, Undisturbed, Stages, Staged
    <3>2. Streaming => Streaming'
      BY <1>2, <3>1
    <3>3. StartGoesWell(r)
      BY <2>1, <2>3 DEF GoesWell
    <3>4. StartGoesWell(r)'
      BY <1>1, <3>2, <3>3 DEF StartGoesWell, Gains, LaserGained, Settled, operationVars
    <3> QED  BY <1>1, <2>1, <2>2, <2>3, <3>4 DEF GoesWell, operationVars
  <2>4. CASE req[r].kind = "stop"
    <3>1. StopGoesWell(r)
      BY <2>1, <2>4 DEF GoesWell
    <3>2. StopGoesWell(r)'
      BY <1>1, <1>2, <3>1 DEF StopGoesWell, Loses, LaserGone, Settled, operationVars
    <3> QED  BY <1>1, <2>1, <2>2, <2>4, <3>2 DEF GoesWell, operationVars
  <2>5. CASE req[r].kind \notin {"start", "stop"}
    BY <1>1, <2>5 DEF GoesWell, operationVars
  <2> QED  BY <2>3, <2>4, <2>5
<1> QED  BY <1>1, <1>2, <1>3, <1>4 DEF AloneInv, operationVars

LEMMA AloneInit == Init => AloneInv
<1> SUFFICES ASSUME Init PROVE AloneInv
  OBVIOUS
<1>1. Undisturbed /\ Stages /\ \A r \in Callers : ~req[r].alone
  BY OperationAssumption DEF Init, StreamInit, Undisturbed, Stages, Staged, Idle
<1>2. EndedBySomeStop
  BY DEF Init, StreamInit, EndedBySomeStop, Streaming
<1> QED  BY <1>1, <1>2 DEF AloneInv

LEMMA AloneStep == IInv /\ AloneInv /\ [Next]_vars => AloneInv'
<1> SUFFICES ASSUME IInv, AloneInv, [Next]_vars PROVE AloneInv'
  OBVIOUS
<1> RequestInv /\ ClientInv /\ StreamInv
  BY DEF IInv
<1>1. ASSUME NEW r \in Callers, Begin(r) \/ Continue(r) PROVE AloneInv'
  BY <1>1, BeginAlone, QueryAlone, ReturnedAlone, LidarAlone, AnswersAlone, GatheredAlone DEF Continue
<1>2. ASSUME NEW r \in Callers, Gathered(r) \/ StreamerStopped(r) PROVE AloneInv'
  BY <1>2, GatheredAlone, StreamerStoppedAlone
<1>3. ASSUME NEW r \in Callers, CallStep(r), UNCHANGED <<streamVars, operationVars>> PROVE AloneInv'
  BY <1>3, CallStepAlone
<1>4. CASE UNCHANGED vars
  <2>1. EndedBySomeStop'
    BY <1>4, StreamStill DEF AloneInv, vars
  <2> QED  BY <1>4, <2>1 DEF AloneInv, Undisturbed, Stages, GoesWell, StartGoesWell, StopGoesWell, PartsAsked,
                 LaserPart, LidarPart, Gains, Loses, LaserGained, LaserGone, Live, Streaming,
                 vars, laserVars, streamVars, operationVars
<1> QED  BY <1>1, <1>2, <1>3, <1>4, BackgroundAlone DEF Next

(* What stands when r answers is what the answer promises.                  *)
LEMMA AloneDelivers ==
  ASSUME IInv, AloneInv
  PROVE  AnswersDeliver
<1> StreamInv
  BY DEF IInv
<1>1. ASSUME NEW r \in Callers, req[r].at = "answer", req[r].kind = "start", req[r].success, req[r].alone
      PROVE  /\ req[r].laser # "none" => lm.conn /\ lm.sync /\ lm.drift /\ req[r].berth \in drifting
             /\ req[r].lidar # "none" => SensorsOf[req[r].berth] \subseteq lidarOn
             /\ req[r].lidar # "none" /\ req[r].auto => Streaming
  BY <1>1 DEF AloneInv, GoesWell, StartGoesWell, LaserGained, Settled
<1>2. ASSUME NEW r \in Callers, req[r].at = "answer", req[r].kind = "stop", req[r].success, req[r].alone,
             req[r].configured
      PROVE  /\ req[r].berth \in HasLasers => ~lm.conn /\ ~lm.sync /\ ~lm.drift
             /\ SensorsOf[req[r].berth] \cap lidarOn = {}
             /\ lost = {} => \A s \in Streams, x \in Sensors: consumer[s][x] # "runs"
  <2>1. StopGoesWell(r) /\ PartsAsked(r)
    BY <1>2 DEF AloneInv, GoesWell
  <2>2. use.laser /\ use.lidar /\ Settled(req[r])
    BY <1>2, <2>1 DEF StopGoesWell
  <2>3. req[r].berth \in HasLasers => LaserGone
    BY <2>1, <2>2 DEF StopGoesWell, PartsAsked, LaserPart, Settled
  <2>4. SensorsOf[req[r].berth] # {} => lidarOn = {}
    BY <2>1, <2>2 DEF StopGoesWell, PartsAsked, LidarPart, Settled
  <2>5. lost = {} => \A s \in Streams : ~Live(s)
    BY <1>2, <2>1 DEF StopGoesWell
  <2>6. lost = {} => \A s \in Streams, x \in Sensors: consumer[s][x] # "runs"
    BY <2>5 DEF StreamInv, OneStream, Live
  <2> QED  BY <2>3, <2>4, <2>6 DEF LaserGone
<1> QED  BY <1>1, <1>2 DEF AnswersDeliver, StartDelivers, StopDelivers

(* A start that answers success and that no other request overlapped has    *)
(* switched on all it was asked for, and a stop of the berth configured     *)
(* last leaves nothing of it; calls of the client, its threads and the      *)
(* tasks of the streamer go on meanwhile as they like.                      *)
THEOREM AnswersHold == Spec => []AnswersDeliver
<1>1. Init => IInv /\ AloneInv
  BY OperationInit, AloneInit
<1>2. IInv /\ AloneInv /\ [Next]_vars => (IInv /\ AloneInv)'
  BY OperationStep, AloneStep
<1>3. IInv /\ AloneInv => AnswersDeliver
  BY AloneDelivers
<1> QED  BY <1>1, <1>2, <1>3, PTL DEF Spec
=============================================================================
