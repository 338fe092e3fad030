-------------------------- MODULE MCDeviceShutdown --------------------------
(* Two devices whose shutdown handlers follow each other while the queue of *)
(* the second one has work.                                                 *)
EXTENDS DeviceShutdown, TLC

CONSTANTS d1, d2, t1, t2, t3, t4

TaskSymmetry == Permutations(Tasks)

AllOfTwo == [t \in Tasks |-> d2]

(* The first device is up before the second one is initialized, so its      *)
(* handler is the first to run.                                             *)
FirstUp ==
  /\ now = 0
  /\ scheduled_at = [t \in Tasks |-> 0]
  /\ pending_tasks = [d \in Devices |-> <<>>]
  /\ processing_tasks = [d \in Devices |-> {}]
  /\ completed_tasks = [t \in Tasks |-> "none"]
  /\ is_running = [d \in Devices |-> d = d1]
  /\ worker = [w \in Workers |->
                 IF Of(w) = d1 THEN Waiting ELSE [Waiting EXCEPT !.st = "none"]]
  /\ client = [t \in Tasks |-> "idle"]
  /\ init = [d \in Devices |-> IF d = d1 THEN "up" ELSE "new"]
  /\ device_running = [d \in Devices |-> d = d1]
  /\ heartbeat = [d \in Devices |-> IF d = d1 THEN "live" ELSE "none"]
  /\ pool = [d \in Devices |-> "open"]
  /\ run = [k \in Runs |-> "none"]
  /\ handlers = <<d1>>
  /\ phase = "starting"
  /\ todo = <<>>
  /\ ready = {}

FirstUpSpec == FirstUp /\ [][Next]_vars
=============================================================================
