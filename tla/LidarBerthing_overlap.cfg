SPECIFICATION Spec
CONSTANTS
  r1 = r1
  r2 = r2
  Sensors <- TwoSensors
  Requests = {r1, r2}
  Slots = {1}
  Coordinators = {1, 2}
  Ops = {"enable", "disable", "stream", "disconnect"}
  Groups = {{1}, {2}}
  Initial = {1}
  MaxDiscoveries = 1
  MaxConnects = 1
  MaxStarts = 1
  NetworkFails = FALSE
  JoinsInTime = FALSE
  HeartbeatDies = FALSE
  ThreadsFail = TRUE
SYMMETRY Symmetry
INVARIANTS StreamBacked CoordinatorBacked EnabledIsSynced
