SPECIFICATION FairSpec
CONSTANTS
  r1 = r1
  r2 = r2
  Sensors <- OneSensor
  Requests = {r1, r2}
  Slots = {1}
  Coordinators = {1}
  Ops = {"enable", "disable", "auto", "connect", "disconnect", "stream"}
  Groups = {{1}}
  Initial = {1}
  MaxDiscoveries = 2
  MaxConnects = 2
  MaxStarts = 2
  NetworkFails = TRUE
  JoinsInTime = TRUE
  HeartbeatDies = TRUE
  ThreadsFail = TRUE
INVARIANTS TypeOK
PROPERTIES DisableDelivers LidarRequestsReturn CapturesEnd
CHECK_DEADLOCK FALSE
