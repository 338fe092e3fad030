SPECIFICATION FairSpec
CONSTANTS
  r1 = r1
  r2 = r2
  Sensors <- OneSensor
  Requests = {r1}
  Slots = {1}
  Coordinators = {1}
  Ops = {"enable", "disable"}
  Groups = {{1}}
  Initial = {1}
  MaxDiscoveries = 2
  MaxConnects = 2
  MaxStarts = 2
  NetworkFails = FALSE
  JoinsInTime = TRUE
  HeartbeatDies = TRUE
  ThreadsFail = FALSE
PROPERTIES DisablesReturn
CHECK_DEADLOCK FALSE
