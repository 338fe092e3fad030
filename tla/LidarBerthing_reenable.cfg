SPECIFICATION Spec
CONSTANTS
  r1 = r1
  r2 = r2
  Sensors <- TwoSensors
  Requests = {r1}
  Slots = {1}
  Coordinators = {1}
  Ops = {"enable", "disable"}
  Groups = {{1}, {2}}
  Initial = {1, 2}
  MaxDiscoveries = 2
  MaxConnects = 2
  MaxStarts = 2
  NetworkFails = FALSE
  JoinsInTime = TRUE
  HeartbeatDies = FALSE
  ThreadsFail = FALSE
PROPERTIES EnableStarts
