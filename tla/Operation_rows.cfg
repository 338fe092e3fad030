SPECIFICATION FairSpec
CONSTANTS
  r1 = r1
  r2 = r2
  s1 = s1
  s2 = s2
  Callers = {r1}
  Stoppers = {r1}
  Berths = {1, 2}
  NoBerth = NoBerth
  Listeners = {1, 2}
  Coords = {1, 2}
  Sensors = {s1, s2}
  Streams = {1, 2}
  HasLasers = {}
  SensorsOf <- OneLidarEach
  Uses <- BothUsed
  Types = {"BERTH"}
  BerthingIds = {3}
  Kinds = {"start", "stop", "shutdown"}
  MaxRequests = 3
CHECK_DEADLOCK FALSE
PROPERTY RowsStored
