SPECIFICATION FirstRequestSpec
CONSTANTS
  r1 = r1
  r2 = r2
  s1 = s1
  s2 = s2
  Callers = {r1, r2}
  Stoppers = {r1, r2}
  Berths = {1, 2}
  NoBerth = NoBerth
  Listeners = {1, 2}
  Coords = {1, 2}
  Sensors = {s1, s2}
  Streams = {1, 2}
  HasLasers = {1}
  SensorsOf <- OneLidarEach
  Uses <- BothUsed
  Types = {"BERTH"}
  BerthingIds = {3}
  Kinds = {"start", "stop", "shutdown"}
  MaxRequests = 3
SYMMETRY Symmetry
CHECK_DEADLOCK FALSE
INVARIANTS FlagsBacked ConsumersOwned AnswersDeliver
