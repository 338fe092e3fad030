SPECIFICATION FairSpec
CONSTANTS
  r1 = r1
  r2 = r2
  Requests = {r1, r2}
  Lasers <- OneLaser
  BerthOf <- AtBerthOne
  Berths = {1}
  Bids = {1}
  Tasks = {1, 2}
  Ops = {"start", "stop", "shutdown"}
  StartAttempts = 2
  RestartAttempts = 1
  ModeAttempts = 1
  CancelCanBeLost = TRUE
CHECK_DEADLOCK FALSE
PROPERTIES RequestsReturn OrphansEnd
