SPECIFICATION Spec
CONSTANTS
  r1 = r1
  r2 = r2
  Requests = {r1, r2}
  Lasers <- OneLaser
  BerthOf <- AtBerthOne
  Berths = {1}
  Bids = {1}
  Tasks = {1, 2}
  Ops = {"start", "stop", "drift", "stop_drift", "off", "shutdown"}
  StartAttempts = 2
  RestartAttempts = 1
  ModeAttempts = 2
  CancelCanBeLost = TRUE
SYMMETRY Symmetry
CHECK_DEADLOCK FALSE
INVARIANTS TypeOK RegisteredIffActive RegistryRuns OneCommandPerDevice ModeBacked
