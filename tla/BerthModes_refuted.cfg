SPECIFICATION Spec
CONSTANTS
  r1 = r1
  r2 = r2
  Requests = {r1, r2}
  Lasers <- OneLaser
  BerthOf <- AtBerthOne
  Berths = {1}
  Bids = {1}
  Tasks = {1, 2}
  Ops = {"start", "stop", "restart", "drift"}
  StartAttempts = 1
  RestartAttempts = 1
  ModeAttempts = 1
  CancelCanBeLost = TRUE
\* Each of these is refuted; TLC stops at the first, so one is to be active.
INVARIANT NoneLeftBerthing
\* PROPERTY DriftNotStored
