SPECIFICATION Spec
CONSTANTS
  r1 = r1
  r2 = r2
  Requests = {r1}
  Lasers <- TwoLasers
  BerthOf <- AtBerthOne
  Berths = {1}
  Bids = {1, 2}
  Tasks = {1, 2}
  Ops = {"start", "stop", "restart"}
  StartAttempts = 2
  RestartAttempts = 1
  ModeAttempts = 1
  CancelCanBeLost = TRUE
INVARIANT QuietAgreement
