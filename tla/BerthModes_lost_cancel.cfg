SPECIFICATION FairSpec
CONSTANTS
  r1 = r1
  r2 = r2
  Requests = {r1}
  Lasers <- OneLaser
  BerthOf <- AtBerthOne
  Berths = {1}
  Bids = {1}
  Tasks = {1, 2}
  Ops = {"start", "stop"}
  StartAttempts = 1
  RestartAttempts = 1
  ModeAttempts = 1
  CancelCanBeLost = TRUE
PROPERTY StopsReturn
