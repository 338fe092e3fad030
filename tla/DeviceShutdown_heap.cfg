SPECIFICATION Spec
CONSTANTS
  d1 = d1
  d2 = d2
  t1 = t1
  t2 = t2
  t3 = t3
  t4 = t4
  Devices = {d2}
  Tasks = {t1, t2, t3, t4}
  MaxWorkers = 1
  MaxQueueSize = 3
  MaxAttempts = 2
  Delays = {0, 1}
  MaxTick = 1
  DeviceOf <- AllOfTwo
  NoTask = NoTask
SYMMETRY TaskSymmetry
INVARIANTS
  NoTaskTwice
  ClosedAfterWorkers
  CompletedMeansClean
PROPERTIES
  LostOnlyByCancelOrTie
CHECK_DEADLOCK FALSE
