SPECIFICATION FairSpec
CONSTANTS
  d1 = d1
  d2 = d2
  t1 = t1
  t2 = t2
  t3 = t3
  t4 = t4
  Devices = {d1, d2}
  Tasks = {t2, t3}
  MaxWorkers = 1
  MaxQueueSize = 1
  MaxAttempts = 1
  Delays = {0}
  MaxTick = 0
  DeviceOf <- AllOfTwo
  NoTask = NoTask
PROPERTIES
  ShutdownEnds
CHECK_DEADLOCK FALSE
