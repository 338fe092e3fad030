SPECIFICATION FairSpec
CONSTANTS
  r1 = r1
  r2 = r2
  Requests <- RequestSet
  Readers = {1, 2}
  QueueMax = 1
  MaxLines = 3
  Cuts = {1}
  StartModes = {"VT"}
  Settings = 1
  Ops = {"start", "stop", "resume"}
PROPERTIES ResumeReturns
CHECK_DEADLOCK FALSE
