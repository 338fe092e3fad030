SPECIFICATION Spec
CONSTANTS
  Callers = {c1}
  FailureThreshold = 2
  SuccessThreshold = 2
  Timeout = 1
  RecoveryTimeout = 2
  MaxAttempts = 2
  BaseDelay = 1
  MaxDelay = 2
  Streams = {s1, s2}
  MaxPending = 2
  Keeper = Keeper
  NoStream = NoStream
  Nobody = Nobody
PROPERTY AnswerIsOwn
