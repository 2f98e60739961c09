CONSTANTS
  Second = 4
  WaitSeconds = {0, 1, 3, 30}
  RetryAfter = {1, 28, 160}
  RequestTime = 12
SPECIFICATION Spec
INVARIANTS
  TypeOK
  EndTruthful
  WaitKept
  PollsPaced
CHECK_DEADLOCK FALSE
