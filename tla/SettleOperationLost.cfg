CONSTANTS
  Second = 1
  WaitSeconds = {3}
  RetryAfter = {1}
  RequestTime = 1
SPECIFICATION Spec
INVARIANTS
  OperationNotLost
CHECK_DEADLOCK FALSE
