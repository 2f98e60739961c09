CONSTANTS
  MaxSize = 1
  Versions = {v1}
  Planes = {"api"}
  MaxAttempts = 3
  None = None
SPECIFICATION Spec
INVARIANTS
  FailedTransferAborted
CHECK_DEADLOCK FALSE
