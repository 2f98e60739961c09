CONSTANTS
  Calls = {c1}
  Size = 1
  Other = Other
SPECIFICATION Spec
INVARIANTS
  NothingSavedIsTrue
CHECK_DEADLOCK FALSE
