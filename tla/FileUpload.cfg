CONSTANTS
  MaxSize = 2
  Versions = {v1, v2}
  Planes = {"token", "api"}
  MaxAttempts = 2
  None = None
SPECIFICATION FairSpec
INVARIANTS
  TypeOK
  CompleteOnlyWhole
  UnpublishedStaysSo
  AbortTruthful
  SuccessMeansSource
  SendsBounded
PROPERTIES
  UploadEnds
CHECK_DEADLOCK FALSE
