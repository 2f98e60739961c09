CONSTANTS
  Calls = {c1, c2}
  Size = 1
  Other = Other
SPECIFICATION FairSpec
INVARIANTS
  TypeOK
  NeverPartial
  NothingLeftBehind
PROPERTIES
  SavesAtomically
  DownloadEnds
CHECK_DEADLOCK FALSE
