\* Two calls, the second of which may resume the first; a tag that may name
\* two documents, or one too long to be handed out; an API that may never end
\* a validation.
CONSTANTS
  Calls = {c1, c2}
  Keys = {k}
  Ids = {i1, i2}
  Images = {a, b, long}
  Oversize = {long}
  Tagged = Tagged
  MaxPolls = 1
  None = None
SPECIFICATION FairSpec
INVARIANTS
  TypeOK
  SentValidated
  PendingResumable
PROPERTIES
  CallEnds
