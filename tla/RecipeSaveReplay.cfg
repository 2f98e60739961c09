\* Two calls with the same arguments and one key; the tag moves in between.
CONSTANTS
  Calls = {c1, c2}
  Keys = {k}
  Ids = {i1, i2}
  Images = {a, b}
  Oversize = {}
  Tagged = Tagged
  MaxPolls = 1
  None = None
SPECIFICATION Spec
INVARIANTS
  ReplayIsExact
