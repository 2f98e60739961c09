\* Two requests of the same or of two connections; grants that only read, and
\* that may change services and buy; tokens that are expired from the start
\* or expire on the way. Requests and tokens are only compared.
CONSTANTS
  Requests = {r1, r2}
  Tokens = {t1, t2}
  Tools <- MCTools
  Permissions <- MCPermissions
  OrderPermissions <- MCOrderPermissions
  Grants <- MCGrants
  ordersEnabled = TRUE
  MaxTime = 1
  None = None
SPECIFICATION Spec
SYMMETRY Symmetry
INVARIANTS
  TypeOK
  OwnToken
  NeverExpired
  RevokedStaysOut
  NoWiderThanGranted
