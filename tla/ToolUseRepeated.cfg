SPECIFICATION Spec
CONSTANTS
  Profiles <- MCProfiles
  Grants <- MCGrants
  Access <- MCAccess
  Tools <- MCTools
  Advertised <- MCAdvertised
  Needs <- MCNeeds
  OrdersOnly <- orderTools
  OwnWork <- ownWork
  OpenRepeats <- openRepeats
  MaxAttempts = 2
  MaxPolls = 2
  None = None
INVARIANTS IdempotentAppliesOnce
