\* Three calls on two keys with room for one attempt: every race of quotes and
\* confirmations and of the two keys for the room, with restarts at any point.
CONSTANTS
  Calls <- MCCalls
  Keys <- MCKeys
  Configs <- MCConfigs
  Totals <- MCTotals
  serviceOrderQuoteCapacity = 1
  None = None
SPECIFICATION MCSpec
INVARIANTS
  TypeOK
  OneQuoteRequestPerKey
  OneConfirmationPerKey
  OneOutcomePerKey
  OutcomeTruthful
  CapacityRespected
PROPERTIES
  QuoteMeansUnconfirmed
  ApprovedPurchases
  EveryCallAnswered
