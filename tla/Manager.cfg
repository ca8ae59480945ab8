SPECIFICATION FairSpec
CONSTANTS
  first = first
  both = both
  taxo = taxo
  k1 = k1
  k2 = k2
  k3 = k3
  Backlogs = {k1, k2}
  NRules = 3
  RuleType <- MCTypes
  Events = {first, both, taxo}
  Pairs <- MCPairs
  Matches <- MCMatches
  AllActive = TRUE
  Deliveries <- MCDeliveries
  NoEvent = NoEvent
PROPERTIES ManagerReturns DeletionCompletes
INVARIANTS TypeOK AnswerAwaited UniqueOpeners
