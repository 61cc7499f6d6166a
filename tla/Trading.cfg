\* one part per behaviour; every bound is named in its module
SPECIFICATION TradingSpec
CONSTANTS
  None = None
  m1 = m1
  m2 = m2
  m3 = m3
  yes = yes
  v1 = v1
  ev = ev
  r1 = r1
  r2 = r2
  Places <- MCPlaces
  FirstRows <- MCFirstRows
  DefaultLimits <- MCLimits
  Facts <- MCFacts
  Requests <- MCRequests
  RunRequests <- MCRunRequests
  SavedRules <- MCSavedRules
  SavedExposures <- MCSavedExposures
  SavedPolicies <- MCSavedPolicies
  IdOrder <- MCIdOrder
  LastTime = 2
  MaxRows = 7
  MaxSaved = 1
  MaxChecks = 2
  Sessions = {"runner"}
  runner = "runner"
  RunIds = {r1, r2}
  MarketOrder <- MCMarketOrder
  Alive <- MCAlive
  Plans <- MCPlans
  MaxOrders = 3
  Intents <- MCIntents
  DecisionSpace <- MCDecisions
  Policies <- MCPaperPolicies
  Books <- MCBooks
  Quotes = {}
  InitialCash = 100
  Scale = 12
  HashRanks = {1, 2, 3, 4}
  MaxAttempts = 1
  MonotoneCallers = FALSE
  ExclusiveWriter = TRUE
INVARIANTS GateServiceSound PaperRunsSound PaperRunsAtomic
CHECK_DEADLOCK FALSE
