CONSTANTS
  m1 = m1
  yes = yes
  v1 = v1
  r1 = r1
  None = None
  Sessions = {s1}
  Intents <- BranchIntents
  DecisionSpace <- BranchDecisions
  Policies <- BranchPolicies
  Books <- BranchBooks
  Quotes = {}
  InitialCash = 0
  Scale = 12
  HashRanks = {1, 2, 3}
  MaxAttempts = 1
  MonotoneCallers = TRUE
  ExclusiveWriter = TRUE
SPECIFICATION Spec
INVARIANTS TypeOK OrderSizesAgree
CHECK_DEADLOCK FALSE
