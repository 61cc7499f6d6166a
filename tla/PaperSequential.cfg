CONSTANTS
  m1 = m1
  yes = yes
  v1 = v1
  r1 = r1
  None = None
  Sessions = {s1}
  Intents <- SeqIntents
  DecisionSpace <- SeqDecisions
  Policies <- SeqPolicies
  Books <- SeqBooks
  Quotes <- SeqQuotes
  InitialCash = 0
  Scale = 3600
  HashRanks = {1}
  MaxAttempts = 1
  MonotoneCallers = TRUE
  ExclusiveWriter = TRUE
SPECIFICATION Spec
INVARIANTS LedgerBacksPositions OrdersBackedByFills EquityBalances FillsHadABook
CHECK_DEADLOCK FALSE
