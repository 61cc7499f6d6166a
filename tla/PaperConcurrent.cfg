CONSTANTS
  m1 = m1
  yes = yes
  v1 = v1
  r1 = r1
  None = None
  Sessions = {s1, s2}
  Intents <- RaceIntents
  DecisionSpace <- RaceDecisions
  Policies <- RacePolicies
  Books <- RaceBooks
  Quotes = {}
  InitialCash = 0
  Scale = 12
  HashRanks = {1, 2, 3, 4}
  MaxAttempts = 2
  MonotoneCallers = FALSE
  ExclusiveWriter = FALSE
SPECIFICATION Spec
INVARIANTS SnapshotsLongOnly RowsCommitTogether
CHECK_DEADLOCK FALSE
