\* one part per behaviour; every bound is named in its module
SPECIFICATION Spec
CONSTANTS
  None = None
  m1 = m1
  m2 = m2
  Known = {m1, m2}
  Payloads <- MCPayloads
  Fixtures <- MCFixtures
  IdOrder <- MCIdOrder
  LastTime = 2
  MaxRows = 4
  MaxScenarioCalls = 2
  Lives <- MCLives
  Strategies <- MCStrategies
  GateActions = {"ALLOW", "NO_TRADE"}
  MaxProposals = 4
  MaxResearchCalls = 2
  MaxReplays = 2
INVARIANTS ResearchSound ReplaySound
CHECK_DEADLOCK FALSE
