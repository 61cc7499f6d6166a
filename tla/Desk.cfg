\* one part per behaviour; every bound is named in its module
SPECIFICATION Spec
CONSTANTS
  None = None
  m1 = m1
  m2 = m2
  m3 = m3
  DeskMarket = {m1, m2}
  Known = {m1}
  EvidenceKinds = {"quality", "integrity", "divergence", "pretrade", "signal", "scenario", "equivalence"}
  Contents <- MCContents
  GapSets <- MCGapSets
  Statuses = {"RESOLVED", "WATCHING"}
  Reviewers = {"ana", "ben"}
  LastHour = 1
  MaxEvidence = 4
  MaxCoverages = 2
  MaxDeskCalls = 3
  ScanMarkets <- MCScanMarkets
  Pairs <- MCPairs
  PairIds = {1, 2, 3}
  ScanHints = {"NONE", "NO_TRADE"}
  ScanStatuses = {"WATCH", "DO_NOT_COMPARE"}
  LastAsOf = 2
  MaxScans = 1
INVARIANTS ScansSound
PROPERTIES WorkbenchSound
CHECK_DEADLOCK FALSE
