\* one part per behaviour; every bound is named in its module
SPECIFICATION Spec
CONSTANTS
  None = None
  DeskMarkets = {m1}
  Captures <- MCCaptures
  MaxPrice = 100
  WideSpread = 10
  FreshFor = 1
  LastInstant = 2
  MaxCaptures = 2
  MaxReports = 1
  MaxRules = 2
  Lookback = 1
  Thresholds <- MCThresholds
  MaxAnalyses = 2
  agency = agency
  council = council
  RuleContents <- MCRules
  SourceNames = {agency, council}
  RuleRecurs = FALSE
  MaxCaptured = 3
  MaxCorpusCalls = 2
  Contracts <- MCContracts
  Updates <- MCUpdates
  RuleTerms <- MCTerms
  LastDay = 2
  MinCandidate = 40
  MinClassScore = 85
  MaxPairs = 2
  MaxTerms = 3
  MaxPairCalls = 2
  Readings <- MCReadings
  PairRows <- MCPairRows
  AlarmWindow = 1
  MinPersistence = 1
  PreviousLimit = 1
  LastMoment = 2
  MaxReadings = 4
  MaxComparisons = 2
INVARIANTS IntegritySound  EquivalenceSound DivergenceSound
 
CHECK_DEADLOCK FALSE
