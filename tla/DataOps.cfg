\* one part per behaviour; every bound is named in its module
SPECIFICATION Spec
CONSTANTS
  None = None
  a = a
  b = b
  Jobs = {j1}
  Markets = {a, b}
  Points <- MCPoints
  MaxTime = 3
  MaxRuns = 2
  Rank <- MCRank
  Requests <- MCJobRequests
  k1 = k1
  k2 = k2
  p1 = p1
  t1 = t1
  t2 = t2
  VenueMarkets <- MCVenueMarkets
  Fixtures <- MCFixtures
  Tokens <- MCTokens
  ClosedBooks = {t2}
  GammaIds = {p1}
  CollectionRequests <- MCCollections
  MaxCatalog = 3
  MaxCollections = 2
  Listed = {a, b}
  Cadence = 0
  StaleAfter = 0
  LastTime = 1
  InOrder = FALSE
  MaxBuilds = 2
  MaxFacts = 1
  MaxMoves = 1
  MaxCycles = 2
  HeldAtStart <- MCHeld
  Columns <- MCColumns
  Roles <- MCRoles
  Files <- MCFiles
  Mappings <- MCMappings
  Licenses = {"UNKNOWN", "APPROVED"}
  SampleKinds = {None, "trades"}
  RowLimits = {1, 2}
  MaxVendorCalls = 4
  c1 = c1
  g1 = g1
  e1 = e1
  KalshiEntries <- MCKalshiEntries
  KalshiBodies <- MCKalshiBodies
  GammaEntries <- MCGammaEntries
  TokenBodies <- MCTokenBodies
  LiveBodies <- MCLiveBodies
  ConditionIds = {c1}
  MaxFeeds = 2
INVARIANTS BackfillAddsUp StatusMatchesSegments RowsAreBacked PayloadLimitHolds CollectionIsAtomic
PROPERTIES HistoryOnlyGrows  SamplesSound FeedsSound
CHECK_DEADLOCK FALSE
