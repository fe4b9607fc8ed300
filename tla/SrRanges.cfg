SPECIFICATION Spec
CONSTANTS
  Router <- MCRouter
  Net <- MCNet
  Root = 1
  IdOf <- Distinct
  Metrics = {1, 2}
  Lsdbs <- All
  Place <- MCPlace
  Asbr <- MCAsbr
  StubOf <- MCStub
  PlaceOf <- MCPlaceOf
  Summaries <- MCSummaries
  AsbrSummaries <- MCAsbrSummaries
  Externals <- MCExternals
  Infinity <- MCInfinity
  Covers <- MCCovers
  Length <- MCLength
  RouterInfo <- MCRouterInfo
  PrefixSids <- MCPrefixSids
CHECK_DEADLOCK FALSE
INVARIANTS
  NextHopUnderstands
