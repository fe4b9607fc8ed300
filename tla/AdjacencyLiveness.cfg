SPECIFICATION FairSpec
CONSTANTS
  Key <- MCKey
  InitDb <- Stale
  OwnKey <- MCOwnKey
  Feed <- NoFeed
  MaxInst = 2
  InitSeq = {10, 20, 30, 40, 50, 60, 70}
  Collisions = FALSE
  Span = 10
  MaxDDSeq = 100
  MaxHeaders = 1
  MaxItems = 1
  PointToPoint = TRUE
  Burst = TRUE
  Fault = {"slow", "duplicate", "reorder", "expire", "restart"}
  MaxFaults = 2
PROPERTY EventuallyFull
