SPECIFICATION Spec
CONSTANTS
  Key <- MCKey
  InitDb <- Stale
  OwnKey <- MCOwnKey
  Feed <- AllFeed
  MaxInst = 2
  InitSeq = {10, 20, 30, 40, 50, 60, 70}
  Collisions = FALSE
  Span = 10
  MaxDDSeq = 100
  MaxHeaders = 1
  MaxItems = 1
  PointToPoint = FALSE
  Burst = TRUE
  Fault = {"slow", "lose", "duplicate", "reorder", "expire", "restart", "election"}
  MaxFaults = 4
INVARIANTS
  TypeOK
  OneMaster
  AdjacencyMatchesElection
  NothingLeftBehind
  NobodyWaitsUnarmed
  NothingForgotten
  SameExchange
PROPERTY NeverOlder
