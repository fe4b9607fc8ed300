SPECIFICATION FairSpec
CONSTANTS
  Router <- MCRouter
  Priority <- OneFavoured
  AtStart = {1, 2, 3}
  Overlap = 1
  Fault = {"slow", "lose", "expire", "crash"}
  MaxFaults = 2
INVARIANTS
  TypeOK
  RolesDistinct
  AdjacenciesFit
PROPERTIES
  DRYields
  EventuallyAgreed
