SPECIFICATION FairSpec
CONSTANTS
  Router = {1, 2, 3}
  Key = {9}
  Seg = {12, 23}
  On <- LineOn
  Chief <- LineHead
  Deputy <- LineHead
  Border = {1}
  OwnInst = {1, 2}
  Flushed = {}
  MaxInst = 2
  MaxRxmt = 10
  Fault = {"restart", "expire", "duplicate", "lose", "refuse"}
  MaxFaults = 2
CHECK_DEADLOCK FALSE
INVARIANTS
  TypeOK
  NoGap
  RoutesFollow
PROPERTIES
  ListsDrain
  AlikeUnlessLost
  NoStepBack
