SPECIFICATION FairSpec
CONSTANTS
  Router = {1, 2, 3, 4}
  Key = {1}
  Seg = {0}
  On <- WideOn
  Chief <- LanChief
  Deputy <- LanDeputy
  Border = {}
  OwnInst = {1}
  Flushed = {}
  MaxInst = 1
  MaxRxmt = 10
  Fault = {}
  MaxFaults = 0
CHECK_DEADLOCK FALSE
PROPERTIES
  EventuallyAlike
