SPECIFICATION FairSpec
CONSTANTS
  Router = {1, 2, 3}
  Key = {9}
  Seg = {12, 23}
  On <- LineOn
  Chief <- LineHead
  Deputy <- LineHead
  Border = {1}
  OwnInst = {1, 2}
  Flushed = {}
  MaxInst = 2
  MaxRxmt = 10
  Fault = {"lose"}
  MaxFaults = 1
CHECK_DEADLOCK FALSE
PROPERTIES
  EventuallyAlike
