SPECIFICATION FairSpec
CONSTANTS
  Area = {1}
  First = 1
  Intf <- OneIntf
  AreaOf <- OneAreaOf
  PointToPoint = {11}
  Passive = {}
  Barred = {}
  MayFail = {}
  Near <- OneNear
  SpfDelay = 1
  SpfHold = 2
  Debounce = 1
  MinLSInterval = 2
  InitialSeq = 9
  MaxSeq = 7
  LastSeq = 0
  Uptimes = {9}
CHECK_DEADLOCK FALSE
PROPERTIES
  LsaFollows
