SPECIFICATION Spec
CONSTANTS
  Area <- MCArea
  First = 1
  Intf <- MCIntf
  AreaOf <- MCAreaOf
  PointToPoint = {}
  Passive = {20}
  Barred = {}
  MayFail = {20}
  Near <- MCNear
  SpfDelay = 1
  SpfHold = 2
  Debounce = 1
  MinLSInterval = 2
  InitialSeq = 9
  MaxSeq = 7
  LastSeq = 9
  Uptimes = {9}
INVARIANTS
  TypeOK
  SpfInTime
  LsasDescribe
  QuietAfterShutdown
