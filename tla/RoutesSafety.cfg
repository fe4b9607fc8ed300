SPECIFICATION DaemonSpec
CONSTANTS
  Dest = {0, 1}
  Default = 0
  Route <- Mixed
  Most = 3
  Refusals = TRUE
  p1 = p1
  p2 = p2
  Proc = {p1, p2}
  WriteFails = FALSE
SYMMETRY Processes
INVARIANTS
  TypeOK
  BestWins
  Installed
  NothingLeft
  OneDaemon
PROPERTIES
  RefinesFib
