SPECIFICATION FairSpec
CONSTANTS
  Clients = {c1}
  Widths = {1}
  InitCols = 2
  RingCap = 1
  OutCap = 1
  MaxVersions = 3
  SerialResize = TRUE
INVARIANTS
  NeverTorn
  NothingMissed
  
PROPERTIES
  SeenAsPromised
  CatchesUp
  
CHECK_DEADLOCK FALSE
