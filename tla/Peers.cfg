SPECIFICATION FairSpec
CONSTANTS
  Id = {x, y}
  RunsSnap = {x, y}
  FTM63 = {x}
  Named = {x, y}
  Trusted = {y}
  MaxPeers = 1
  MaxConnects = 3
  Nobody = Nobody
CHECK_DEADLOCK FALSE
INVARIANT TypeOK NoTraceLeft
PROPERTY ConnectionsEnd StopReturns
