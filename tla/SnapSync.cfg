SPECIFICATION FairSpec
CONSTANTS
  MaxEpoch = 4
  MaxStartAge = 1
  MinEndAge = 1
  SwitchSpan = 2
  UpdatesCap = 2
  FreshGenesis = FALSE
INVARIANTS
  TypeOK
  StagesApart
PROPERTIES
  NeverSnapsAgain
  ReachesFullsync
CHECK_DEADLOCK FALSE
