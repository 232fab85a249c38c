SPECIFICATION FairSpec
CONSTANTS
  Event = {1, 2, 3, 4, 5, 6}
  Body <- MCBody
  Sealing <- MCSealing
  Own = {5}
  Honest = {h}
  Faulty = {f}
  MaxLamportDiff = 2
  UpgradeEpoch = 3
  QueueLimit = 1
  MaxCrashes = 1
INVARIANTS
  TypeOK
  IndexRight
  OnlyFaultyDropped
PROPERTY EventsConnect
CHECK_DEADLOCK FALSE
