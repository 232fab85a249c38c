SPECIFICATION FairSpec
CONSTANTS
  MaxEpoch = 2
  MaxSeq = 2
  MaxVote = 1
  MaxCrashes = 1
CHECK_DEADLOCK FALSE
INVARIANTS
  TypeOK
  DoublesignNeedsLeak
  NothingForgotten
PROPERTY PauseEnds
