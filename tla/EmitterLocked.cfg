SPECIFICATION Spec
CONSTANTS
  MaxEpoch = 2
  MaxSeq = 2
  MaxVote = 1
  MaxCrashes = 1
INVARIANT NeverCorrupted
CHECK_DEADLOCK FALSE
