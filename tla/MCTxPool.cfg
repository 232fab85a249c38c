SPECIFICATION FairSpec
CONSTANTS
  a = a
  b = b
  Account = {a, b}
  Tx <- MCTx
  HeadState <- MCHeadState
  AccountSlots = 1
  GlobalSlots = 3
  AccountQueue = 1
  GlobalQueue = 1
  MayMiss = {2}
  Call <- MCCall
  Made <- MCMade
  Args <- MCArgs
INVARIANTS
  TypeOK
  ListsRight
PROPERTIES
  NothingLost
  Bounded
  EveryoneReturns
  FollowsHead
