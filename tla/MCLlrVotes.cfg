SPECIFICATION Spec
CONSTANTS
  v1 = v1
  v2 = v2
  v3 = v3
  h1 = h1
  h2 = h2
  NoHash = NoHash
  NoBallot = NoBallot
  Validator <- MCValidator
  Epoch <- MCEpoch
  Index <- MCIndex
  Hash <- MCHash
  Ballot <- MCBallot
  Members <- MCMembers
  IdxOf <- StableIdxOf
  WeightOf <- StableWeightOf
  WordBits = 2
  CacheMax = 2
  PreLlrTop <- MCPreLlrTop
INVARIANTS
  TypeOK
  TallyMatchesBallots
  DecidedByThird
  BitmapInRange
  IndexesMatchStore
PROPERTIES
  FlushedResultsFinal
  ImplementsDecision
