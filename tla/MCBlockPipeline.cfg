SPECIFICATION Spec
CONSTANTS
  a1 = a1
  a2 = a2
  a3 = a3
  Account = {a1, a2, a3}
  Whitelisted = {a2, a3}
  Free = {a2}
  FreeGasCap = 15
  Claim = 40
  Commission = 25
  CommissionTo = a1
  NoAccount = NoAccount
  Internal = Internal
  AllocPerSec = 45
  MaxAllocPeriod = 11
  StartupAllocPeriod = 0
  MinStartupGas = 5
  MinEnsuredAlloc = 100
  InitialRules <- MCRules
  Validator = {1, 2, 3, 4}
  Genesis = {1, 2, 3}
  Faulty = {3}
  Body <- MCBody
  Funds <- MCFunds
  MaxBlocks = 6
  MaxRestarts = 1
  BlockMissedSlack = 1
  MaxEmptyBlockSkipPeriod = 3
  MaxEpochGas = 80
  MaxEpochDuration = 5
  MaxAdvanceEpochs = 2
  RecoverDepth = 2
  BlockRange = 16
CHECK_DEADLOCK FALSE
INVARIANT TypeOK CheatersPunished UptimeWithinEpoch GasPowerConserved BlocksReplay
PROPERTY Recovers
