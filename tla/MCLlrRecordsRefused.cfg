SPECIFICATION Spec
CONSTANTS
  Top = 4
  FirstBlock <- MCFirstBlock
  Feature = {"berlin", "london"}
  Upgrades <- MCUpgrades
  SwitchSpan = 3
  MaxCrashes = 1
  SlowWriter = FALSE
INVARIANT RefusedIsProcessed
