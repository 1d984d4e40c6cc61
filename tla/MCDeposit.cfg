CONSTANTS
  b1 = b1
  b2 = b2
  Bettor = {b1, b2}
  MaxU64 = 3
  MaxTime = 2
  DepositAmounts = {1}
  MintAmounts = {}
  LockTimes = {1}
  Wallets <- TwoAndOne
  Terms <- OneMarket
  Snapshots = {}
  Lamports <- RichAndPoor
  AtaOwners = {b1, b2}
  Fee = 1
  Rent = 1
  MaxCalls = 2
  MaxOrphans = 1
SPECIFICATION PanelSpec
INVARIANT PreflightIsOwn
INVARIANT EnabledIsAccepted
