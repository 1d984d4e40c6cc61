CONSTANTS
  w1 = w1
  w2 = w2
  other = other
  deployer = deployer
  Wallet1 = w1
  Wallet2 = w2
  Other = other
  Deployer = deployer
  Bettor = {w1, w2, other}
  MaxU64 = 63
  MaxTime = 24
  DepositAmounts = {1, 3}
  MintAmounts = {10}
  LockTimes <- AllLockTimes
  Wallets <- Funded
  Terms <- Markets
  Snapshots <- Results
  Primary = 1
  Backup = 2
  LockWindow = 8
  LockBuffer = 1
  Draws = {3}
  Plans <- Cadences
  Skews <- Ahead
  Latency = 2
  MaxAge = 3
SPECIFICATION AftermathSpec
INVARIANT FailuresHaveCauses
INVARIANT PassMeansSettled
PROPERTY AbandonedStakesSettle
CHECK_DEADLOCK FALSE
