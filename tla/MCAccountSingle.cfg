CONSTANTS
  b1 = b1
  Bettor = {b1}
  MaxU64 = 3
  MaxTime = 3
  DepositAmounts = {1, 2}
  MintAmounts = {}
  LockTimes = {2}
  Wallets <- OneEach
  Terms <- AllTerms
  Snapshots <- Results
  MarketId = 66000
  UsdcMint <- Mint
  CanonicalMint <- Mint
  VaultKey <- VaultAddress
  Bump = 254
SPECIFICATION Spec
INVARIANT EveryMarketDecodes
CHECK_DEADLOCK FALSE
