CONSTANTS
  b1 = b1
  b2 = b2
  b3 = b3
  Bettor = {b1, b2, b3}
  MaxU64 = 4
  MaxTime = 2
  DepositAmounts = {0, 1}
  MintAmounts = {1}
  LockTimes = {0, 1}
  Wallets <- TwoAndOne
  Terms <- MarketTerms
  Snapshots <- MarketSnapshots
SPECIFICATION FairSpec
INVARIANT TypeOK
INVARIANT PoolsMatchPositions
INVARIANT EligibleClaimsPayable
INVARIANT ClaimsPayEntitlement
INVARIANT DustBounded
INVARIANT OutcomeProven
PROPERTY ImplementsPariMutuel
PROPERTY StakesFrozen
PROPERTY StakesSettle
CHECK_DEADLOCK FALSE
