CONSTANTS
  b1 = b1
  b2 = b2
  Bettor = {b1, b2}
  MaxU64 = 2
  MaxTime = 1
  DepositAmounts = {1}
  MintAmounts = {}
  LockTimes = {1}
  Wallets <- OneEach
  Terms <- OneMarket
  Snapshots <- Results
  MaxResponses = 2
  MaxFetches = 2
SPECIFICATION FairPanelSpec
INVARIANT OfferedIsEligible
PROPERTY EligibleIsOffered
PROPERTY ConfirmedOutlivesRefresh
