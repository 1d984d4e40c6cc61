CONSTANTS
  b1 = b1
  Bettor = {b1}
  MaxU64 = 3
  MaxTime = 2
  DepositAmounts = {1, 2}
  MintAmounts = {}
  LockTimes = {2}
  Wallets <- OneEach
  Terms <- AllTerms
  Snapshots <- Results
  MarketId = 66000
  UsdcMint <- Mint
  CanonicalMint <- Mint
  VaultKey <- VaultAddress
  Bump = 254
  Amounts = {1, 2}
  SubTreeRoot <- Hashes
  PARI_MARKET_PROGRAM_ID = PARI_MARKET_PROGRAM_ID
  TXORACLE_PROGRAM_ID = TXORACLE_PROGRAM_ID
  SPL_TOKEN_PROGRAM_ID = SPL_TOKEN_PROGRAM_ID
  ASSOCIATED_TOKEN_PROGRAM_ID = ASSOCIATED_TOKEN_PROGRAM_ID
  SYSTEM_PROGRAM_ID = SYSTEM_PROGRAM_ID
  RENT_SYSVAR_ID = RENT_SYSVAR_ID
  USDC_MINT = USDC_MINT
SPECIFICATION WireSpec
INVARIANT TwoStatMarketsDecode
INVARIANT RefusedOnlyOnMerit
INVARIANT BuildersAgree
INVARIANT TimelineShowsIt
INVARIANT CpiIsReference
PROPERTY ExecutedAsMeant
CHECK_DEADLOCK FALSE
