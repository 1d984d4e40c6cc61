CONSTANTS
  usdc = usdc
  fake = fake
  junk = junk
  Id = {1, 2, 3}
  MintOf <- Mints
  CanonicalMint = usdc
  AskedIds = {1}
  Junk = junk
  Pins <- Pinned
  Deployments = {"production", "preview"}
  Instructions <- Life
  Busy = {1}
  Window = 2
  Cap = 1
  MaxMishaps = 1
SPECIFICATION RouteSpec
INVARIANT DefaultIsCanonical
INVARIANT NeverUndecoded
PROPERTY DefaultMovesForward
PROPERTY TimelineSettles
