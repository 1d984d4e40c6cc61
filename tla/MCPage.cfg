CONSTANTS
  r1 = r1
  r2 = r2
  r3 = r3
  Request = {r1, r2, r3}
  Own = {r1, r2}
  Ttl = 2
  Period = 2
  MaxVersion = 1
  MaxFailures = 1
  Latency = 1
SPECIFICATION FairPageSpec
INVARIANT ReceiptIsListed
PROPERTY CacheMovesForward
PROPERTY NothingExpiredServed
PROPERTY PageCatchesUp
