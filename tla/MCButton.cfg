CONSTANTS
  w1 = w1
  w2 = w2
  t1 = t1
  t2 = t2
  Wallet = {w1, w2}
  Tx = {t1, t2}
  CallId = {1, 2}
  MaxGeneration = 1
  MaxHiccups = 1
  Environments = {{"failed request"}, {"batched clicks"}, {"lost reply"}, {"locks"}}
SPECIFICATION FirstSpec
INVARIANT ShownIsOwn
INVARIANT ConfirmedIsFinal
INVARIANT ConfirmedOnce
PROPERTY SendsOneAtATime
PROPERTY BusyEnds
PROPERTY TimeoutResolves
CHECK_DEADLOCK FALSE
