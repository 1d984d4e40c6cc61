CONSTANTS
  w1 = w1
  w2 = w2
  t1 = t1
  t2 = t2
  Wallet = {w1}
  Tx = {t1}
  CallId = {1}
  MaxGeneration = 0
  MaxHiccups = 0
  Environments = {{}}
SPECIFICATION Spec
INVARIANT GivenUpNeverLanded
CHECK_DEADLOCK FALSE
