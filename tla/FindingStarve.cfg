SPECIFICATION FairSpec
CONSTANTS
  t1 = t1
  t2 = t2
  Timers = {t1, t2}
  r1 = r1
  r2 = r2
  Runners = {r1}
  Nobody = Nobody
  Stale = 1
  StintCap = 1
  Horizon = 3
  MaxMoney = 0
  Window = 1
  MaxRetries = 2
  Limit = 1
  Slowest = 0
  Mortal = FALSE
PROPERTY ActualsCatchUp
CHECK_DEADLOCK FALSE
