SPECIFICATION Spec
CONSTANTS
  t1 = t1
  t2 = t2
  Timers = {t1}
  r1 = r1
  r2 = r2
  Runners = {r1, r2}
  Nobody = Nobody
  Stale = 1
  StintCap = 1
  Horizon = 3
  MaxMoney = 1
  Window = 2
  MaxRetries = 2
  Limit = 1
  Slowest = 1
  Mortal = TRUE
SYMMETRY RunnerSymmetry
INVARIANTS TypeOK NoTimeInvented FingerprintVouches JournalIsAChain StaleIsVisible RepeatIsHonest
CHECK_DEADLOCK FALSE
