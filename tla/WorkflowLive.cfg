SPECIFICATION FairSpec
CONSTANTS
  i1 = i1
  i2 = i2
  Invocations = {i1, i2}
  Nobody = Nobody
  NSteps = 1
  Billable = {1}
  MaxAttempts = 2
  WorstCase = 1
  Ceiling = 2
  PayoutKnown = TRUE
  MayLapse = TRUE
  MaxDeaths = 2
PROPERTIES
  RunSettles
CHECK_DEADLOCK FALSE
