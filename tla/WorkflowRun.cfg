SPECIFICATION Spec
CONSTANTS
  i1 = i1
  i2 = i2
  Invocations = {i1, i2}
  Nobody = Nobody
  NSteps = 2
  Billable = {1}
  MaxAttempts = 2
  WorstCase = 2
  Ceiling = 3
  PayoutKnown = TRUE
  MayLapse = FALSE
  MaxDeaths = 1
SYMMETRY Symmetry
INVARIANTS
  TypeOK
  SentIsCovered
  CallsAreFunded
  FedByPredecessor
  CountIsTrue
  ResidualIsEarned
PROPERTIES
  BudgetIsALedger
  PublishedPayoutStays
CHECK_DEADLOCK FALSE
