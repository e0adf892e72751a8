SPECIFICATION Spec
CONSTANTS
  r1 = r1
  r2 = r2
  Runners = {r1, r2}
  MaxAttempts = 2
  Price = 2
  DashboardRefunds = {}
  BankRulings = {}
  w1 = w1
  w2 = w2
  Workers = {w1}
  NoWorker = NoWorker
  PayoutAmount = 2
  Methods = {"card"}
  AfterPayment = {"open"}
  MaxQcRounds = 1
  MaxRevisionRounds = 0
  MaxDisputes = 1
SYMMETRY RunnerSymmetry
INVARIANTS TypeOK ChargedOnlyAfterApproval LostCaptureStaysOpen HoldIsBeingReleased
PROPERTY CancelledStaysUncharged
CHECK_DEADLOCK FALSE
