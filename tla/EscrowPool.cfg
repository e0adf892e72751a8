SPECIFICATION Spec
CONSTANTS
  r1 = r1
  r2 = r2
  Runners = {r1}
  MaxAttempts = 1
  Price = 2
  DashboardRefunds = {}
  BankRulings = {}
  w1 = w1
  w2 = w2
  Workers = {w1, w2}
  NoWorker = NoWorker
  PayoutAmount = 1
  Methods = {"card"}
  AfterPayment = {"open", "ai_processing"}
  MaxQcRounds = 2
  MaxRevisionRounds = 1
  MaxDisputes = 1
SYMMETRY WorkerSymmetry
INVARIANTS CompletedIsPayable
PROPERTIES PaidPayoutIsFinal
CHECK_DEADLOCK FALSE
