SPECIFICATION Spec
CONSTANTS
  r1 = r1
  r2 = r2
  Runners = {r1}
  MaxAttempts = 1
  Price = 2
  DashboardRefunds = {1}
  BankRulings = {"won", "lost"}
  w1 = w1
  w2 = w2
  Workers = {w1}
  NoWorker = NoWorker
  PayoutAmount = 2
  Methods = {"card", "wire"}
  AfterPayment = {"open"}
  MaxQcRounds = 1
  MaxRevisionRounds = 0
  MaxDisputes = 1
INVARIANTS BooksAgreeWithStripe ClosedOrdersAreCarriedOut
PROPERTY PromiseIsKept
CHECK_DEADLOCK FALSE
