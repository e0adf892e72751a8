SPECIFICATION Spec
CONSTANTS
  Stages = {"classify", "plan", "critique"}
  MaxAttempts = 2
  i1 = i1
  i2 = i2
  i3 = i3
  Invocations = {i1, i2, i3}
  MaxVersions = 3
  Prices = {1, 2}
SYMMETRY InvocationSymmetry
INVARIANTS TypeOK BilledOnce ContractIsTheQuote
PROPERTIES ResultStays PlanLockedUnderQuote AnswersAreMetered
CHECK_DEADLOCK FALSE
