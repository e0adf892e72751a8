SPECIFICATION Spec
CONSTANTS
  t1 = t1
  t2 = t2
  t3 = t3
  Tasks = {t1, t2, t3}
  w1 = w1
  Workers = {w1}
  Nobody = Nobody
  Week = 2
  CreatedLater = FALSE
  Block = 3
  Sizes = {2}
  MaxBackdated = 2
  Slowest = 1
  Horizon = 3
  MaxRows = 2
  MaxRecords = 1
SYMMETRY BothSymmetry
INVARIANTS TypeOK PaidForHeldWeek CounterIsTrue NeverOversold
PROPERTY SellsWeeklyBlocks
CHECK_DEADLOCK FALSE
