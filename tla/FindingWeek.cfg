SPECIFICATION Spec
CONSTANTS
  t1 = t1
  t2 = t2
  Tasks = {t1, t2}
  w1 = w1
  w2 = w2
  Workers = {w1, w2}
  Nobody = Nobody
  Week = 2
  CreatedLater = TRUE
  Block = 3
  Sizes = {1, 2}
  MaxBackdated = 2
  Slowest = 1
  Horizon = 3
  MaxRows = 2
  MaxRecords = 2
SYMMETRY BothSymmetry
INVARIANT EveryWeekRecordable
CHECK_DEADLOCK FALSE
