CONSTANTS
  t1 = t1
  t2 = t2
  t3 = t3
  Turn = {t1, t2, t3}
  Batch = 1
  Short <- WithinBudget
  Troubles <- Cases
SPECIFICATION Spec
INVARIANTS TypeOK LoadHasNoGap
PROPERTIES ImplementsCondensed SummaryAdvances
SYMMETRY Symmetry
CHECK_DEADLOCK FALSE
