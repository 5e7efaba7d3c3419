CONSTANTS
  t1 = t1
  Task = {t1}
  Capacity = 3
  Troubles <- Cases
SPECIFICATION Spec
INVARIANTS DisconnectStopsPreparation
CHECK_DEADLOCK FALSE
