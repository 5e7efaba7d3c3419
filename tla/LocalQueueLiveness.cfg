\* Nobody disconnects or is interrupted: explicit cancellation, deadlines and shutdown only.
CONSTANTS
  t1 = t1
  t2 = t2
  t3 = t3
  NoTask = NoTask
  Task = {t1, t2, t3}
  MaxConcurrent = 2
  Disconnecting = {}
  Interruptible = {}
  Reused = {t1}
SPECIFICATION FairSpec
PROPERTY EveryRequestAnswered
PROPERTY FreePermitServed
