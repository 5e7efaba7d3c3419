\* The coroutine of one request may be cancelled from outside.
CONSTANTS
  t1 = t1
  t2 = t2
  NoTask = NoTask
  Task = {t1, t2}
  MaxConcurrent = 1
  Disconnecting = {}
  Interruptible = {t1}
  Reused = {t1}
SPECIFICATION Spec
INVARIANT NoAbandonedWaiter
