\* Three requests that may disconnect, one of which may be interrupted; two permits.
CONSTANTS
  t1 = t1
  t2 = t2
  t3 = t3
  NoTask = NoTask
  Task = {t1, t2, t3}
  MaxConcurrent = 2
  Disconnecting = {t1, t2, t3}
  Interruptible = {t1}
  Reused = {t1, t2, t3}
SPECIFICATION Spec
SYMMETRY Symmetry
INVARIANT TypeOK
INVARIANT StreamsHoldPermits
INVARIANT InLineUnlessCancelled
INVARIANT UninterruptedWaitersLive
INVARIANT NoLeakedPermit
PROPERTY ClosedQueueDrains
PROPERTY ImplementsAdmission
\* A request that detects its own disconnection waits for itself: the code can stop.
CHECK_DEADLOCK FALSE
