\* The client of one request may disconnect.
CONSTANTS
  t1 = t1
  t2 = t2
  NoTask = NoTask
  Task = {t1, t2}
  MaxConcurrent = 1
  Disconnecting = {t1}
  Interruptible = {}
  Reused = {t1}
SPECIFICATION FairSpec
PROPERTY CancellationAnswered
\* The point of this run is that the system stops.
CHECK_DEADLOCK FALSE
