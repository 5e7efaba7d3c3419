CONSTANTS
  t1 = t1
  Task = {t1}
  Capacity = 3
  Troubles <- Cases
SPECIFICATION FairSpec
INVARIANTS TypeOK CancelledWorkStops ToldAsSaved NothingHeld
PROPERTIES ImplementsContract CancellationEffective StoppedModelEndsStream
CHECK_DEADLOCK FALSE
