CONSTANTS
  n1 = n1
  n2 = n2
  t1 = t1
  t2 = t2
  t3 = t3
  Task = {t1, t2, t3}
  Node = {n1, n2}
  Home <- Homes
  MaxConcurrent = 1
  ScanLimit = 0
  Mortal = {n1}
  Stopping = {n1}
  Unlucky = {t1}
  Interruptible = {t1}
  Cancellable = {t2}
  Hasty = {t2}
  Slow = {t1}
  Deaf = {t2}
  Reused = {t1}
SPECIFICATION FairSpec
INVARIANTS TypeOK PermitsBounded StreamsHoldLeases NothingLeftBehind
PROPERTIES ImplementsLeasedAdmission EveryoneServed
