CONSTANTS
  s1 = s1
  s2 = s2
  r1 = r1
  r2 = r2
  c1 = c1
  c2 = c2
  d1 = d1
  Request = {s1, s2}
  Run = {r1, r2}
  Weak = {r1}
  Change = {c1, c2}
  Removal = {d1}
  Strangers = {TRUE, FALSE}
  Troubles <- Cases
SPECIFICATION FairSpec
INVARIANTS TypeOK MessageBehindRunning EnabledIsFound AllOrNothing
PROPERTIES ImplementsSearchable EndedStays RunningEnds
CHECK_DEADLOCK FALSE
