CONSTANTS
  m1 = m1
  m2 = m2
  m3 = m3
  Model = {m1, m2, m3}
  Orders <- TwoKinds
  Threshold = 2
  HalfOpenMax = 1
  Call = {c1, c2}
  Interruptible = {c1}
  Stream = {s1}
  Unconfigured = {m3}
  Late = {m1}
SPECIFICATION Spec
INVARIANTS TypeOK FailuresRemembered FirstTokenFinal
PROPERTIES ImplementsModelStart
