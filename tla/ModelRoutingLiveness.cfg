CONSTANTS
  m1 = m1
  m2 = m2
  m3 = m3
  Model = {m1, m2}
  Orders <- OneKind
  Threshold = 2
  HalfOpenMax = 2
  Call = {c1, c2, c3}
  Interruptible = {}
  Stream = {s1}
  Unconfigured = {}
  Late = {m1}
SPECIFICATION FairSpec
INVARIANT ProbesAccounted
PROPERTIES ModelComesBack StartSettles
