SPECIFICATION ASpec
CONSTANTS
  Requests = {r1, r2, r3}
  RuleIds = {i1, i2}
  Subjects = {s1, s2}
  None = None
  Bodies <- SomeBodies
  Seeds <- OneSeed
  Modes <- Overlap
CHECK_DEADLOCK FALSE
INVARIANTS DisabledIsClosed
