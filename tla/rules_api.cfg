SPECIFICATION AFairSpec
CONSTANTS
  Requests = {r1, r2, r3}
  RuleIds = {i1, i2}
  Subjects = {s1, s2}
  None = None
  Bodies <- AllBodies
  Seeds <- OneSeed
  Modes <- OneMode
CHECK_DEADLOCK FALSE
INVARIANTS ApiTypeOK AnsweredIsDurable QuietAtRest StoredRulesRun
PROPERTIES LockReleased AtomicAlone
