SPECIFICATION RSpec
CONSTANTS
  None = None
  Missing = Missing
  a = a
  q = q
  call = call
  adherence = adherence
  busy = busy
  breach = breach
  proc = proc
  k = k
  e1 = e1
  e2 = e2
  e3 = e3
  e4 = e4
  Rules <- AgentRules
  Subjects <- Agent
  EpisodeIds <- Ids
  Workers <- OneProc
  Proc <- proc
  ForDuration <- MCForDuration
  Cooldown <- MCCooldown
  TimeSensitive <- MCTimeSensitive
  Selector <- MCSelector
  QueueIds <- OneQueue
  Passes <- EvaluatingOnly
  Unwanted = {}
  SubjectType <- MCSubjectType
  Conditions <- MCConditions
  Vocabulary <- MCVocabulary
  Files <- AgentFiles
  FileStarts <- FromZero
  TickInterval = 1
  Wall = 99
  InOrder = FALSE
  Serial = TRUE
  MayCrash = FALSE
  MaxTime = 3
  MaxEvaluations = 99
  MaxRuns = 1
CHECK_DEADLOCK FALSE
INVARIANTS RecoveryResolves
