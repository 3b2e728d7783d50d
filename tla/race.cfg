SPECIFICATION FairSpec
CONSTANTS
  None = None
  k = k
  r1 = r1
  s1 = s1
  s2 = s2
  e1 = e1
  e2 = e2
  e3 = e3
  w1 = w1
  w2 = w2
  Rules <- OneRule
  Subjects <- OneSubject
  EpisodeIds <- TwoIds
  Workers <- TwoWorkers
  ForDuration <- AtOnce
  Cooldown <- Brisk
  TimeSensitive <- OneRule
  Selector <- SelectAll
  QueueIds <- NoQueues
  SubjectType <- AllAgents
  TickInterval = 1
  Wall = 9
  FileStarts <- FromZero
  InOrder = TRUE
  Serial = FALSE
  MayCrash = FALSE
  MaxTime = 2
  MaxEvaluations = 3
CHECK_DEADLOCK FALSE
INVARIANTS TypeOK UniqueActive RowsLoad SendOnce
PROPERTIES NothingOwed
