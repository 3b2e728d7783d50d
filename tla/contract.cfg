SPECIFICATION PSpec
CONSTANTS
  None = None
  k = k
  r1 = r1
  s1 = s1
  s2 = s2
  e1 = e1
  e2 = e2
  e3 = e3
  w1 = w1
  w2 = w2
  Rules <- OneRule
  Subjects <- TwoSubjects
  EpisodeIds <- ThreeIds
  Workers <- OneWorker
  ForDuration <- Brisk
  Cooldown <- Brisk
  TimeSensitive <- OneRule
  Selector <- SelectMembers
  QueueIds <- OneQueue
  SubjectType <- AllAgents
  TickInterval = 2
  Wall = 9
  FileStarts <- TwoFiles
  InOrder = TRUE
  Serial = TRUE
  MayCrash = FALSE
  MaxTime = 2
  MaxEvaluations = 4
CHECK_DEADLOCK FALSE
SYMMETRY IdSymmetry
INVARIANTS TimesOrdered DisabledIsQuiet LiveStateFits
PROPERTIES KeepsContract NoNoticeWhenDisabled ClosedIsFinal NeverBackward BeginsSelected
