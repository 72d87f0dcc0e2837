SPECIFICATION DispatchFairSpec
CONSTANTS
  MaxTasks = 3
  MayRestart = TRUE
  Scripts <- SomeScripts
  Texts <- IncludeTexts
  MaxDepth = 1
  MaxAncestry = 3
  TokenBound = 19
  Weight <- IncludeWeight
  MaxPlays = 2
  ShortLength = 3
  NoPoll = NoPoll
INVARIANTS ExpansionIsSound ProgressIsExact TasksFollowTheScript OneTaskAtATime
PROPERTIES StoppedSendsNothing SequencesEnd
CHECK_DEADLOCK FALSE
