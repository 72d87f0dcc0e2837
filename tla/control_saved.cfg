SPECIFICATION Spec
CONSTANTS
  MaxTasks = 2
  MayRestart = FALSE
  Scripts <- ControlScripts
  Texts <- ControlTexts
  MaxDepth = 1
  MaxAncestry = 1
  TokenBound = 3
  Weight <- ControlWeight
  MaxPlays = 1
  ShortLength = 0
  NoPoll = NoPoll
  NoRun = NoRun
  MayLose = TRUE
  ActsWhileReading = TRUE
CHECK_DEADLOCK FALSE
INVARIANT OverridesNeverSaved
