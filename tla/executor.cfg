SPECIFICATION FairSpec
CONSTANTS
  Width = 3
  Loops <- MCLoops
  MaxActions = 2
  MaxRuns = 8
INVARIANTS FinishedAfterItsLoops StopIsPrompt
PROPERTIES FiniteEnds
CHECK_DEADLOCK FALSE
