SPECIFICATION FairSpec
CONSTANTS
  MaxTasks = 1
  w1 = w1  w2 = w2  f1 = f1  f2 = f2
  NoFile = NoFile
  Worker = {w1}
  File = {f1, f2}
  Child <- NoChild
  SavedFiles <- OneSaved
  Requests = {"run", "stop"}
  MayQuit = FALSE
PROPERTIES OutcomesAreFinal
CHECK_DEADLOCK FALSE
