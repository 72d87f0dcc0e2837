SPECIFICATION FairSpec
CONSTANTS
  MaxTasks = 1
  w1 = w1  w2 = w2  f1 = f1  f2 = f2
  NoFile = NoFile
  Worker = {w1, w2}
  File = {f2}
  Child <- OneNameNoChild
  SavedFiles <- OneName
  Requests = {"run", "temp", "stop", "stopAll"}
  MayQuit = TRUE
PROPERTIES TasksEnd RequestsAreAnswered QuitEnds OnlyLateFilesStay
CHECK_DEADLOCK FALSE
