SPECIFICATION Spec
CONSTANTS
  MaxTasks = 2
  w1 = w1  w2 = w2  f1 = f1  f2 = f2
  NoFile = NoFile
  Worker = {w1, w2}
  File = {f1, f2}
  Child <- Chain
  SavedFiles <- BothSaved
  Requests = {"run", "stop", "stopAll"}
  MayQuit = FALSE
SYMMETRY Workers
INVARIANTS Coherent
PROPERTIES StoppedInDelayNeverRuns ImplementsLifecycle
CHECK_DEADLOCK FALSE
