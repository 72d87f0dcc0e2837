SPECIFICATION Spec
CONSTANTS
  MaxSessions = 2
  MaxJobs = 3
  OwnedLimit = 2
  Worker = {w1, w2}
  Free = Free
INVARIANTS AcceptedAreOwned
PROPERTIES ExitSparesOthers
