SPECIFICATION Spec
CONSTANTS
  MaxSessions = 2
  MaxJobs = 1
  MaxCalls = 2
  Request = {r1, r2}
  TicketLimit = 1
  MaxActs = 1
  Kept = {a, b}
  Overridden = Overridden
  NoRun = NoRun
  NoJob = NoJob
  Free = Free
SYMMETRY Symmetric
INVARIANTS FlowsGoOnOnce RunsAreTemporary
PROPERTIES LateNeverBegins
CHECK_DEADLOCK FALSE
