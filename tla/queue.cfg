SPECIFICATION FairSpec
CONSTANTS
  w1 = w1  w2 = w2
  r1 = r1  r2 = r2  r3 = r3
  None = None
  Worker = {w1, w2}
  Request = {r1, r2, r3}
  Limit = 2
INVARIANTS Coherent HandledOnce
PROPERTIES LateNeverStarts RequestsAreAnswered StopCompletes
CHECK_DEADLOCK FALSE
