SPECIFICATION Spec
CONSTANTS
  NumContexts = 2
  Workers = {w1}
  Requests = {r1, r2}
  MaxReads = 1
INVARIANT DestroyedUnused
PROPERTIES StopEnds ExecutionsEnd
CHECK_DEADLOCK FALSE
