\* One call and two stops of one mod; a queue and a pipe of one line, so that
\* both fill.
SPECIFICATION Spec
CONSTANTS
  Calls = {c1}
  Stops = {s1, s2}
  Nobody = Nobody
  QueueSize = 1
  PipeSize = 1
INVARIANTS NoOrphan StillListed
PROPERTIES GoneReturns StopEnds
CHECK_DEADLOCK FALSE
