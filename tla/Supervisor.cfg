SPECIFICATION Spec
CONSTANTS
  MaxStarts = 3
  Requests = {r1}
INVARIANTS OneServing StateHonest
PROPERTIES CrashEnds
CHECK_DEADLOCK FALSE
