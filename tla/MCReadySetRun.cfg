SPECIFICATION ReadySpec
CONSTANTS
  Nodes <- MCNodes
  Graphs <- MCGraphs
  Targets <- MCTargets
  Scoped = {1, 2}
INVARIANTS DispatchedOnComplete LeftBehind
PROPERTIES PlanSound RunEnds
CHECK_DEADLOCK FALSE
