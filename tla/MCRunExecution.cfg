SPECIFICATION FairSpec
CONSTANTS
  a = a
  b = b
  c = c
  d = d
  e = e
  x = x
  y = y
  Nodes = {a, b, c, d, e}
  Slots = {x, y}
  NumStages = 3
  Order <- MCOrder
  Edges <- MCEdges
  Scope <- MCScope
  Answers <- MCAnswers
  SingleUse = {a, b}
  MissingInput = {}
  MaxConcurrency = 2
  MaxGroup = 2
  SoftLimit = 1
  HardLimit = 2
  HasTimeout = TRUE
INVARIANTS DataflowOrder OneTerminalEvent InputsRetained BudgetReturned
PROPERTIES OutcomeFinal ImplementsDataflowRun RunEnds
CHECK_DEADLOCK FALSE
