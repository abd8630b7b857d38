SPECIFICATION CooperativeSpec
CONSTANTS
  a = a
  b = b
  c = c
  d = d
  e = e
  x = x
  y = y
  Nodes = {a, b, c, d}
  Slots = {x, y}
  NumStages = 2
  Order <- MCSeqOrder
  Edges <- MCSeqEdges
  Scope <- MCSeqScope
  Answers <- MCSeqAnswers
  SingleUse = {a}
  MissingInput = {}
  MaxConcurrency = 3
  MaxGroup = 1
  SoftLimit = 2
  HardLimit = 2
  HasTimeout = FALSE
INVARIANTS HardCeiling
PROPERTIES StoppedRunEnds NodeCancelEnds
CHECK_DEADLOCK FALSE
