\* Two concurrent calls on one project: three versions of a board, two
\* sessions, a deletion and two creations, one refused write.
SPECIFICATION Spec
CONSTANTS
  Calls = {c1, c2}
  NoCall = NoCall
  NoDoc = NoDoc
  MaxVersion = 3
  MaxSessions = 2
  MaxLives = 4
  MaxFaults = 1
INVARIANTS BoardSaved HistoriesConsistent
PROPERTIES FileMovesOn
CHECK_DEADLOCK FALSE
SYMMETRY Symmetry
