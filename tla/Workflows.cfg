\* Two calls; three edits, two versions, two sessions, one refused write.
SPECIFICATION Spec
CONSTANTS
  Calls = {c1, c2}
  NoDoc = NoDoc
  NoProposal = NoProposal
  MaxVersion = 2
  MaxEdits = 3
  MaxSessions = 2
  MaxFaults = 1
PROPERTY VersionMovesOn
CHECK_DEADLOCK FALSE
