SPECIFICATION Spec
CONSTANTS
  c1 = c1
  c2 = c2
  NoCall = NoCall
  NoDoc = NoDoc
  NItems = 1
  Concurrency = 1
  Calls = {c1, c2}
  MaxTasks = 2
  MaxFaults = 1
  MaxCrashes = 1
SYMMETRY Symmetry
INVARIANTS ShutdownReaches ClaimDurable ExternalOnce CancelWoken
PROPERTIES SuccessKept
