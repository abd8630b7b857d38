\* One call installs and removes two packages while another one lists them;
\* a crash and two refused operations anywhere.
SPECIFICATION Spec
CONSTANTS
  Ids = {a, b}
  NoId = NoId
  Calls = {c1, c2}
  NoCall = NoCall
  Writers = {c1}
  Readers = {c2}
  MaxCrashes = 1
  MaxFaults = 2
INVARIANT RecordsIndexed
PROPERTIES NeverUnchecked PublishedTree CrashResolved
CHECK_DEADLOCK FALSE
