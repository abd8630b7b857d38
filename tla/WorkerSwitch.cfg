\* Two workers to switch between, two runs, a switch and a re-bootstrap.
SPECIFICATION Spec
CONSTANTS
  Workers = {w0, w1}
  Initial = w0
  Runs = {r1, r2}
  Switches = {s1}
  Rebuilds = {b1}
  NoWorker = NoWorker
INVARIANTS AdmissionRestored LeaseFollowsRun
PROPERTIES StoppedIdle CallsEnd
CHECK_DEADLOCK FALSE
