SPECIFICATION FairSpec
CONSTANTS
  Tokens = {t1, t2, t3}
  NoToken = NoToken
  Threads = {h1, h2}
  Waiters = {w1}
INVARIANTS Propagated NeverUpward
PROPERTIES NoLostWakeup
CHECK_DEADLOCK FALSE
