\* The tasks of a worker process, signals, kill messages, connections that
\* break and statements that fail: a worker that went through its shutdown
\* stays DEAD, a delivered kill message ends it, and a worker that is gone is
\* noticed.
CONSTANTS
  w1 = w1  w2 = w2  r1 = r1
  Workers = {w1, w2}
  NoWorker = NoWorker
  ChaosRequests = {r1}
  DbFails = TRUE
SPECIFICATION Spec
INVARIANTS ExitedIsDead
PROPERTIES KillIsHeeded GoneIsNoticed
CHECK_DEADLOCK FALSE
