\* While no timeout expires under a live worker: with crashes, cancel, replay,
\* and the scheduler and the reaper polling the same rows, a job has one
\* reference or one executor, its owner attends to it (or could not compute the
\* date of its retry), its outcome is final, its dead letter is exact, and
\* every step of every process is a step of the abstract life of a job
\* (JobLifecycle).
CONSTANTS
  c1 = c1  j1 = j1  p1 = p1  r1 = r1  w1 = w1  w2 = w2
  NoJob = NoJob  NoWorker = NoWorker
  Jobs = {j1}
  Workers = {w1, w2}
  Priorities <- NoPriority
  Starts = {"now"}
  Rules = {FALSE}
  Retriable = {TRUE, FALSE}
  MaxAttempts = 2
  MaxReclaims = 1
  Mortal = {w1, w2}
  Faults = {}
  Overrun = FALSE
  Services = {"scheduler", "reaper"}
  MaxOutages = 0
  Submitters = {r1}
  Cancellers = {c1}
  Replayers = {p1}
  ApiFails = FALSE
SPECIFICATION Spec
SYMMETRY ActorSymmetry
INVARIANTS OwnerAttends SoleExecution SingleReference DeadLettersExact
PROPERTIES TerminalIsFinal FollowsLifecycle
