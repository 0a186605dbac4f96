\* A recurring, delayed job with a worker crash, Redis failures and a restart
\* of the scheduler: the chain goes on with exactly one next occurrence, and
\* none runs ahead of its time.
CONSTANTS
  j1 = j1  j2 = j2  j3 = j3  r1 = r1  w1 = w1  w2 = w2
  NoJob = NoJob  NoWorker = NoWorker
  Jobs = {j1, j2, j3}
  Workers = {w1, w2}
  Priorities <- NoPriority
  Starts = {"now", "future"}
  Rules = {TRUE}
  Retriable = {TRUE}
  MaxAttempts = 1
  MaxReclaims = 1
  Mortal = {w1}
  Faults = {"redis"}
  Overrun = FALSE
  Services = {"scheduler"}
  MaxOutages = 1
  Submitters = {r1}
  Cancellers = {}
  Replayers = {}
  ApiFails = FALSE
SPECIFICATION Spec
SYMMETRY JobSymmetry
INVARIANTS ChainContinues ChainDoesNotFork NotBeforeItsTime
