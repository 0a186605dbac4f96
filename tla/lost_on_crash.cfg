\* A worker crashes after it took a reference off the list and before it locked
\* the row: the job stays PENDING and nothing carries it.
CONSTANTS
  j1 = j1  r1 = r1  w1 = w1  w2 = w2
  NoJob = NoJob  NoWorker = NoWorker
  Jobs = {j1}
  Workers = {w1, w2}
  Priorities <- NoPriority
  Starts = {"now"}
  Rules = {FALSE}
  Retriable = {TRUE}
  MaxAttempts = 2
  MaxReclaims = 2
  Mortal = {w1}
  Faults = {}
  Overrun = FALSE
  Services = {"scheduler"}
  MaxOutages = 0
  Submitters = {r1}
  Cancellers = {}
  Replayers = {}
  ApiFails = FALSE
SPECIFICATION Spec
INVARIANTS NeverLost
