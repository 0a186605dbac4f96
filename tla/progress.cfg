\* With fair processes and clocks, a crash of a worker and of the scheduler,
\* delayed jobs and payloads whose delay cannot be computed: every job reaches
\* an outcome (or is recorded as dropped), a lock that nobody attends to ends,
\* and references wait on the list of their priority.
CONSTANTS
  j1 = j1  r1 = r1  w1 = w1  w2 = w2
  NoJob = NoJob  NoWorker = NoWorker
  Jobs = {j1}
  Workers = {w1, w2}
  Priorities <- HighPriority
  Starts = {"now", "future"}
  Rules = {FALSE}
  Retriable = {TRUE, FALSE}
  MaxAttempts = 2
  MaxReclaims = 2
  Mortal = {w1}
  Faults = {}
  Overrun = FALSE
  Services = {"scheduler"}
  MaxOutages = 1
  Submitters = {r1}
  Cancellers = {}
  Replayers = {}
  ApiFails = FALSE
SPECIFICATION FairSpec
INVARIANTS PriorityKept
PROPERTIES EventuallySettled AbandonedLocksEnd
