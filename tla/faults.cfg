\* Redis commands and SQL statements raise, every process may crash once: a
\* PENDING job that is not carried was owed a reference by a process that
\* failed.
CONSTANTS
  j1 = j1  r1 = r1  w1 = w1
  NoJob = NoJob  NoWorker = NoWorker
  Jobs = {j1}
  Workers = {w1}
  Priorities <- NoPriority
  Starts = {"now", "future"}
  Rules = {FALSE}
  Retriable = {TRUE}
  MaxAttempts = 2
  MaxReclaims = 1
  Mortal = {w1}
  Faults = {"redis", "db"}
  Overrun = FALSE
  Services = {"scheduler", "reaper"}
  MaxOutages = 1
  Submitters = {r1}
  Cancellers = {}
  Replayers = {}
  ApiFails = TRUE
SPECIFICATION Spec
INVARIANTS NoStrandedJob
