\* A worker that lost its job to the reaper reports a failure after the second
\* worker has reported success: SUCCESS becomes RETRYING or DEAD_LETTER.
CONSTANTS
  j1 = j1  r1 = r1  w1 = w1  w2 = w2
  NoJob = NoJob  NoWorker = NoWorker
  Jobs = {j1}
  Workers = {w1, w2}
  Priorities <- NoPriority
  Starts = {"now"}
  Rules = {FALSE}
  Retriable = {TRUE}
  MaxAttempts = 2
  MaxReclaims = 2
  Mortal = {}
  Faults = {}
  Overrun = TRUE
  Services = {"scheduler"}
  MaxOutages = 0
  Submitters = {r1}
  Cancellers = {}
  Replayers = {}
  ApiFails = FALSE
SPECIFICATION FairSpec
PROPERTIES SuccessIsFinal
