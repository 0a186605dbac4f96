\* A cancel request finds the job RETRYING and changes nothing in the row; the
\* scheduler promotes the retry, and the request then removes the new
\* reference.
CONSTANTS
  c1 = c1  j1 = j1  r1 = r1  w1 = w1  w2 = w2
  NoJob = NoJob  NoWorker = NoWorker
  Jobs = {j1}
  Workers = {w1, w2}
  Priorities <- NoPriority
  Starts = {"now"}
  Rules = {FALSE}
  Retriable = {TRUE}
  MaxAttempts = 2
  MaxReclaims = 2
  Mortal = {}
  Faults = {}
  Overrun = FALSE
  Services = {"scheduler"}
  MaxOutages = 0
  Submitters = {r1}
  Cancellers = {c1}
  Replayers = {}
  ApiFails = FALSE
SPECIFICATION Spec
INVARIANTS CancelIsNoOpOtherwise
