\* Timeouts may expire under live workers, with the standalone reaper and two
\* replays that race with stale reports: no job is stranded, the attempts of a
\* row stay accounted for, a job in DEAD_LETTER always keeps a dead letter to
\* replay, and queue:processing follows the workers that hold a job.
CONSTANTS
  j1 = j1  p1 = p1  p2 = p2  r1 = r1  w1 = w1  w2 = w2
  NoJob = NoJob  NoWorker = NoWorker
  Jobs = {j1}
  Workers = {w1, w2}
  Priorities <- NoPriority
  Starts = {"now"}
  Rules = {FALSE}
  Retriable = {TRUE, FALSE}
  MaxAttempts = 2
  MaxReclaims = 1
  Mortal = {}
  Faults = {}
  Overrun = TRUE
  Services = {"reaper"}
  MaxOutages = 0
  Submitters = {r1}
  Cancellers = {}
  Replayers = {p1, p2}
  ApiFails = FALSE
SPECIFICATION Spec
SYMMETRY ActorSymmetry
INVARIANTS TypeOK NoStrandedJob AttemptsAccounted DeadLetterKept ProcessingMatchesHolders
