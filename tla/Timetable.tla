----------------------------- MODULE Timetable -----------------------------
(***************************************************************************)
(* The arithmetic of time that DistribuQ replaces by answers: the backoff  *)
(* of a retry (worker/retry.py), the next run of a recurring job           *)
(* (worker/recurrence.py), and what becomes of both dates on their way     *)
(* through the row, the sorted set and the polls of the scheduler, which   *)
(* may be late by any time.  One recurring job and its occurrences; one    *)
(* worker at a time executes it, and may crash.  The processes read one    *)
(* clock, in whole seconds, as they do on the one host of docker-compose.  *)
(***************************************************************************)
EXTENDS Integers, FiniteSetsExt

CONSTANTS
  Bases,        \* payload["_base_delay"], any integer
  Rules,        \* the kinds of recurrence_rule: "every" and/or "cron"
  Period,       \* the interval of the rule, and the distance of cron's ticks
  MaxAttempts,  \* max_attempts
  MaxDelay,     \* max_delay of compute_backoff_delay
  MaxTime,      \* bound: the last second of the clock
  MaxCrashes,   \* bound: crashes of a worker
  MaxRestarts   \* bound: restarts of the scheduler

ASSUME TimetableAssumption ==
  /\ Bases \subseteq Int
  /\ Rules \subseteq {"every", "cron"}
  /\ {Period, MaxAttempts, MaxDelay} \subseteq Nat \ {0}
  /\ {MaxTime, MaxCrashes, MaxRestarts} \subseteq Nat

VARIABLES
  now,           \* the clock
  base, rule,    \* what the client asked for
  status,        \* jobs.status of the latest occurrence
  attempts,      \* jobs.attempts
  scheduledFor,  \* jobs.scheduled_for
  retryAt,       \* jobs.next_retry_at
  inSet,         \* is the occurrence in zset:scheduled?
  refs,          \* references to it on the lists
  crashes, restarts,  \* bookkeeping: see MaxCrashes, MaxRestarts
  doubled,       \* bookkeeping: did a restart add a second reference?
  delay,         \* bookkeeping: the last backoff since the submit or replay
  failedAt,      \* bookkeeping: when the last attempt failed, if it did
  endedAt        \* bookkeeping: when the occurrence before succeeded

ask == <<base, rule>>
row == <<status, attempts, scheduledFor, retryAt>>
carried == <<inSet, refs>>
counters == <<crashes, restarts, doubled>>
vars == <<now, ask, row, carried, counters, delay, failedAt, endedAt>>

Never == -1

Init ==
  /\ now = 0 /\ attempts = 0 /\ refs = 0 /\ crashes = 0 /\ restarts = 0 /\ delay = 0
  /\ base \in Bases
  /\ rule \in Rules
  /\ status = "PENDING"
  /\ scheduledFor \in 0..Period
  /\ inSet = TRUE /\ doubled = FALSE
  /\ retryAt = Never /\ failedAt = Never /\ endedAt = Never

-----------------------------------------------------------------------------
(* The functions of retry.py and recurrence.py.                            *)

PowerOfTwo[n \in Nat] == IF n = 0 THEN 1 ELSE 2 * PowerOfTwo[n - 1]

Exponential(attempt) == Min({MaxDelay, base * PowerOfTwo[attempt - 1]})

\* Mutant: a delay drawn from the whole of 0..Exponential.
WrongBackoff(attempt) == 0..Exponential(attempt)

\* random.uniform(0, 0.5 * delay) runs downwards if the delay is negative.
Backoff(attempt) ==
  LET d == Exponential(attempt)
      Jitter == IF d >= 0 THEN 0..(d \div 2) ELSE -((-d) \div 2)..0
  IN {Min({MaxDelay, d + x}) : x \in Jitter}

NextRetryAt(seconds) == now + seconds

\* Mutant: counted from the date of this occurrence, so as not to drift.
WrongNextRunFromInterval == scheduledFor + Period

NextRunFromInterval == now + Period

\* Mutant: the tick at which the job ends, if it does.
WrongNextRunFromCron == ((now + Period - 1) \div Period) * Period

\* croniter's get_next: the first tick after now.
NextRunFromCron == (now \div Period + 1) * Period

NextRun == IF rule = "every" THEN NextRunFromInterval ELSE NextRunFromCron

-----------------------------------------------------------------------------
Tick ==
  /\ now < MaxTime
  /\ now' = now + 1
  /\ UNCHANGED <<ask, row, carried, counters, delay, failedAt, endedAt>>

\* run_once of the scheduler, at any time after the date.
Promote ==
  /\ inSet
  /\ scheduledFor <= now
  /\ inSet' = FALSE
  /\ refs' = refs + 1
  /\ UNCHANGED <<now, ask, row, counters, delay, failedAt, endedAt>>

\* sync_from_db, which asks for PENDING rows only.
RestartScheduler ==
  /\ restarts < MaxRestarts
  /\ restarts' = restarts + 1
  /\ inSet' = (inSet \/ status = "PENDING")
  /\ doubled' = (doubled \/ (status = "PENDING" /\ ~inSet))
  /\ UNCHANGED <<now, ask, row, refs, crashes, delay, failedAt, endedAt>>

\* fetch_and_lock_job.
Start ==
  /\ refs > 0
  /\ status \in {"PENDING", "RETRYING"}
  /\ refs' = refs - 1
  /\ status' = "RUNNING"
  /\ attempts' = attempts + 1
  /\ UNCHANGED <<now, ask, scheduledFor, retryAt, inSet, counters, delay, failedAt, endedAt>>

\* A reference to a row that cannot be locked.
Discard ==
  /\ refs > 0
  /\ status \notin {"PENDING", "RETRYING"}
  /\ refs' = refs - 1
  /\ UNCHANGED <<now, ask, row, inSet, counters, delay, failedAt, endedAt>>

FailAndRetry ==
  /\ status = "RUNNING"
  /\ attempts < MaxAttempts
  /\ status' = "RETRYING"
  /\ delay' \in Backoff(attempts)
  /\ retryAt' = NextRetryAt(delay')
  /\ failedAt' = now
  /\ UNCHANGED <<now, ask, attempts, scheduledFor, carried, counters, endedAt>>

FailForGood ==
  /\ status = "RUNNING"
  /\ attempts >= MaxAttempts
  /\ status' = "DEAD_LETTER"
  /\ UNCHANGED <<now, ask, attempts, scheduledFor, retryAt, carried, counters, delay, failedAt, endedAt>>

\* Mutant: the statement looks at the status only.
WrongRetryIsDue == TRUE

RetryIsDue == retryAt <= now

PromoteRetry ==
  /\ status = "RETRYING"
  /\ RetryIsDue
  /\ status' = "PENDING"
  /\ refs' = refs + 1
  /\ UNCHANGED <<now, ask, attempts, scheduledFor, retryAt, inSet, counters, delay, failedAt, endedAt>>

\* The worker crashes and the row is taken back, at any later time.
Reclaim ==
  /\ status = "RUNNING"
  /\ crashes < MaxCrashes
  /\ crashes' = crashes + 1
  /\ status' = "PENDING"
  /\ refs' = refs + 1
  /\ failedAt' = Never
  /\ UNCHANGED <<now, ask, attempts, scheduledFor, retryAt, inSet, restarts, doubled, delay, endedAt>>

Replay ==
  /\ status = "DEAD_LETTER"
  /\ status' = "PENDING"
  /\ attempts' = 0
  /\ retryAt' = Never /\ failedAt' = Never
  /\ delay' = 0
  /\ refs' = refs + 1
  /\ UNCHANGED <<now, ask, scheduledFor, inSet, counters, endedAt>>

Succeed ==
  /\ status = "RUNNING"
  /\ status' = "SUCCESS"
  /\ endedAt' = now
  /\ UNCHANGED <<now, ask, attempts, scheduledFor, retryAt, carried, counters, delay, failedAt>>

\* A row of its own: references to the row before are of no use any more.
CreateNext ==
  /\ status = "SUCCESS"
  /\ status' = "PENDING"
  /\ scheduledFor' = NextRun
  /\ attempts' = 0
  /\ retryAt' = Never /\ failedAt' = Never
  /\ delay' = 0
  /\ inSet' = TRUE
  /\ refs' = 0
  /\ doubled' = FALSE
  /\ UNCHANGED <<now, ask, crashes, restarts, endedAt>>

Next ==
  \/ Tick \/ Promote \/ RestartScheduler \/ Start \/ Discard \/ FailAndRetry \/ FailForGood
  \/ PromoteRetry \/ Reclaim \/ Replay \/ Succeed \/ CreateNext

Spec == Init /\ [][Next]_vars

-----------------------------------------------------------------------------
\* The backoff of a job never shrinks from one failure to the next, whatever
\* the jitter and wherever the cap cuts it off, with reclaims in between, too:
\* only a replay starts it again.  (A negative base is retried at once.)
DelaysGrow ==
  [][base >= 0 /\ FailAndRetry => delay' >= delay]_vars

\* A retry starts at least the exponential delay after the failure, however
\* late the scheduler is; unless a restart of the scheduler has doubled a
\* reference, which then runs the retry at once.  (A job that was taken back
\* from a crashed worker does not wait.)
RetrySpacing ==
  [][Start /\ failedAt # Never /\ ~doubled =>
       now >= failedAt + Exponential(attempts)]_vars

\* After an outage an interval job does not make up for the runs it missed:
\* between a success and any attempt of the next occurrence lies a whole
\* interval.
NoBurst ==
  [][Start /\ rule = "every" /\ endedAt # Never => now >= endedAt + Period]_vars

\* No two occurrences have the same date, or go back: a cron tick runs once,
\* though a restart of the scheduler doubles references, and a missed tick
\* is left out.
DatesAdvance == [][CreateNext => scheduledFor' > scheduledFor]_vars
=============================================================================
