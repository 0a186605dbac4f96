------------------------------ MODULE JobStore ------------------------------
(***************************************************************************)
(* The PostgreSQL database of DistribuQ: the tables jobs, workers and      *)
(* dead_letters of db/schema.sql, and one operator for each statement (or  *)
(* each transaction) that worker/db.py and api/db.py run on them.  Every   *)
(* transaction commits before its function returns, so it is one atomic    *)
(* change of these variables; the processes that issue them are the        *)
(* modules that extend this one.                                           *)
(*                                                                         *)
(* Time.  A timestamp column is kept only as the answer to the comparison  *)
(* the code makes with it: lockStale is locked_at < NOW() - visibility     *)
(* timeout, retryDue is next_retry_at <= NOW(), start is scheduled_for     *)
(* against the scheduler's clock, and a worker row is LATE when it is      *)
(* 'ALIVE' with last_heartbeat < NOW() - worker timeout.  The actions that *)
(* let time pass turn these answers, at any moment the comparison could    *)
(* first come out so.                                                      *)
(***************************************************************************)
EXTENDS Integers, FiniteSets

CONSTANTS
  Jobs,         \* job ids; an id is fresh while its row is ABSENT
  Workers,      \* worker ids; a restarted worker process has a new id
  NoJob,        \* no job
  NoWorker,     \* the NULL of jobs.locked_by
  Priorities,   \* priorities a client may ask for
  Starts,       \* "now" (no scheduled_for) and/or "future"
  Rules,        \* recurrence_rule absent (FALSE) and/or present (TRUE)
  Retriable,    \* can compute_next_retry_at use the payload's _base_delay?
  MaxAttempts,  \* max_attempts of every job
  MaxReclaims   \* bound: how often one job may be reclaimed

ASSUME StoreAssumption ==
  /\ NoJob \notin Jobs
  /\ NoWorker \notin Workers
  /\ Priorities \subseteq Int
  /\ Starts \subseteq {"now", "future"}
  /\ Rules \subseteq BOOLEAN
  /\ Retriable \subseteq BOOLEAN
  /\ MaxAttempts \in Nat \ {0}
  /\ MaxReclaims \in Nat

VARIABLES
  jobs,         \* the table jobs
  deadLetters,  \* the table dead_letters: pairs <<job_id, row number>>
  letters,      \* rows ever inserted in dead_letters for a job (row ids)
  registry,     \* the table workers: status and heartbeat age
  reclaims,     \* bookkeeping: times a job was reclaimed
  parent        \* bookkeeping: the occurrence a recurring job follows

storeVars == <<jobs, deadLetters, letters, registry, reclaims, parent>>

Statuses == {"ABSENT", "PENDING", "RUNNING", "SUCCESS", "FAILED",
             "RETRYING", "DEAD_LETTER"}
Terminal == {"SUCCESS", "FAILED", "DEAD_LETTER"}

Row == [status    : Statuses,
        attempts  : Nat,
        lockedBy  : Workers \cup {NoWorker},
        lockStale : BOOLEAN,
        retryDue  : BOOLEAN,
        start     : {"now", "future", "due"},
        priority  : Int,
        recurring : BOOLEAN,
        retriable : BOOLEAN]

NewRow(priority, start, recurring, retriable) ==
  [status |-> "PENDING", attempts |-> 0, lockedBy |-> NoWorker,
   lockStale |-> FALSE, retryDue |-> FALSE, start |-> start,
   priority |-> priority, recurring |-> recurring, retriable |-> retriable]

AbsentRow == [NewRow(0, "now", FALSE, TRUE) EXCEPT !.status = "ABSENT"]

StoreTypeOK ==
  /\ jobs \in [Jobs -> Row]
  /\ deadLetters \subseteq Jobs \X Nat
  /\ letters \in [Jobs -> Nat]
  /\ registry \in [Workers -> {"ABSENT", "ALIVE", "LATE", "DEAD"}]
  /\ reclaims \in [Jobs -> Nat]
  /\ parent \in [Jobs -> Jobs \cup {NoJob}]

StoreInit ==
  /\ jobs = [j \in Jobs |-> AbsentRow]
  /\ deadLetters = {}
  /\ letters = [j \in Jobs |-> 0]
  /\ registry = [w \in Workers |-> "ABSENT"]
  /\ reclaims = [j \in Jobs |-> 0]
  /\ parent = [j \in Jobs |-> NoJob]

Status(j) == jobs[j].status
Fresh == {j \in Jobs : Status(j) = "ABSENT"}

-----------------------------------------------------------------------------
(* The rows the UPDATE statements write.                                   *)

Unlocked(row, status) ==
  [row EXCEPT !.status = status, !.lockedBy = NoWorker, !.lockStale = FALSE]

LockedRow(row, w) ==
  [row EXCEPT !.status = "RUNNING", !.lockedBy = w, !.lockStale = FALSE,
              !.attempts = @ + 1]

RetryingRow(row) == [Unlocked(row, "RETRYING") EXCEPT !.retryDue = FALSE]

ReplayedRow(row) ==
  [Unlocked(row, "PENDING") EXCEPT !.attempts = 0, !.retryDue = FALSE]

-----------------------------------------------------------------------------
(* api/db.py                                                               *)

InsertJob(j, row, origin) ==
  /\ j \in Fresh
  /\ jobs' = [jobs EXCEPT ![j] = row]
  /\ parent' = [parent EXCEPT ![j] = origin]
  /\ UNCHANGED <<deadLetters, letters, registry, reclaims>>

\* Mutant: UPDATE without AND status = 'PENDING'.
WrongCancelRow(j) ==
  /\ jobs' = [jobs EXCEPT ![j] = Unlocked(@, "FAILED")]
  /\ UNCHANGED <<deadLetters, letters, registry, reclaims, parent>>

\* The SELECT and the guarded UPDATE see the same outcome as one atomic
\* test: a row that is not PENDING at either of them is left alone.
CancelRow(j) ==
  /\ jobs' = IF Status(j) = "PENDING"
             THEN [jobs EXCEPT ![j] = Unlocked(@, "FAILED")]
             ELSE jobs
  /\ UNCHANGED <<deadLetters, letters, registry, reclaims, parent>>

\* Mutant: the DELETE is missing.
WrongReplayRow(j, n) ==
  /\ jobs' = [jobs EXCEPT ![j] = ReplayedRow(@)]
  /\ UNCHANGED <<deadLetters, letters, registry, reclaims, parent>>

\* DELETE and UPDATE of replay_dead_letter: neither looks at the status of
\* the job nor at whether the dead letter is still there.
ReplayRow(j, n) ==
  /\ deadLetters' = deadLetters \ {<<j, n>>}
  /\ jobs' = [jobs EXCEPT ![j] = ReplayedRow(@)]
  /\ UNCHANGED <<letters, registry, reclaims, parent>>

-----------------------------------------------------------------------------
(* worker/db.py: what a worker does to the job it holds.                   *)

\* Mutant: WHERE status <> 'RUNNING'.
WrongLockable(j) == Status(j) \notin {"ABSENT", "RUNNING"}

Lockable(j) == Status(j) \in {"PENDING", "RETRYING"}

FetchAndLock(j, w) ==
  /\ Lockable(j)
  /\ jobs' = [jobs EXCEPT ![j] = LockedRow(@, w)]
  /\ UNCHANGED <<deadLetters, letters, registry, reclaims, parent>>

MarkSuccess(j) ==
  /\ jobs' = [jobs EXCEPT ![j] = Unlocked(@, "SUCCESS")]
  /\ UNCHANGED <<deadLetters, letters, registry, reclaims, parent>>

MarkRetrying(j) ==
  /\ jobs' = [jobs EXCEPT ![j] = RetryingRow(@)]
  /\ UNCHANGED <<deadLetters, letters, registry, reclaims, parent>>

\* Mutant: one audit row per job, the first.
WrongMoveToDeadLetter(j) ==
  /\ jobs' = [jobs EXCEPT ![j] = Unlocked(@, "DEAD_LETTER")]
  /\ letters' = [letters EXCEPT ![j] = @ + 1]
  /\ deadLetters' = IF letters[j] = 0 THEN deadLetters \cup {<<j, 1>>}
                    ELSE deadLetters
  /\ UNCHANGED <<registry, reclaims, parent>>

MoveToDeadLetter(j) ==
  /\ jobs' = [jobs EXCEPT ![j] = Unlocked(@, "DEAD_LETTER")]
  /\ letters' = [letters EXCEPT ![j] = @ + 1]
  /\ deadLetters' = deadLetters \cup {<<j, letters[j] + 1>>}
  /\ UNCHANGED <<registry, reclaims, parent>>

\* The next occurrence copies the priority, the rule and the payload of the
\* one before.
InsertNextOccurrence(k, j) ==
  InsertJob(k, NewRow(jobs[j].priority, "future", jobs[j].recurring,
                      jobs[j].retriable), j)

-----------------------------------------------------------------------------
(* worker/db.py: what the scheduler and the reaper do.                     *)

PendingScheduled ==
  {j \in Jobs : Status(j) = "PENDING" /\ jobs[j].start # "now"}

\* Mutant: next_retry_at >= NOW().
WrongDueRetries == {j \in Jobs : Status(j) = "RETRYING" /\ ~jobs[j].retryDue}

DueRetries == {j \in Jobs : Status(j) = "RETRYING" /\ jobs[j].retryDue}

\* Mutant: a SELECT in place of the UPDATE ... RETURNING.
WrongReclaimDueRetries == UNCHANGED storeVars

\* next_retry_at is left as it is.
ReclaimDueRetries ==
  /\ jobs' = [j \in Jobs |-> IF j \in DueRetries
                             THEN Unlocked(jobs[j], "PENDING")
                             ELSE jobs[j]]
  /\ UNCHANGED <<deadLetters, letters, registry, reclaims, parent>>

\* Mutant: the test of last_heartbeat is missing.
WrongMarkExpiredWorkersDead ==
  /\ registry' = [w \in Workers |-> IF registry[w] = "ABSENT" THEN "ABSENT"
                                    ELSE "DEAD"]
  /\ UNCHANGED <<jobs, deadLetters, letters, reclaims, parent>>

\* A LATE row is an 'ALIVE' row whose last heartbeat is too old.
MarkExpiredWorkersDead ==
  /\ registry' = [w \in Workers |-> IF registry[w] = "LATE" THEN "DEAD"
                                    ELSE registry[w]]
  /\ UNCHANGED <<jobs, deadLetters, letters, reclaims, parent>>

\* Mutant: only the jobs of workers that are DEAD are taken back.
WrongStaleJobs ==
  {j \in Jobs : /\ Status(j) = "RUNNING"
                /\ jobs[j].lockedBy \in Workers
                /\ registry[jobs[j].lockedBy] = "DEAD"
                /\ reclaims[j] < MaxReclaims}

\* The statement's third test, a heartbeat older than the visibility
\* timeout, adds nothing: MarkExpiredWorkersDead runs just before it with
\* the shorter worker timeout.
StaleJobs ==
  {j \in Jobs : /\ Status(j) = "RUNNING"
                /\ \/ jobs[j].lockStale
                   \/ /\ jobs[j].lockedBy \in Workers
                      /\ registry[jobs[j].lockedBy] = "DEAD"
                /\ reclaims[j] < MaxReclaims}

ReclaimStaleJobs ==
  /\ jobs' = [j \in Jobs |-> IF j \in StaleJobs
                             THEN Unlocked(jobs[j], "PENDING")
                             ELSE jobs[j]]
  /\ reclaims' = [j \in Jobs |-> IF j \in StaleJobs THEN reclaims[j] + 1
                                 ELSE reclaims[j]]
  /\ UNCHANGED <<deadLetters, letters, registry, parent>>

-----------------------------------------------------------------------------
(* worker/db.py: the registry of workers.                                  *)

UpsertHeartbeat(w) ==
  /\ registry' = [registry EXCEPT ![w] = "ALIVE"]
  /\ UNCHANGED <<jobs, deadLetters, letters, reclaims, parent>>

MarkWorkerDead(w) ==
  /\ registry' = [registry EXCEPT ![w] = IF @ = "ABSENT" THEN @ ELSE "DEAD"]
  /\ UNCHANGED <<jobs, deadLetters, letters, reclaims, parent>>

-----------------------------------------------------------------------------
(* Time passes for a row.                                                  *)

RetryBecomesDue(j) ==
  /\ Status(j) = "RETRYING"
  /\ ~jobs[j].retryDue
  /\ jobs' = [jobs EXCEPT ![j].retryDue = TRUE]
  /\ UNCHANGED <<deadLetters, letters, registry, reclaims, parent>>

StartBecomesDue(j) ==
  /\ Status(j) # "ABSENT"
  /\ jobs[j].start = "future"
  /\ jobs' = [jobs EXCEPT ![j].start = "due"]
  /\ UNCHANGED <<deadLetters, letters, registry, reclaims, parent>>

LockTurnsStale(j) ==
  /\ Status(j) = "RUNNING"
  /\ ~jobs[j].lockStale
  /\ jobs' = [jobs EXCEPT ![j].lockStale = TRUE]
  /\ UNCHANGED <<deadLetters, letters, registry, reclaims, parent>>

HeartbeatTurnsLate(w) ==
  /\ registry[w] = "ALIVE"
  /\ registry' = [registry EXCEPT ![w] = "LATE"]
  /\ UNCHANGED <<jobs, deadLetters, letters, reclaims, parent>>
=============================================================================
