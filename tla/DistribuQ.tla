----------------------------- MODULE DistribuQ -----------------------------
(***************************************************************************)
(* DistribuQ as a whole: any number of workers, one scheduler, the API,    *)
(* time and, where it is started (docker-compose.yml does not), the        *)
(* standalone reaper, over one PostgreSQL database and one Redis server.   *)
(* Every process takes its own steps; a step of one leaves the local state *)
(* of the others alone.                                                    *)
(***************************************************************************)
EXTENDS ApiService

vars == <<storeVars, transportVars, workerVars, schedulerVars, outages,
          reaperVars, apiVars>>

TypeOK ==
  /\ StoreTypeOK /\ TransportTypeOK /\ WorkerTypeOK
  /\ SchedulerTypeOK /\ ReaperTypeOK /\ ApiTypeOK

Init ==
  /\ StoreInit /\ TransportInit /\ WorkerInit
  /\ SchedulerInit /\ ReaperInit /\ ApiInit

LeavesWorkers == UNCHANGED workerVars
LeavesServices == UNCHANGED <<schedulerVars, outages, reaperVars>>
LeavesApi == UNCHANGED apiVars

WorkerMoves(w) == WorkerStep(w) /\ LeavesServices /\ LeavesApi

SchedulerMoves == SchedulerStep /\ LeavesWorkers /\ LeavesApi /\ UNCHANGED reaperVars

ReaperMoves == ReaperStep /\ LeavesWorkers /\ LeavesApi /\ UNCHANGED schedulerVars

RequestMoves(r) == LaterStep(r) /\ LeavesWorkers /\ LeavesServices

\* The answers of the clock, each with the variables it does not touch.
RetryDue(j) ==
  /\ RetryBecomesDue(j)
  /\ UNCHANGED transportVars /\ LeavesWorkers /\ LeavesServices /\ LeavesApi

StartDue(j) ==
  /\ StartBecomesDue(j)
  /\ UNCHANGED transportVars /\ LeavesWorkers /\ LeavesServices /\ LeavesApi

LockOverdue(j) == LockGoesStale(j) /\ LeavesServices /\ LeavesApi
HeartbeatOverdue(w) == HeartbeatGoesLate(w) /\ LeavesServices /\ LeavesApi

Time == \/ \E j \in Jobs : RetryDue(j) \/ StartDue(j) \/ LockOverdue(j)
        \/ \E w \in Workers : HeartbeatOverdue(w)

Next ==
  \/ WorkerNext /\ LeavesServices /\ LeavesApi
  \/ SchedulerNext /\ LeavesWorkers /\ LeavesApi /\ UNCHANGED reaperVars
  \/ ReaperNext /\ LeavesWorkers /\ LeavesApi /\ UNCHANGED schedulerVars
  \/ ApiNext /\ LeavesWorkers /\ LeavesServices
  \/ Time

Spec == Init /\ [][Next]_vars

(***************************************************************************)
(* Fairness.  A live process goes on executing (docker restarts the        *)
(* scheduler, a handler returns), requests that were begun run to their    *)
(* end, clocks advance, and the 5 second timer of the reaper pass fires    *)
(* again and again although most rounds skip the pass.  Nothing is assumed *)
(* of failures, crashes or new requests.                                   *)
(***************************************************************************)
Fairness ==
  /\ \A w \in Workers : WF_vars(WorkerMoves(w)) /\ WF_vars(HeartbeatOverdue(w))
  /\ WF_vars(SchedulerMoves)
  /\ SF_vars(SchedulerMoves /\ ExpireWorkers)
  /\ WF_vars(ReaperMoves)
  /\ \A r \in Requests : WF_vars(RequestMoves(r))
  /\ \A j \in Jobs : WF_vars(RetryDue(j)) /\ WF_vars(StartDue(j))
                       /\ WF_vars(LockOverdue(j))

FairSpec == Spec /\ Fairness

-----------------------------------------------------------------------------
(* No job is lost.                                                         *)

Cancelled(j) == \E r \in Cancellers : target[r] = j

\* A reference to j is in Redis, or a process that is still at work will
\* put one there or lock the row.
Carried(j) ==
  \/ InRedis(j)
  \/ \E w \in Workers : j \in Carries(w)
  \/ j \in SchedulerOwes
  \/ j \in ReaperOwes
  \/ \E r \in Submitters \cup Replayers : j \in RequestOwes(r)

\* A PENDING row is not polled by anyone, so it must be carried to a worker:
\* whatever interleaves, a job loses its last reference only through a
\* process that failed while it owed one, or through a cancel request.
NoStrandedJob ==
  \A j \in Jobs : Status(j) = "PENDING" =>
                    Carried(j) \/ j \in dropped \/ Cancelled(j)

\* The row of a RUNNING job names the worker that is executing it, or one
\* that crashed, as long as the database answers: a worker goes on to other
\* work and leaves the lock behind only where it could not compute the date
\* of a retry, of a job whose payload is to blame and has attempts left.
OwnerAttends ==
  \A j \in Jobs : Status(j) = "RUNNING" =>
    \E w \in Workers :
      /\ jobs[j].lockedBy = w
      /\ \/ Executing(w, j)
         \/ pc[w] = "crashed"
         \/ ~jobs[j].retriable /\ jobs[j].attempts < MaxAttempts

-----------------------------------------------------------------------------
(* A job is executed by one worker at a time.                              *)

\* While no timeout expires under a live worker, no two workers are between
\* the lock and the report of the same job.
SoleExecution ==
  \A j \in Jobs : \A v, w \in Workers :
    Executing(v, j) /\ Executing(w, j) => v = w

\* While no timeout expires under a live worker, an outcome is final: only
\* the replay of a dead letter changes a SUCCESS, FAILED or DEAD_LETTER row.
TerminalIsFinal ==
  [][\A j \in Jobs :
       Status(j) \in Terminal /\ jobs'[j].status # Status(j) =>
         /\ Status(j) = "DEAD_LETTER"
         /\ \E r \in Replayers : CommitReplay(r) /\ target[r] = j]_vars

BagCount(j) == queue["high"][j] + queue["default"][j] + queue["low"][j]
               + (IF j \in scheduled THEN 1 ELSE 0)

\* Whoever carries a reference to j, or has used it up to execute j.
Carriers(j) ==
  {w \in Workers : j \in Carries(w) \/ Executing(w, j)}
    \cup {r \in Submitters \cup Replayers : j \in RequestOwes(r)}
    \cup (IF j \in SchedulerOwes THEN {"scheduler"} ELSE {})
    \cup (IF j \in ReaperOwes THEN {"reaper"} ELSE {})

\* While no timeout expires under a live worker, a job that was not delayed
\* (and that no scheduler syncs) has one reference or one executor, never
\* two: the scheduler and the reaper both poll the same rows, and cancel,
\* replay and reclaim interleave with them.
SingleReference ==
  \A j \in Jobs : jobs[j].start = "now" =>
                    BagCount(j) + Cardinality(Carriers(j)) <= 1

-----------------------------------------------------------------------------
(* Attempts, dead letters, delays, recurrence.                             *)

ReplaysOf(j) ==
  Cardinality({r \in Replayers : apc[r] \in {"committed", "done", "aborted"}
                                   /\ target[r] = j})

\* A row is locked at most max_attempts times, plus once for every time it
\* was reclaimed or reset: however many references to it there are, and
\* however many workers report on it.
AttemptsAccounted ==
  \A j \in Jobs : jobs[j].attempts <= MaxAttempts + reclaims[j] + ReplaysOf(j)

\* A job in DEAD_LETTER has a dead letter, so that it can be replayed:
\* stale reports and replays that race never leave it without one.
DeadLetterKept ==
  \A j \in Jobs : Status(j) = "DEAD_LETTER" =>
                    \E n \in 1..letters[j] : <<j, n>> \in deadLetters

\* While no timeout expires under a live worker, and with one replay at a
\* time, a job has one dead letter while it is in DEAD_LETTER and none
\* otherwise.
DeadLettersExact ==
  \A j \in Jobs : Cardinality({n \in 1..letters[j] : <<j, n>> \in deadLetters})
                    = IF Status(j) = "DEAD_LETTER" THEN 1 ELSE 0

\* A job whose scheduled_for lies ahead has never been given to a worker
\* and waits on no list.
NotBeforeItsTime ==
  \A j \in Jobs : jobs[j].start = "future" =>
                    /\ jobs[j].attempts = 0
                    /\ ~Queued(j)
                    /\ \A w \in Workers : held[w] # j

\* A recurring job that succeeded has a next occurrence, or a worker that
\* is about to create it, or lost that worker (or there is no id left).
ChainContinues ==
  \A j \in Jobs : Status(j) = "SUCCESS" /\ jobs[j].recurring =>
    \/ \E k \in Jobs : parent[k] = j
    \/ \E w \in Workers : pc[w] = "recurring" /\ held[w] = j
    \/ j \in dropped
    \/ Fresh = {}

\* While no timeout expires under a live worker, an occurrence is followed
\* by one next occurrence, never by two.
ChainDoesNotFork ==
  \A k, l \in Jobs : parent[k] # NoJob /\ parent[k] = parent[l] => k = l

-----------------------------------------------------------------------------
(* The lists.                                                              *)

InFlight(j) ==
  {w \in Workers : held[w] = j /\ Holding(w) /\ pc[w] # "popped"}

\* As long as nobody crashes and Redis answers, queue:processing holds no
\* reference beyond one for every worker that has the job in hand, so that it
\* does not grow; and it lacks none, but for the entries that the reaper
\* took while the stale worker went on.
ProcessingMatchesHolders ==
  \A j \in Jobs :
    LET holders == Cardinality(InFlight(j)) IN
      processing[j] \in (holders - reclaims[j])..holders

\* Without the standalone reaper, a job that was not delayed waits on the list
\* of its priority, after a retry or a reclaim as well; only a replay
\* adds a reference to queue:default.
PriorityKept ==
  \A j \in Jobs : jobs[j].start = "now" =>
    \A t \in Tiers \ {TierOf(jobs[j].priority)} :
      queue[t][j] <= (IF t = "default" THEN ReplaysOf(j) ELSE 0)

-----------------------------------------------------------------------------
(* What the documentation promises and the code does not keep.             *)

\* "Relies completely on visibility timeout and heartbeat reaper to reclaim
\* the in-flight job with zero data loss" (PROJECT_SPEC.md): an accepted job
\* that is PENDING is carried to a worker even when a process crashes.
NeverLost ==
  \A j \in Jobs : Status(j) = "PENDING" => Carried(j) \/ Cancelled(j)

\* A cancel request is a no-op for a job it does not cancel: the job is
\* still carried.
CancelIsNoOpOtherwise ==
  \A j \in Jobs : Status(j) = "PENDING" => Carried(j) \/ j \in dropped

\* SUCCESS has no successor in the documented state machine.
SuccessIsFinal ==
  [][\A j \in Jobs : Status(j) = "SUCCESS" => jobs'[j].status = "SUCCESS"]_vars

-----------------------------------------------------------------------------
(* Progress, under FairSpec.                                               *)

Settled(j) == Status(j) \in Terminal

\* Every accepted job reaches an outcome, unless a process that failed owed
\* it a reference or a cancel request took its references away.
EventuallySettled ==
  \A j \in Jobs : Status(j) # "ABSENT" ~> Settled(j) \/ j \in dropped \/ Cancelled(j)

\* A lock whose owner does not execute the job does not last: the owner
\* crashed, or it lives, heartbeats and all, and failed to report.
AbandonedLocksEnd ==
  \A j \in Jobs, w \in Workers :
    jobs[j].lockedBy = w /\ ~Executing(w, j) ~> jobs[j].lockedBy # w
=============================================================================
