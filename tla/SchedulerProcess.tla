-------------------------- MODULE SchedulerProcess --------------------------
(***************************************************************************)
(* The scheduler process (scheduler/scheduler.py): one sync of the delayed *)
(* jobs when it starts, then rounds of three passes: promote the delayed   *)
(* jobs that are due, promote the retries that are due, and, every 5       *)
(* seconds, take jobs back from dead or overdue workers.  A pass first     *)
(* commits in PostgreSQL and then pushes one reference after the other.    *)
(***************************************************************************)
EXTENDS WorkerProcess

CONSTANTS
  Services,       \* which of "scheduler" and "reaper" are started
  MaxOutages      \* bound: crashes of the scheduler and of the reaper

ASSUME ServiceAssumption ==
  /\ Services \subseteq {"scheduler", "reaper"}
  /\ MaxOutages \in Nat

VARIABLES
  spc,      \* where the scheduler is in start()
  sbatch,   \* the rows its current loop has still to push
  outages   \* bookkeeping: crashes so far

schedulerVars == <<spc, sbatch>>

SchedulerLocations == {"off", "syncing", "promote", "retries", "pushRetries",
                       "expire", "reclaim", "pushStale"}

SchedulerTypeOK ==
  /\ spc \in SchedulerLocations
  /\ sbatch \subseteq Jobs
  /\ outages \in Nat

SchedulerInit ==
  /\ spc = "off"
  /\ sbatch = {}
  /\ outages = 0

\* The rows whose new reference only the scheduler still carries.
SchedulerOwes == IF spc \in {"pushRetries", "pushStale"} THEN sbatch ELSE {}

Advance(from, to) == spc = from /\ spc' = to

\* One turn of a for loop: serve one row, leave the loop with the last.
ServeOne(j, at, after) ==
  /\ spc = at
  /\ j \in sbatch
  /\ sbatch' = sbatch \ {j}
  /\ spc' = IF sbatch' = {} THEN after ELSE at

\* A for loop over no row is left at once.
Enter(batch, at, after) ==
  /\ sbatch' = batch
  /\ spc' = IF batch = {} THEN after ELSE at

-----------------------------------------------------------------------------
StartScheduler ==
  /\ "scheduler" \in Services
  /\ spc = "off"
  /\ Enter(PendingScheduled, "syncing", "promote")
  /\ UNCHANGED <<outages, storeVars, transportVars>>

SyncJob(j) ==
  /\ ServeOne(j, "syncing", "promote")
  /\ Schedule(j)
  /\ UNCHANGED <<outages, storeVars>>

PromoteDelayed ==
  /\ Advance("promote", "retries")
  /\ PromoteDue
  /\ UNCHANGED <<sbatch, outages, storeVars>>

TakeRetries ==
  /\ spc = "retries"
  /\ Enter(DueRetries, "pushRetries", "expire")
  /\ ReclaimDueRetries
  /\ UNCHANGED <<outages, transportVars>>

\* Mutant: enqueue_job without the priority.
WrongPushRetry(j) ==
  /\ ServeOne(j, "pushRetries", "expire")
  /\ Enqueue(j, 0)
  /\ UNCHANGED <<outages, storeVars>>

PushRetry(j) ==
  /\ ServeOne(j, "pushRetries", "expire")
  /\ Enqueue(j, jobs[j].priority)
  /\ UNCHANGED <<outages, storeVars>>

\* Less than 5 seconds since the last reaper pass.
SkipReaper ==
  /\ Advance("expire", "promote")
  /\ UNCHANGED <<sbatch, outages, storeVars, transportVars>>

ExpireWorkers ==
  /\ Advance("expire", "reclaim")
  /\ MarkExpiredWorkersDead
  /\ UNCHANGED <<sbatch, outages, transportVars>>

TakeStale ==
  /\ spc = "reclaim"
  /\ Enter(StaleJobs, "pushStale", "promote")
  /\ ReclaimStaleJobs
  /\ UNCHANGED <<outages, transportVars>>

\* Nothing removes the entry of the job from the in-flight list.
PushStale(j) ==
  /\ ServeOne(j, "pushStale", "promote")
  /\ Enqueue(j, jobs[j].priority)
  /\ UNCHANGED <<outages, storeVars>>

-----------------------------------------------------------------------------
\* Each pass catches its exceptions, and with it ends: what it has not
\* pushed yet is not pushed.
SchedulerFails ==
  /\ \/ /\ "redis" \in Faults
        /\ \/ Advance("syncing", "promote")
           \/ Advance("pushRetries", "expire")
           \/ Advance("pushStale", "promote")
     \/ /\ "db" \in Faults
        /\ \/ Advance("retries", "expire")
           \/ Advance("expire", "promote")
           \/ Advance("reclaim", "promote")
  /\ Drop(SchedulerOwes)
  /\ sbatch' = {}
  /\ UNCHANGED <<outages, storeVars>>

CrashScheduler ==
  /\ outages < MaxOutages
  /\ spc # "off"
  /\ spc' = "off"
  /\ sbatch' = {}
  /\ outages' = outages + 1
  /\ Drop(SchedulerOwes)
  /\ UNCHANGED storeVars

SchedulerStep ==
  \/ StartScheduler \/ PromoteDelayed \/ TakeRetries \/ ExpireWorkers \/ TakeStale
  \/ \E j \in Jobs : SyncJob(j) \/ PushRetry(j) \/ PushStale(j)

SchedulerNext == SchedulerStep \/ SkipReaper \/ SchedulerFails \/ CrashScheduler
=============================================================================
