--------------------------- MODULE ReaperProcess ---------------------------
(***************************************************************************)
(* The standalone reaper (worker/reaper.py).  Its rounds do what the       *)
(* reaper and the retry pass of the scheduler do, but it also takes the    *)
(* reclaimed job off the in-flight list, survives a failed push, and       *)
(* pushes everything on queue:default.                                     *)
(***************************************************************************)
EXTENDS SchedulerProcess

VARIABLES
  rpc,     \* where the reaper is in run_once()
  rbatch,  \* the rows its current loop has still to requeue
  rcur     \* the row whose in-flight entry it has just removed

reaperVars == <<rpc, rbatch, rcur>>

ReaperLocations == {"off", "expire", "reclaim", "requeue", "pushBack",
                    "retries", "pushRetries"}

ReaperTypeOK ==
  /\ rpc \in ReaperLocations
  /\ rbatch \subseteq Jobs
  /\ rcur \in Jobs \cup {NoJob}
  /\ rpc = "pushBack" => rcur \in Jobs
  /\ rpc \in {"off", "expire", "reclaim", "retries"} => rbatch = {}

ReaperInit ==
  /\ rpc = "off"
  /\ rbatch = {}
  /\ rcur = NoJob

ReaperOwes == rbatch \cup (IF rpc = "pushBack" THEN {rcur} ELSE {})

\* The turn of a loop is over, with or without the push it was for.
NextTurn(at, after) == rpc' = IF rbatch' = {} THEN after ELSE at

-----------------------------------------------------------------------------
StartReaper ==
  /\ "reaper" \in Services
  /\ rpc = "off"
  /\ rpc' = "expire"
  /\ UNCHANGED <<rbatch, rcur, outages, storeVars, transportVars>>

ReaperExpires ==
  /\ rpc = "expire"
  /\ rpc' = "reclaim"
  /\ MarkExpiredWorkersDead
  /\ UNCHANGED <<rbatch, rcur, outages, transportVars>>

ReaperReclaims ==
  /\ rpc = "reclaim"
  /\ rbatch' = StaleJobs
  /\ NextTurn("requeue", "retries")
  /\ ReclaimStaleJobs
  /\ UNCHANGED <<rcur, outages, transportVars>>

\* requeue_job is two commands.
RequeueRemoves(j) ==
  /\ rpc = "requeue"
  /\ j \in rbatch
  /\ rpc' = "pushBack"
  /\ rbatch' = rbatch \ {j}
  /\ rcur' = j
  /\ Ack(j)
  /\ UNCHANGED <<outages, storeVars>>

RequeuePushes ==
  /\ rpc = "pushBack"
  /\ UNCHANGED rbatch
  /\ NextTurn("requeue", "retries")
  /\ rcur' = NoJob
  /\ EnqueueOn(rcur, "default")
  /\ UNCHANGED <<outages, storeVars>>

ReaperTakesRetries ==
  /\ rpc = "retries"
  /\ rbatch' = DueRetries
  /\ NextTurn("pushRetries", "expire")
  /\ ReclaimDueRetries
  /\ UNCHANGED <<rcur, outages, transportVars>>

ReaperPushesRetry(j) ==
  /\ rpc = "pushRetries"
  /\ j \in rbatch
  /\ rbatch' = rbatch \ {j}
  /\ NextTurn("pushRetries", "expire")
  /\ EnqueueOn(j, "default")
  /\ UNCHANGED <<rcur, outages, storeVars>>

-----------------------------------------------------------------------------
\* One job fails in Redis: logged, and the loop goes on with the others.
ReaperPushFails(j) ==
  /\ "redis" \in Faults
  /\ \/ /\ rpc \in {"requeue", "pushRetries"}
        /\ j \in rbatch
     \/ /\ rpc = "pushBack"
        /\ j = rcur
  /\ rbatch' = rbatch \ {j}
  /\ IF rpc = "pushRetries" THEN NextTurn("pushRetries", "expire")
                            ELSE NextTurn("requeue", "retries")
  /\ rcur' = NoJob
  /\ Drop({j})
  /\ UNCHANGED <<outages, storeVars>>

\* A statement raises: the round ends and the next one starts after a pause.
ReaperQueryFails ==
  /\ "db" \in Faults
  /\ rpc \in {"reclaim", "retries"}
  /\ rpc' = "expire"
  /\ UNCHANGED <<rbatch, rcur, outages, storeVars, transportVars>>

CrashReaper ==
  /\ outages < MaxOutages
  /\ rpc # "off"
  /\ rpc' = "off"
  /\ rbatch' = {}
  /\ rcur' = NoJob
  /\ outages' = outages + 1
  /\ Drop(ReaperOwes)
  /\ UNCHANGED storeVars

ReaperStep ==
  \/ StartReaper \/ ReaperExpires \/ ReaperReclaims
  \/ RequeuePushes \/ ReaperTakesRetries
  \/ \E j \in Jobs : RequeueRemoves(j) \/ ReaperPushesRetry(j)

ReaperNext ==
  ReaperStep \/ (\E j \in Jobs : ReaperPushFails(j)) \/ ReaperQueryFails \/ CrashReaper
=============================================================================
