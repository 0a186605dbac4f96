--------------------------- MODULE WorkerProcess ---------------------------
(***************************************************************************)
(* The worker processes (worker/worker.py) with their heartbeats           *)
(* (worker/heartbeat.py).  A worker is one asyncio task that reserves a    *)
(* reference, locks the row, runs the handler, reports the outcome and     *)
(* acknowledges; every await of a Redis command or of a transaction is a   *)
(* step, so the steps of all processes interleave.                         *)
(***************************************************************************)
EXTENDS Transport

CONSTANTS
  Mortal,   \* workers that may crash at any step, or be told to stop
  Faults,   \* the calls that may raise: "db", "redis"
  Overrun   \* TRUE: a timeout may expire while its worker is still alive,
            \* because a handler outlasts the visibility timeout or holds
            \* up the event loop that sends the heartbeats

ASSUME WorkerAssumption ==
  /\ Mortal \subseteq Workers
  /\ Faults \subseteq {"db", "redis"}
  /\ Overrun \in BOOLEAN

VARIABLES
  pc,    \* where a worker is in start() and process_job()
  held,  \* the job_id it reserved
  snap,  \* the attempts that fetch_and_lock_job returned to it
  next   \* the row it inserted for the next occurrence

workerVars == <<pc, held, snap, next>>

Locations == {"off", "idle", "popped", "reserved", "running", "failed",
              "recurring", "rescheduling", "acking", "stopped", "crashed"}

WorkerInit ==
  /\ pc = [w \in Workers |-> "off"]
  /\ held = [w \in Workers |-> NoJob]
  /\ snap = [w \in Workers |-> 0]
  /\ next = [w \in Workers |-> NoJob]

Gone == {"off", "stopped", "crashed"}
Holding(w) == pc[w] \in {"popped", "reserved", "running", "failed", "recurring",
                         "rescheduling", "acking"}

WorkerTypeOK ==
  /\ pc \in [Workers -> Locations]
  /\ held \in [Workers -> Jobs \cup {NoJob}]
  /\ snap \in [Workers -> Nat]
  /\ next \in [Workers -> Jobs \cup {NoJob}]
  /\ \A w \in Workers : Holding(w) => held[w] \in Jobs
  /\ \A w \in Workers : pc[w] = "rescheduling" => next[w] \in Jobs

\* w is between its lock on j and the report of the outcome.
Executing(w, j) == held[w] = j /\ pc[w] \in {"running", "failed"}

Go(w, from, to) == pc[w] = from /\ pc' = [pc EXCEPT ![w] = to]

\* Back to the loop of start() with nothing in hand, or out of it.
LetGo(w, to) ==
  /\ pc' = [pc EXCEPT ![w] = to]
  /\ held' = [held EXCEPT ![w] = NoJob]
  /\ snap' = [snap EXCEPT ![w] = 0]
  /\ next' = [next EXCEPT ![w] = NoJob]

\* The row that only w knows of: the reference it took off a list, or the
\* next occurrence it has inserted and not yet scheduled.
Carries(w) == CASE pc[w] \in {"popped", "reserved"} -> {held[w]}
                [] pc[w] = "rescheduling" -> {next[w]}
                [] OTHER -> {}

\* What is lost if w does not take its next step: that row, or the next
\* occurrence it should have created.
Owed(w) == Carries(w) \cup (IF pc[w] = "recurring" THEN {held[w]} ELSE {})

-----------------------------------------------------------------------------
(* Start and heartbeats.                                                   *)

StartWorker(w) ==
  /\ Go(w, "off", "idle")
  /\ \/ UpsertHeartbeat(w)
     \/ "db" \in Faults /\ UNCHANGED storeVars
  /\ UNCHANGED <<held, snap, next, transportVars>>

Heartbeat(w) ==
  /\ pc[w] \notin Gone
  /\ registry[w] # "ALIVE"
  /\ UpsertHeartbeat(w)
  /\ UNCHANGED <<workerVars, transportVars>>

\* last_heartbeat grows older than the worker timeout.
HeartbeatGoesLate(w) ==
  /\ Overrun \/ pc[w] \in Gone \/ "db" \in Faults
  /\ HeartbeatTurnsLate(w)
  /\ UNCHANGED <<workerVars, transportVars>>

\* locked_at grows older than the visibility timeout.
LockGoesStale(j) ==
  /\ Overrun \/ \A w \in Workers : ~Executing(w, j)
  /\ LockTurnsStale(j)
  /\ UNCHANGED <<workerVars, transportVars>>

-----------------------------------------------------------------------------
(* Reserve: the scan of priority_reserve_job, then its blocking pop.       *)

\* The lists before t were empty when the scan looked at them.
ReserveJob(w, j, t) ==
  /\ Go(w, "idle", "reserved")
  /\ MoveToProcessing(j, t)
  /\ held' = [held EXCEPT ![w] = j]
  /\ UNCHANGED <<snap, next, storeVars>>

PopJob(w, j, t) ==
  /\ Go(w, "idle", "popped")
  /\ BlockingPop(j, t)
  /\ held' = [held EXCEPT ![w] = j]
  /\ UNCHANGED <<snap, next, storeVars>>

StoreReserved(w) ==
  /\ Go(w, "popped", "reserved")
  /\ PushProcessing(held[w])
  /\ UNCHANGED <<held, snap, next, storeVars>>

\* The exception reaches the loop of start(), which goes on without the job.
StoreReservedFails(w) ==
  /\ "redis" \in Faults
  /\ pc[w] = "popped"
  /\ LetGo(w, "idle")
  /\ Drop(Owed(w))
  /\ UNCHANGED storeVars

-----------------------------------------------------------------------------
(* process_job: lock, run, report.                                         *)

LockJob(w) ==
  /\ Go(w, "reserved", "running")
  /\ FetchAndLock(held[w], w)
  /\ snap' = [snap EXCEPT ![w] = jobs'[held[w]].attempts]
  /\ UNCHANGED <<held, next, transportVars>>

\* Mutant: return without ack_job.
WrongSkipJob(w) ==
  /\ pc[w] = "reserved"
  /\ LetGo(w, "idle")
  /\ ~Lockable(held[w])
  /\ UNCHANGED <<storeVars, transportVars>>

SkipJob(w) ==
  /\ Go(w, "reserved", "acking")
  /\ ~Lockable(held[w])
  /\ UNCHANGED <<held, snap, next, storeVars, transportVars>>

\* fetch_and_lock_job raises outside of the try block: nothing is
\* acknowledged.  The UPDATE may have been committed all the same.
LockFails(w) ==
  /\ "db" \in Faults
  /\ pc[w] = "reserved"
  /\ LetGo(w, "idle")
  /\ Drop(Owed(w))
  /\ \/ UNCHANGED storeVars
     \/ FetchAndLock(held[w], w)

HandlerFails(w) ==
  /\ Go(w, "running", "failed")
  /\ UNCHANGED <<held, snap, next, storeVars, transportVars>>

\* Mutant: a job that needed a retry is not continued (job["attempts"] == 1).
WrongReportSuccess(w) ==
  /\ Go(w, "running", IF jobs[held[w]].recurring /\ snap[w] = 1
                      THEN "recurring" ELSE "acking")
  /\ MarkSuccess(held[w])
  /\ UNCHANGED <<held, snap, next, transportVars>>

ReportSuccess(w) ==
  /\ Go(w, "running", IF jobs[held[w]].recurring THEN "recurring"
                      ELSE "acking")
  /\ MarkSuccess(held[w])
  /\ UNCHANGED <<held, snap, next, transportVars>>

\* mark_job_success raises inside of the try block, so the except branch
\* takes the job for one that failed.
ReportSuccessFails(w) ==
  /\ "db" \in Faults
  /\ Go(w, "running", "failed")
  /\ \/ UNCHANGED storeVars
     \/ MarkSuccess(held[w])
  /\ UNCHANGED <<held, snap, next, transportVars>>

\* Mutant: current_attempts <= max_attempts.
WrongReportRetry(w) ==
  /\ Go(w, "failed", "acking")
  /\ snap[w] <= MaxAttempts
  /\ MarkRetrying(held[w])
  /\ UNCHANGED <<held, snap, next, transportVars>>

ReportRetry(w) ==
  /\ Go(w, "failed", "acking")
  /\ snap[w] < MaxAttempts
  /\ MarkRetrying(held[w])
  /\ UNCHANGED <<held, snap, next, transportVars>>

\* compute_next_retry_at raises: the _base_delay that the client put in the
\* payload is no number, or takes the date out of range (at this attempt
\* perhaps, and not at another).  The finally clause acknowledges a job that
\* stays RUNNING.
NoRetryDate(w) ==
  /\ Go(w, "failed", "acking")
  /\ snap[w] < MaxAttempts
  /\ ~jobs[held[w]].retriable
  /\ UNCHANGED <<held, snap, next, storeVars, transportVars>>

ReportDead(w) ==
  /\ Go(w, "failed", "acking")
  /\ snap[w] >= MaxAttempts
  /\ MoveToDeadLetter(held[w])
  /\ UNCHANGED <<held, snap, next, transportVars>>

\* The statement that reports the failure raises too: the finally clause
\* acknowledges a job that stays RUNNING.
ReportFailureFails(w) ==
  /\ "db" \in Faults
  /\ Go(w, "failed", "acking")
  /\ UNCHANGED <<held, snap, next, storeVars, transportVars>>

-----------------------------------------------------------------------------
(* process_job: the next occurrence of a recurring job.                    *)

CreateNext(w, k) ==
  /\ Go(w, "recurring", "rescheduling")
  /\ InsertNextOccurrence(k, held[w])
  /\ next' = [next EXCEPT ![w] = k]
  /\ UNCHANGED <<held, snap, transportVars>>

ScheduleNext(w) ==
  /\ Go(w, "rescheduling", "acking")
  /\ Schedule(next[w])
  /\ next' = [next EXCEPT ![w] = NoJob]
  /\ UNCHANGED <<held, snap, storeVars>>

\* The exception is logged and the job acknowledged.
AbandonNext(w) ==
  /\ \/ pc[w] = "recurring" /\ "db" \in Faults
     \/ pc[w] = "rescheduling" /\ "redis" \in Faults
  /\ pc' = [pc EXCEPT ![w] = "acking"]
  /\ Drop(Owed(w))
  /\ next' = [next EXCEPT ![w] = NoJob]
  /\ UNCHANGED <<held, snap, storeVars>>

\* Bound: the set Jobs has no id left for another occurrence.
NoMoreOccurrences(w) ==
  /\ Go(w, "recurring", "acking")
  /\ Fresh = {}
  /\ UNCHANGED <<held, snap, next, storeVars, transportVars>>

-----------------------------------------------------------------------------
(* Acknowledge, stop, crash.                                               *)

AckJob(w) ==
  /\ pc[w] = "acking"
  /\ LetGo(w, "idle")
  /\ Ack(held[w])
  /\ UNCHANGED storeVars

AckFails(w) ==
  /\ "redis" \in Faults
  /\ pc[w] = "acking"
  /\ LetGo(w, "idle")
  /\ UNCHANGED <<storeVars, transportVars>>

\* Mutant: the signal ends the process while a handler runs.
WrongStopWorker(w) ==
  /\ w \in Mortal
  /\ pc[w] \in {"idle", "running"}
  /\ LetGo(w, "stopped")
  /\ MarkWorkerDead(w)
  /\ UNCHANGED transportVars

\* A signal or a kill message clears self.running, which the loop reads
\* between two jobs only.
StopWorker(w) ==
  /\ w \in Mortal
  /\ Go(w, "idle", "stopped")
  /\ \/ MarkWorkerDead(w)
     \/ "db" \in Faults /\ UNCHANGED storeVars
  /\ UNCHANGED <<held, snap, next, transportVars>>

CrashWorker(w) ==
  /\ w \in Mortal
  /\ pc[w] \notin Gone
  /\ LetGo(w, "crashed")
  /\ Drop(Owed(w))
  /\ UNCHANGED storeVars

-----------------------------------------------------------------------------
Reserve(w) == \E j \in Jobs, t \in Tiers : ReserveJob(w, j, t) \/ PopJob(w, j, t)

Report(w) == HandlerFails(w) \/ ReportSuccess(w) \/ ReportRetry(w)
               \/ NoRetryDate(w) \/ ReportDead(w)

Recur(w) == (\E k \in Jobs : CreateNext(w, k)) \/ ScheduleNext(w)
              \/ AbandonNext(w) \/ NoMoreOccurrences(w)

\* The steps a live worker goes on taking.
WorkerStep(w) ==
  StartWorker(w) \/ Reserve(w) \/ StoreReserved(w) \/ LockJob(w) \/ SkipJob(w)
    \/ Report(w) \/ Recur(w) \/ AckJob(w)

WorkerFault(w) ==
  \/ StoreReservedFails(w) \/ LockFails(w) \/ ReportSuccessFails(w)
  \/ ReportFailureFails(w) \/ AckFails(w) \/ StopWorker(w) \/ CrashWorker(w)

TimeStep(w, j) == HeartbeatGoesLate(w) \/ LockGoesStale(j)

WorkerNext ==
  \E w \in Workers : WorkerStep(w) \/ Heartbeat(w) \/ WorkerFault(w)
=============================================================================
