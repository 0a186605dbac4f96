-------------------------- MODULE DistribuQProofs --------------------------
(***************************************************************************)
(* What holds of DistribuQ for every value of the constants and without    *)
(* any assumption: the types, and that no job is stranded.                 *)
(* NoStrandedJob is its own inductive invariant, beside TypeOK.  A step of *)
(* one process can disturb it for a job only by committing the job to      *)
(* PENDING or by taking the last reference away, so each of the proofs     *)
(* says where the reference is now.                                        *)
(***************************************************************************)
EXTENDS DistribuQ, TLAPS

-----------------------------------------------------------------------------
(* Types, bottom up: rows, statements, commands, processes.                *)

\* A row with its lock released and a new status is a row.
LEMMA UnlockedType ==
  ASSUME NEW row \in Row, NEW s \in Statuses
  PROVE  Unlocked(row, s) \in Row
BY DEF Unlocked, Row

\* So are a row that waits for its retry, one reset by a replay and one locked
\* by a worker.
LEMMA RowTypes ==
  ASSUME NEW row \in Row
  PROVE  /\ RetryingRow(row) \in Row
         /\ ReplayedRow(row) \in Row
         /\ \A w \in Workers : LockedRow(row, w) \in Row
<1>1. Unlocked(row, "RETRYING") \in Row /\ Unlocked(row, "PENDING") \in Row
  BY UnlockedType DEF Statuses
<1>2. RetryingRow(row) \in Row
  BY <1>1 DEF RetryingRow, Row
<1>3. ReplayedRow(row) \in Row
  BY <1>1 DEF ReplayedRow, Row
<1>4. ASSUME NEW w \in Workers PROVE LockedRow(row, w) \in Row
  <2>1. PICK n \in Nat : n = row.attempts + 1
    BY DEF Row
  <2>2. LockedRow(row, w) = [row EXCEPT !.status = "RUNNING", !.lockedBy = w,
                                        !.lockStale = FALSE, !.attempts = n]
    BY <2>1 DEF LockedRow
  <2> QED BY <2>2 DEF Row, Statuses
<1> QED BY <1>2, <1>3, <1>4

\* The row of a new job is a row.
LEMMA NewRowType ==
  ASSUME NEW p \in Int, NEW s \in {"now", "future"},
         NEW c \in BOOLEAN, NEW d \in BOOLEAN
  PROVE  NewRow(p, s, c, d) \in Row
BY DEF NewRow, Row, Statuses

\* The row of an id that is not in use is a row.
LEMMA AbsentRowType == AbsentRow \in Row
<1>1. NewRow(0, "now", FALSE, TRUE) \in Row
  BY DEF NewRow, Row, Statuses
<1> QED BY <1>1 DEF AbsentRow, Row, Statuses

\* Every statement on one row keeps the types of the tables.
LEMMA StatementTypes ==
  ASSUME StoreTypeOK, NEW j \in Jobs
  PROVE  /\ CancelRow(j) => StoreTypeOK'
         /\ \A n \in Nat : ReplayRow(j, n) => StoreTypeOK'
         /\ \A w \in Workers : FetchAndLock(j, w) => StoreTypeOK'
         /\ MarkSuccess(j) => StoreTypeOK'
         /\ MarkRetrying(j) => StoreTypeOK'
         /\ MoveToDeadLetter(j) => StoreTypeOK'
         /\ \A row \in Row, k \in Jobs \cup {NoJob} :
              InsertJob(j, row, k) => StoreTypeOK'
<1>1. CancelRow(j) => StoreTypeOK'
  BY UnlockedType DEF CancelRow, StoreTypeOK, Statuses
<1>2. ASSUME NEW n \in Nat PROVE ReplayRow(j, n) => StoreTypeOK'
  BY RowTypes DEF ReplayRow, StoreTypeOK
<1>3. ASSUME NEW w \in Workers PROVE FetchAndLock(j, w) => StoreTypeOK'
  <2>1. LockedRow(jobs[j], w) \in Row
    BY RowTypes DEF StoreTypeOK
  <2> QED BY <2>1 DEF FetchAndLock, StoreTypeOK
<1>4. MarkSuccess(j) => StoreTypeOK'
  BY UnlockedType DEF MarkSuccess, StoreTypeOK, Statuses
<1>5. MarkRetrying(j) => StoreTypeOK'
  BY RowTypes DEF MarkRetrying, StoreTypeOK
<1>6. MoveToDeadLetter(j) => StoreTypeOK'
  BY UnlockedType DEF MoveToDeadLetter, StoreTypeOK, Statuses
<1>7. ASSUME NEW row \in Row, NEW k \in Jobs \cup {NoJob}
      PROVE  InsertJob(j, row, k) => StoreTypeOK'
  BY DEF InsertJob, StoreTypeOK
<1> QED BY <1>1, <1>2, <1>3, <1>4, <1>5, <1>6, <1>7

\* So do the sweeps over all rows and the statements on the registry.
LEMMA SweepTypes ==
  ASSUME StoreTypeOK
  PROVE  /\ ReclaimDueRetries => StoreTypeOK'
         /\ MarkExpiredWorkersDead => StoreTypeOK'
         /\ ReclaimStaleJobs => StoreTypeOK'
         /\ \A w \in Workers : /\ UpsertHeartbeat(w) => StoreTypeOK'
                               /\ MarkWorkerDead(w) => StoreTypeOK'
                               /\ HeartbeatTurnsLate(w) => StoreTypeOK'
<1>1. ReclaimDueRetries => StoreTypeOK'
  BY UnlockedType DEF ReclaimDueRetries, StoreTypeOK, Statuses
<1>2. MarkExpiredWorkersDead => StoreTypeOK'
  BY DEF MarkExpiredWorkersDead, StoreTypeOK
<1>3. ReclaimStaleJobs => StoreTypeOK'
  BY UnlockedType DEF ReclaimStaleJobs, StoreTypeOK, Statuses
<1>4. ASSUME NEW w \in Workers
      PROVE  /\ UpsertHeartbeat(w) => StoreTypeOK'
             /\ MarkWorkerDead(w) => StoreTypeOK'
             /\ HeartbeatTurnsLate(w) => StoreTypeOK'
  BY DEF UpsertHeartbeat, MarkWorkerDead, HeartbeatTurnsLate, StoreTypeOK
<1> QED BY <1>1, <1>2, <1>3, <1>4

\* So does the time that passes for a row.
LEMMA ClockTypes ==
  ASSUME StoreTypeOK, NEW j \in Jobs
  PROVE  /\ RetryBecomesDue(j) => StoreTypeOK'
         /\ StartBecomesDue(j) => StoreTypeOK'
         /\ LockTurnsStale(j) => StoreTypeOK'
<1>1. jobs[j] \in Row
  BY DEF StoreTypeOK
<1>2. /\ [jobs[j] EXCEPT !.retryDue = TRUE] \in Row
      /\ [jobs[j] EXCEPT !.start = "due"] \in Row
      /\ [jobs[j] EXCEPT !.lockStale = TRUE] \in Row
  BY <1>1 DEF Row
<1>3. RetryBecomesDue(j) => StoreTypeOK'
  BY <1>2 DEF RetryBecomesDue, StoreTypeOK
<1>4. StartBecomesDue(j) => StoreTypeOK'
  BY <1>2 DEF StartBecomesDue, StoreTypeOK
<1>5. LockTurnsStale(j) => StoreTypeOK'
  BY <1>2 DEF LockTurnsStale, StoreTypeOK
<1> QED BY <1>3, <1>4, <1>5

\* Every Redis command about one job keeps the types of the lists: the counts
\* of references stay natural numbers, although LREM takes one away.
LEMMA CommandTypes ==
  ASSUME TransportTypeOK, NEW j \in Jobs
  PROVE  /\ \A t \in Tiers : /\ EnqueueOn(j, t) => TransportTypeOK'
                             /\ MoveToProcessing(j, t) => TransportTypeOK'
                             /\ BlockingPop(j, t) => TransportTypeOK'
                             /\ RemoveFrom(j, t) => TransportTypeOK'
         /\ \A p \in Int : Enqueue(j, p) => TransportTypeOK'
         /\ PushProcessing(j) => TransportTypeOK'
         /\ Ack(j) => TransportTypeOK'
         /\ Schedule(j) => TransportTypeOK'
         /\ Unschedule(j) => TransportTypeOK'
<1>0. /\ queue \in [Tiers -> [Jobs -> Nat]]
      /\ processing \in [Jobs -> Nat]
  BY DEF TransportTypeOK
<1>1. ASSUME NEW bag \in [Jobs -> Nat] PROVE LessOne(bag, j) \in [Jobs -> Nat]
  BY DEF LessOne
<1>2. ASSUME NEW t \in Tiers PROVE EnqueueOn(j, t) => TransportTypeOK'
  BY <1>0 DEF EnqueueOn, Push, TransportTypeOK
<1>3. ASSUME NEW t \in Tiers PROVE MoveToProcessing(j, t) => TransportTypeOK'
  BY <1>0, <1>1 DEF MoveToProcessing, TransportTypeOK
<1>4. ASSUME NEW t \in Tiers PROVE BlockingPop(j, t) => TransportTypeOK'
  BY <1>0, <1>1 DEF BlockingPop, TransportTypeOK
<1>5. ASSUME NEW t \in Tiers PROVE RemoveFrom(j, t) => TransportTypeOK'
  BY <1>0 DEF RemoveFrom, TransportTypeOK
<1>6. ASSUME NEW p \in Int PROVE Enqueue(j, p) => TransportTypeOK'
  BY <1>0 DEF Enqueue, Push, TierOf, Tiers, TransportTypeOK
<1>7. PushProcessing(j) => TransportTypeOK'
  BY <1>0 DEF PushProcessing, TransportTypeOK
<1>8. Ack(j) => TransportTypeOK'
  BY <1>0, <1>1 DEF Ack, TransportTypeOK
<1>9. (Schedule(j) => TransportTypeOK') /\ (Unschedule(j) => TransportTypeOK')
  BY DEF Schedule, Unschedule, TransportTypeOK
<1> QED BY <1>2, <1>3, <1>4, <1>5, <1>6, <1>7, <1>8, <1>9

\* So do the Lua script and the bookkeeping of what a failure dropped.
LEMMA PromoteDropTypes ==
  ASSUME TransportTypeOK
  PROVE  /\ PromoteDue => TransportTypeOK'
         /\ \A owed \in SUBSET Jobs : Drop(owed) => TransportTypeOK'
<1>1. PromoteDue => TransportTypeOK'
  BY DEF PromoteDue, TransportTypeOK, DueScheduled, Tiers
<1>2. ASSUME NEW owed \in SUBSET Jobs PROVE Drop(owed) => TransportTypeOK'
  BY DEF Drop, TransportTypeOK
<1> QED BY <1>1, <1>2

-----------------------------------------------------------------------------
(* Types: the steps of a worker.  Those that touch neither PostgreSQL nor  *)
(* Redis need the types of the worker's own variables only.                *)

\* What a worker owes is a set of jobs.
LEMMA OwedType ==
  ASSUME WorkerTypeOK, NEW w \in Workers
  PROVE  Owed(w) \in SUBSET Jobs
BY DEF WorkerTypeOK, Owed, Carries, Holding, Gone, Locations

\* A worker that lets go of its job, or of its life, holds nothing.
LEMMA LetGoTypes ==
  ASSUME WorkerTypeOK, NEW w \in Workers, NEW to \in Gone \cup {"idle"}, LetGo(w, to)
  PROVE  WorkerTypeOK'
BY DEF WorkerTypeOK, LetGo, Holding, Gone, Locations

\* Starting and heartbeats keep the types.
LEMMA StartTypes ==
  ASSUME StoreTypeOK, TransportTypeOK, WorkerTypeOK, NEW w \in Workers,
         StartWorker(w) \/ Heartbeat(w) \/ HeartbeatGoesLate(w)
  PROVE  StoreTypeOK' /\ TransportTypeOK' /\ WorkerTypeOK'
<1>1. CASE StartWorker(w)
  <2>1. StoreTypeOK'
    BY <1>1, SweepTypes DEF StartWorker, StoreTypeOK, storeVars
  <2>2. TransportTypeOK' /\ WorkerTypeOK'
    BY <1>1 DEF StartWorker, Go, TransportTypeOK, transportVars, WorkerTypeOK,
                Holding, Gone, Locations
  <2> QED BY <2>1, <2>2
<1>2. CASE Heartbeat(w) \/ HeartbeatGoesLate(w)
  <2>1. StoreTypeOK'
    BY <1>2, SweepTypes DEF Heartbeat, HeartbeatGoesLate
  <2>2. TransportTypeOK' /\ WorkerTypeOK'
    BY <1>2 DEF Heartbeat, HeartbeatGoesLate, TransportTypeOK, transportVars,
                WorkerTypeOK, workerVars, Holding, Gone, Locations
  <2> QED BY <2>1, <2>2
<1> QED BY <1>1, <1>2

\* Reserving a reference keeps the types.
LEMMA ReserveTypes ==
  ASSUME StoreTypeOK, TransportTypeOK, WorkerTypeOK, NEW w \in Workers,
         Reserve(w) \/ StoreReserved(w) \/ StoreReservedFails(w)
  PROVE  StoreTypeOK' /\ TransportTypeOK' /\ WorkerTypeOK'
<1>0. StoreTypeOK'
  BY DEF Reserve, ReserveJob, PopJob, StoreReserved, StoreReservedFails,
         storeVars, StoreTypeOK
<1>1. ASSUME NEW j \in Jobs, NEW t \in Tiers, ReserveJob(w, j, t) \/ PopJob(w, j, t)
      PROVE  TransportTypeOK' /\ WorkerTypeOK'
  <2>1. TransportTypeOK'
    BY <1>1, CommandTypes DEF ReserveJob, PopJob
  <2>2. WorkerTypeOK'
    BY <1>1 DEF ReserveJob, PopJob, Go, WorkerTypeOK, Holding, Gone, Locations
  <2> QED BY <2>1, <2>2
<1>2. CASE StoreReserved(w)
  <2>1. held[w] \in Jobs
    BY <1>2 DEF StoreReserved, Go, WorkerTypeOK, Holding, Gone, Locations
  <2>2. TransportTypeOK'
    BY <1>2, <2>1, CommandTypes DEF StoreReserved
  <2>3. WorkerTypeOK'
    BY <1>2, <2>1 DEF StoreReserved, Go, WorkerTypeOK, Holding, Gone, Locations
  <2> QED BY <1>0, <2>2, <2>3
<1>3. CASE StoreReservedFails(w)
  <2>1. TransportTypeOK'
    BY <1>3, OwedType, PromoteDropTypes DEF StoreReservedFails
  <2>2. WorkerTypeOK'
    BY <1>3, LetGoTypes DEF StoreReservedFails, Gone
  <2> QED BY <1>0, <2>1, <2>2
<1> QED BY <1>0, <1>1, <1>2, <1>3 DEF Reserve

\* Locking the row, or skipping it, keeps the types.
LEMMA LockTypes ==
  ASSUME StoreTypeOK, TransportTypeOK, WorkerTypeOK, NEW w \in Workers,
         LockJob(w) \/ SkipJob(w) \/ LockFails(w)
  PROVE  StoreTypeOK' /\ TransportTypeOK' /\ WorkerTypeOK'
<1>0. held[w] \in Jobs
  BY DEF LockJob, SkipJob, LockFails, Go, WorkerTypeOK, Holding, Gone, Locations
<1>1. CASE LockJob(w)
  <2>1. StoreTypeOK'
    BY <1>0, <1>1, StatementTypes DEF LockJob
  <2>2. jobs'[held[w]].attempts \in Nat
    BY <1>0, <2>1 DEF StoreTypeOK, Row
  <2>3. TransportTypeOK' /\ WorkerTypeOK'
    BY <1>0, <1>1, <2>2 DEF LockJob, Go, TransportTypeOK, transportVars,
                            WorkerTypeOK, Holding, Gone, Locations
  <2> QED BY <2>1, <2>3
<1>2. CASE SkipJob(w)
  BY <1>0, <1>2 DEF SkipJob, Go, StoreTypeOK, storeVars, TransportTypeOK,
                    transportVars, WorkerTypeOK, Holding, Gone, Locations
<1>3. CASE LockFails(w)
  <2>1. StoreTypeOK'
    BY <1>0, <1>3, StatementTypes DEF LockFails, StoreTypeOK, storeVars
  <2>2. TransportTypeOK'
    BY <1>3, OwedType, PromoteDropTypes DEF LockFails
  <2>3. WorkerTypeOK'
    BY <1>3, LetGoTypes DEF LockFails, Gone
  <2> QED BY <2>1, <2>2, <2>3
<1> QED BY <1>1, <1>2, <1>3

\* Reporting the outcome keeps the types.
LEMMA ReportTypes ==
  ASSUME StoreTypeOK, TransportTypeOK, WorkerTypeOK, NEW w \in Workers,
         Report(w) \/ ReportSuccessFails(w) \/ ReportFailureFails(w)
  PROVE  StoreTypeOK' /\ TransportTypeOK' /\ WorkerTypeOK'
<1> USE DEF Report, HandlerFails, ReportSuccess, ReportSuccessFails,
            ReportRetry, ReportDead, NoRetryDate, ReportFailureFails
<1>0. held[w] \in Jobs
  BY DEF Go, WorkerTypeOK, Holding, Gone, Locations
<1>1. StoreTypeOK'
  BY <1>0, StatementTypes DEF StoreTypeOK, storeVars
<1>2. TransportTypeOK'
  BY DEF TransportTypeOK, transportVars
<1>3. WorkerTypeOK'
  BY <1>0 DEF Go, WorkerTypeOK, Holding, Gone, Locations
<1> QED BY <1>1, <1>2, <1>3

\* Creating and scheduling the next occurrence keeps the types.
LEMMA RecurTypes ==
  ASSUME StoreTypeOK, TransportTypeOK, WorkerTypeOK, NEW w \in Workers, Recur(w)
  PROVE  StoreTypeOK' /\ TransportTypeOK' /\ WorkerTypeOK'
<1>0. held[w] \in Jobs
  BY DEF Recur, CreateNext, ScheduleNext, AbandonNext, NoMoreOccurrences, Go,
         WorkerTypeOK, Holding, Gone, Locations
<1>1. ASSUME NEW k \in Jobs, CreateNext(w, k)
      PROVE  StoreTypeOK' /\ TransportTypeOK' /\ WorkerTypeOK'
  <2>1. NewRow(jobs[held[w]].priority, "future", jobs[held[w]].recurring,
               jobs[held[w]].retriable) \in Row
    BY <1>0 DEF NewRow, StoreTypeOK, Row, Statuses
  <2>2. StoreTypeOK'
    BY <1>0, <1>1, <2>1, StatementTypes DEF CreateNext, InsertNextOccurrence
  <2>3. TransportTypeOK' /\ WorkerTypeOK'
    BY <1>0, <1>1 DEF CreateNext, Go, TransportTypeOK, transportVars,
                      WorkerTypeOK, Holding, Gone, Locations
  <2> QED BY <2>2, <2>3
<1>2. CASE ScheduleNext(w)
  <2>1. next[w] \in Jobs
    BY <1>2 DEF ScheduleNext, Go, WorkerTypeOK
  <2>2. TransportTypeOK'
    BY <1>2, <2>1, CommandTypes DEF ScheduleNext
  <2>3. StoreTypeOK' /\ WorkerTypeOK'
    BY <1>0, <1>2 DEF ScheduleNext, Go, StoreTypeOK, storeVars, WorkerTypeOK,
                      Holding, Gone, Locations
  <2> QED BY <2>2, <2>3
<1>3. CASE AbandonNext(w)
  <2>1. TransportTypeOK'
    BY <1>3, OwedType, PromoteDropTypes DEF AbandonNext
  <2>2. StoreTypeOK' /\ WorkerTypeOK'
    BY <1>0, <1>3 DEF AbandonNext, StoreTypeOK, storeVars, WorkerTypeOK,
                      Holding, Gone, Locations
  <2> QED BY <2>1, <2>2
<1>4. CASE NoMoreOccurrences(w)
  BY <1>0, <1>4 DEF NoMoreOccurrences, Go, StoreTypeOK, storeVars,
                    TransportTypeOK, transportVars, WorkerTypeOK, Holding, Gone,
                    Locations
<1> QED BY <1>1, <1>2, <1>3, <1>4 DEF Recur

\* Acknowledging, stopping and crashing keep the types.
LEMMA EndTypes ==
  ASSUME StoreTypeOK, TransportTypeOK, WorkerTypeOK, NEW w \in Workers,
         AckJob(w) \/ AckFails(w) \/ StopWorker(w) \/ CrashWorker(w)
  PROVE  StoreTypeOK' /\ TransportTypeOK' /\ WorkerTypeOK'
<1>1. CASE AckJob(w)
  <2>1. held[w] \in Jobs
    BY <1>1 DEF AckJob, WorkerTypeOK, Holding, Gone, Locations
  <2>2. StoreTypeOK' /\ TransportTypeOK'
    BY <1>1, <2>1, CommandTypes DEF AckJob, StoreTypeOK, storeVars
  <2>3. WorkerTypeOK'
    BY <1>1, LetGoTypes DEF AckJob
  <2> QED BY <2>2, <2>3
<1>2. CASE AckFails(w)
  <2>1. WorkerTypeOK'
    BY <1>2, LetGoTypes DEF AckFails
  <2> QED BY <1>2, <2>1 DEF AckFails, StoreTypeOK, storeVars, TransportTypeOK,
                            transportVars
<1>3. CASE StopWorker(w)
  <2>1. StoreTypeOK'
    BY <1>3, SweepTypes DEF StopWorker, StoreTypeOK, storeVars
  <2>2. TransportTypeOK' /\ WorkerTypeOK'
    BY <1>3 DEF StopWorker, Go, TransportTypeOK, transportVars, WorkerTypeOK,
                Holding, Gone, Locations
  <2> QED BY <2>1, <2>2
<1>4. CASE CrashWorker(w)
  <2>1. WorkerTypeOK'
    BY <1>4, LetGoTypes DEF CrashWorker, Gone
  <2>2. StoreTypeOK' /\ TransportTypeOK'
    BY <1>4, OwedType, PromoteDropTypes DEF CrashWorker, StoreTypeOK, storeVars
  <2> QED BY <2>1, <2>2
<1> QED BY <1>1, <1>2, <1>3, <1>4

\* Every step of a worker keeps the types.
LEMMA WorkerTypes ==
  ASSUME StoreTypeOK, TransportTypeOK, WorkerTypeOK, WorkerNext
  PROVE  StoreTypeOK' /\ TransportTypeOK' /\ WorkerTypeOK'
BY StartTypes, ReserveTypes, LockTypes, ReportTypes, RecurTypes, EndTypes
   DEF WorkerNext, WorkerStep, WorkerFault

-----------------------------------------------------------------------------
(* Types: the steps of the scheduler, the reaper, the API and the clocks.  *)

\* Every step of the scheduler keeps the types.
LEMMA SchedulerTypes ==
  ASSUME StoreTypeOK, TransportTypeOK, SchedulerTypeOK, SchedulerNext
  PROVE  StoreTypeOK' /\ TransportTypeOK' /\ SchedulerTypeOK'
<1>1. CASE StartScheduler \/ PromoteDelayed \/ SkipReaper
  <2>1. TransportTypeOK'
    BY <1>1, PromoteDropTypes DEF StartScheduler, PromoteDelayed, SkipReaper,
       TransportTypeOK, transportVars
  <2>2. StoreTypeOK' /\ SchedulerTypeOK'
    BY <1>1 DEF StartScheduler, PromoteDelayed, SkipReaper, Enter, Advance,
       PendingScheduled, StoreTypeOK, storeVars, SchedulerTypeOK,
       SchedulerLocations
  <2> QED BY <2>1, <2>2
<1>2. CASE TakeRetries \/ ExpireWorkers \/ TakeStale
  <2>1. StoreTypeOK'
    BY <1>2, SweepTypes DEF TakeRetries, ExpireWorkers, TakeStale
  <2>2. TransportTypeOK' /\ SchedulerTypeOK'
    BY <1>2 DEF TakeRetries, ExpireWorkers, TakeStale, Enter, Advance,
       DueRetries, StaleJobs, TransportTypeOK, transportVars, SchedulerTypeOK,
       SchedulerLocations
  <2> QED BY <2>1, <2>2
<1>3. ASSUME NEW j \in Jobs, SyncJob(j) \/ PushRetry(j) \/ PushStale(j)
      PROVE  StoreTypeOK' /\ TransportTypeOK' /\ SchedulerTypeOK'
  <2>1. jobs[j].priority \in Int
    BY DEF StoreTypeOK, Row
  <2>2. TransportTypeOK'
    BY <1>3, <2>1, CommandTypes DEF SyncJob, PushRetry, PushStale
  <2>3. StoreTypeOK' /\ SchedulerTypeOK'
    BY <1>3 DEF SyncJob, PushRetry, PushStale, ServeOne, StoreTypeOK, storeVars,
       SchedulerTypeOK, SchedulerLocations
  <2> QED BY <2>2, <2>3
<1>4. CASE SchedulerFails \/ CrashScheduler
  <2>1. SchedulerOwes \in SUBSET Jobs
    BY DEF SchedulerOwes, SchedulerTypeOK
  <2>2. TransportTypeOK'
    BY <1>4, <2>1, PromoteDropTypes DEF SchedulerFails, CrashScheduler
  <2>3. StoreTypeOK' /\ SchedulerTypeOK'
    BY <1>4 DEF SchedulerFails, CrashScheduler, Advance, StoreTypeOK, storeVars,
       SchedulerTypeOK, SchedulerLocations
  <2> QED BY <2>2, <2>3
<1> QED BY <1>1, <1>2, <1>3, <1>4 DEF SchedulerNext, SchedulerStep

\* Every step of the reaper keeps the types, and its batch is empty outside of
\* its loops.
LEMMA ReaperTypes ==
  ASSUME StoreTypeOK, TransportTypeOK, SchedulerTypeOK, ReaperTypeOK,
         ReaperNext, UNCHANGED schedulerVars
  PROVE  /\ StoreTypeOK' /\ TransportTypeOK'
         /\ SchedulerTypeOK' /\ ReaperTypeOK'
<1>1. CASE StartReaper \/ ReaperQueryFails
  BY <1>1 DEF StartReaper, ReaperQueryFails, StoreTypeOK, storeVars,
     TransportTypeOK, transportVars, SchedulerTypeOK, schedulerVars,
     ReaperTypeOK, ReaperLocations
<1>2. CASE ReaperExpires \/ ReaperReclaims \/ ReaperTakesRetries
  <2>1. StoreTypeOK'
    BY <1>2, SweepTypes DEF ReaperExpires, ReaperReclaims, ReaperTakesRetries
  <2>2. TransportTypeOK' /\ SchedulerTypeOK' /\ ReaperTypeOK'
    BY <1>2 DEF ReaperExpires, ReaperReclaims, ReaperTakesRetries, NextTurn,
       DueRetries, StaleJobs, TransportTypeOK, transportVars, SchedulerTypeOK,
       schedulerVars, ReaperTypeOK, ReaperLocations
  <2> QED BY <2>1, <2>2
<1>3. CASE RequeuePushes
  <2>1. rcur \in Jobs /\ "default" \in Tiers
    BY <1>3 DEF RequeuePushes, ReaperTypeOK, Tiers
  <2>2. TransportTypeOK'
    BY <1>3, <2>1, CommandTypes DEF RequeuePushes
  <2>3. StoreTypeOK' /\ SchedulerTypeOK' /\ ReaperTypeOK'
    BY <1>3 DEF RequeuePushes, NextTurn, StoreTypeOK, storeVars,
       SchedulerTypeOK, schedulerVars, ReaperTypeOK, ReaperLocations
  <2> QED BY <2>2, <2>3
<1>4. ASSUME NEW j \in Jobs,
             RequeueRemoves(j) \/ ReaperPushesRetry(j) \/ ReaperPushFails(j)
      PROVE  /\ StoreTypeOK' /\ TransportTypeOK'
             /\ SchedulerTypeOK' /\ ReaperTypeOK'
  <2>1. "default" \in Tiers /\ {j} \in SUBSET Jobs
    BY DEF Tiers
  <2>2. TransportTypeOK'
    BY <1>4, <2>1, CommandTypes, PromoteDropTypes
       DEF RequeueRemoves, ReaperPushesRetry, ReaperPushFails
  <2>3. StoreTypeOK' /\ SchedulerTypeOK' /\ ReaperTypeOK'
    BY <1>4 DEF RequeueRemoves, ReaperPushesRetry, ReaperPushFails, NextTurn,
       StoreTypeOK, storeVars, SchedulerTypeOK, schedulerVars, ReaperTypeOK,
       ReaperLocations
  <2> QED BY <2>2, <2>3
<1>5. CASE CrashReaper
  <2>1. ReaperOwes \in SUBSET Jobs
    BY DEF ReaperOwes, ReaperTypeOK
  <2>2. TransportTypeOK'
    BY <1>5, <2>1, PromoteDropTypes DEF CrashReaper
  <2>3. StoreTypeOK' /\ SchedulerTypeOK' /\ ReaperTypeOK'
    BY <1>5 DEF CrashReaper, StoreTypeOK, storeVars, SchedulerTypeOK,
       schedulerVars, ReaperTypeOK, ReaperLocations
  <2> QED BY <2>2, <2>3
<1> QED BY <1>1, <1>2, <1>3, <1>4, <1>5 DEF ReaperNext, ReaperStep

\* Every step of a request keeps the types, and its target is set with its
\* first step.
LEMMA ApiTypes ==
  ASSUME StoreTypeOK, TransportTypeOK, ApiTypeOK, ApiNext
  PROVE  StoreTypeOK' /\ TransportTypeOK' /\ ApiTypeOK'
<1> PICK r \in Requests : FirstStep(r) \/ LaterStep(r) \/ AbortRequest(r)
  BY DEF ApiNext
<1>1. ASSUME NEW j \in Jobs, CreateJob(r, j), r \in Submitters
      PROVE  StoreTypeOK' /\ TransportTypeOK' /\ ApiTypeOK'
  <2>1. PICK p \in Priorities, s \in Starts, c \in Rules, d \in Retriable :
               InsertJob(j, NewRow(p, s, c, d), NoJob)
    BY <1>1 DEF CreateJob
  <2>2. NewRow(p, s, c, d) \in Row
    BY StoreAssumption, NewRowType
  <2>3. StoreTypeOK'
    BY <2>1, <2>2, StatementTypes
  <2>4. TransportTypeOK' /\ ApiTypeOK'
    BY <1>1 DEF CreateJob, Move, TransportTypeOK, transportVars, ApiTypeOK,
       ApiLocations, Purging
  <2> QED BY <2>3, <2>4
<1>2. ASSUME NEW j \in Jobs, CancelJob(r, j), r \in Cancellers
      PROVE  StoreTypeOK' /\ TransportTypeOK' /\ ApiTypeOK'
  <2>1. StoreTypeOK'
    BY <1>2, StatementTypes DEF CancelJob
  <2>2. TransportTypeOK' /\ ApiTypeOK'
    BY <1>2 DEF CancelJob, Move, TransportTypeOK, transportVars, ApiTypeOK,
       ApiLocations, Purging
  <2> QED BY <2>1, <2>2
<1>3. ASSUME NEW j \in Jobs, NEW n \in 1..letters[j], SelectLetter(r, j, n),
             r \in Replayers
      PROVE  StoreTypeOK' /\ TransportTypeOK' /\ ApiTypeOK'
  <2>1. n \in Nat
    BY DEF StoreTypeOK
  <2> QED
    BY <1>3, <2>1 DEF SelectLetter, Move, StoreTypeOK, storeVars,
       TransportTypeOK, transportVars, ApiTypeOK, ApiLocations, Purging
<1>4. CASE LaterStep(r) \/ AbortRequest(r)
  <2>1. target[r] \in Jobs /\ letter[r] \in Nat
    BY <1>4 DEF LaterStep, AbortRequest, SubmitJob, PurgeQueue, PurgeSchedule,
       CommitReplay, EnqueueReplayed, Move, ApiTypeOK
  <2>2. StoreTypeOK'
    BY <1>4, <2>1, StatementTypes DEF LaterStep, AbortRequest, SubmitJob,
       PurgeQueue, PurgeSchedule, CommitReplay, EnqueueReplayed, StoreTypeOK,
       storeVars
  <2>3. jobs[target[r]].priority \in Int /\ RequestOwes(r) \in SUBSET Jobs
    BY <2>1 DEF StoreTypeOK, Row, RequestOwes
  <2>4. TransportTypeOK'
    <3>1. CASE SubmitJob(r)
      BY <3>1, <2>1, <2>3, CommandTypes DEF SubmitJob
    <3>2. CASE PurgeQueue(r)
      BY <3>2, <2>1, CommandTypes DEF PurgeQueue, Tiers
    <3>3. CASE PurgeSchedule(r)
      BY <3>3, <2>1, CommandTypes DEF PurgeSchedule
    <3>4. CASE CommitReplay(r)
      BY <3>4 DEF CommitReplay, TransportTypeOK, transportVars
    <3>5. CASE EnqueueReplayed(r)
      BY <3>5, <2>1, CommandTypes DEF EnqueueReplayed, Tiers
    <3>6. CASE AbortRequest(r)
      BY <3>6, <2>3, PromoteDropTypes DEF AbortRequest
    <3> QED BY <1>4, <3>1, <3>2, <3>3, <3>4, <3>5, <3>6 DEF LaterStep
  <2>5. ApiTypeOK'
    BY <1>4, <2>1 DEF LaterStep, AbortRequest, SubmitJob, PurgeQueue,
       PurgeSchedule, CommitReplay, EnqueueReplayed, Move, ApiTypeOK,
       ApiLocations, Purging
  <2> QED BY <2>2, <2>4, <2>5
<1> QED BY <1>1, <1>2, <1>3, <1>4 DEF FirstStep

\* Time keeps the types.
LEMMA TimeTypes ==
  ASSUME TypeOK, Time
  PROVE  TypeOK'
<1>1. StoreTypeOK'
  BY ClockTypes, SweepTypes DEF TypeOK, Time, RetryDue, StartDue, LockOverdue,
     HeartbeatOverdue, LockGoesStale, HeartbeatGoesLate
<1>2. UNCHANGED <<transportVars, workerVars, schedulerVars, outages, reaperVars,
                  apiVars>>
  BY DEF Time, RetryDue, StartDue, LockOverdue, HeartbeatOverdue,
     LockGoesStale, HeartbeatGoesLate, LeavesWorkers, LeavesServices, LeavesApi
<1>3. TransportTypeOK' /\ WorkerTypeOK' /\ SchedulerTypeOK' /\ ReaperTypeOK' /\ ApiTypeOK'
  BY <1>2 DEF TypeOK, TransportTypeOK, transportVars, WorkerTypeOK, workerVars,
     Holding, SchedulerTypeOK, schedulerVars, ReaperTypeOK, reaperVars,
     ApiTypeOK, apiVars
<1> QED BY <1>1, <1>3 DEF TypeOK

\* The types hold initially.
LEMMA InitTypes == Init => TypeOK
<1> SUFFICES ASSUME Init PROVE TypeOK
  OBVIOUS
<1>1. StoreTypeOK
  BY AbsentRowType DEF Init, StoreInit, StoreTypeOK
<1>2. TransportTypeOK
  BY DEF Init, TransportInit, TransportTypeOK
<1>3. WorkerTypeOK
  BY DEF Init, WorkerInit, WorkerTypeOK, Locations, Holding
<1>4. SchedulerTypeOK /\ ReaperTypeOK /\ ApiTypeOK
  BY DEF Init, SchedulerInit, SchedulerTypeOK, SchedulerLocations, ReaperInit,
     ReaperTypeOK, ReaperLocations, ApiInit, ApiTypeOK, ApiLocations, Purging
<1> QED BY <1>1, <1>2, <1>3, <1>4 DEF TypeOK

\* Every step keeps the types.
LEMMA NextTypes == TypeOK /\ [Next]_vars => TypeOK'
<1> SUFFICES ASSUME TypeOK, [Next]_vars PROVE TypeOK'
  OBVIOUS
<1> USE DEF TypeOK
<1>1. CASE WorkerNext /\ LeavesServices /\ LeavesApi
  BY <1>1, WorkerTypes DEF LeavesServices, LeavesApi, SchedulerTypeOK,
     schedulerVars, ReaperTypeOK, reaperVars, ApiTypeOK, apiVars
<1>2. CASE SchedulerNext /\ LeavesWorkers /\ LeavesApi /\ UNCHANGED reaperVars
  BY <1>2, SchedulerTypes DEF LeavesWorkers, LeavesApi, WorkerTypeOK,
     workerVars, Holding, ReaperTypeOK, reaperVars, ApiTypeOK, apiVars
<1>3. CASE ReaperNext /\ LeavesWorkers /\ LeavesApi /\ UNCHANGED schedulerVars
  BY <1>3, ReaperTypes DEF LeavesWorkers, LeavesApi, WorkerTypeOK, workerVars,
     Holding, ApiTypeOK, apiVars
<1>4. CASE ApiNext /\ LeavesWorkers /\ LeavesServices
  BY <1>4, ApiTypes DEF LeavesWorkers, LeavesServices, WorkerTypeOK,
     workerVars, Holding, SchedulerTypeOK, schedulerVars, ReaperTypeOK,
     reaperVars
<1>5. CASE Time
  BY <1>5, TimeTypes
<1>6. CASE UNCHANGED vars
  BY <1>6 DEF vars, StoreTypeOK, storeVars, TransportTypeOK, transportVars,
     WorkerTypeOK, workerVars, Holding, SchedulerTypeOK, schedulerVars,
     ReaperTypeOK, reaperVars, ApiTypeOK, apiVars
<1> QED BY <1>1, <1>2, <1>3, <1>4, <1>5, <1>6 DEF Next

\* Every variable keeps its type, a worker that holds a job holds one of
\* Jobs, and a request under way is about one: whatever the numbers of
\* jobs, workers and requests, the failures, and the timeouts that expire.
THEOREM TypeCorrect == Spec => []TypeOK
<1>1. Init => TypeOK
  BY InitTypes
<1>2. TypeOK /\ [Next]_vars => TypeOK'
  BY NextTypes
<1> QED BY <1>1, <1>2, PTL DEF Spec

-----------------------------------------------------------------------------
(* What the statements do to the status of a job.                          *)

\* A statement about one job leaves the status of the others alone.
LEMMA StatementStatus ==
  ASSUME StoreTypeOK, NEW j \in Jobs, NEW k \in Jobs
  PROVE  /\ \A w \in Workers : FetchAndLock(j, w) =>
              Status(k)' = IF k = j THEN "RUNNING" ELSE Status(k)
         /\ MarkSuccess(j) => Status(k)' = IF k = j THEN "SUCCESS" ELSE Status(k)
         /\ MarkRetrying(j) => Status(k)' = IF k = j THEN "RETRYING" ELSE Status(k)
         /\ MoveToDeadLetter(j) =>
              Status(k)' = IF k = j THEN "DEAD_LETTER" ELSE Status(k)
         /\ CancelRow(j) => Status(k)' # "PENDING" \/ Status(k)' = Status(k)
         /\ \A n \in Nat : ReplayRow(j, n) => (k # j => Status(k)' = Status(k))
         /\ \A row \in Row, i \in Jobs \cup {NoJob} :
              InsertJob(j, row, i) => (k # j => Status(k)' = Status(k))
<1>1. jobs[k] \in Row /\ jobs \in [Jobs -> Row]
  BY DEF StoreTypeOK
<1>2. ASSUME NEW w \in Workers, FetchAndLock(j, w)
      PROVE  Status(k)' = IF k = j THEN "RUNNING" ELSE Status(k)
  BY <1>1, <1>2 DEF FetchAndLock, LockedRow, Status, Row
<1>3. /\ MarkSuccess(j) => Status(k)' = IF k = j THEN "SUCCESS" ELSE Status(k)
      /\ MarkRetrying(j) => Status(k)' = IF k = j THEN "RETRYING" ELSE Status(k)
      /\ MoveToDeadLetter(j) =>
           Status(k)' = IF k = j THEN "DEAD_LETTER" ELSE Status(k)
  <2>1. ASSUME NEW row \in Row, jobs' = [jobs EXCEPT ![j] = row]
        PROVE  Status(k)' = IF k = j THEN row.status ELSE Status(k)
    BY <1>1, <2>1 DEF Status
  <2>2. /\ Unlocked(jobs[j], "SUCCESS").status = "SUCCESS"
        /\ Unlocked(jobs[j], "DEAD_LETTER").status = "DEAD_LETTER"
        /\ RetryingRow(jobs[j]).status = "RETRYING"
    BY <1>1 DEF RetryingRow, Unlocked, Row
  <2>3. /\ Unlocked(jobs[j], "SUCCESS") \in Row
        /\ Unlocked(jobs[j], "DEAD_LETTER") \in Row
        /\ RetryingRow(jobs[j]) \in Row
    BY <1>1, UnlockedType, RowTypes DEF Statuses
  <2> QED BY <2>1, <2>2, <2>3 DEF MarkSuccess, MarkRetrying, MoveToDeadLetter
<1>4. CancelRow(j) => Status(k)' # "PENDING" \/ Status(k)' = Status(k)
  BY <1>1 DEF CancelRow, Unlocked, Status, Row
<1>5. ASSUME NEW n \in Nat, ReplayRow(j, n), k # j
      PROVE  Status(k)' = Status(k)
  BY <1>1, <1>5 DEF ReplayRow, Status
<1>6. ASSUME NEW row \in Row, NEW i \in Jobs \cup {NoJob}, InsertJob(j, row, i),
             k # j
      PROVE  Status(k)' = Status(k)
  BY <1>1, <1>6 DEF InsertJob, Status
<1> QED BY <1>2, <1>3, <1>4, <1>5, <1>6

\* A sweep makes PENDING the rows it returns and no other; the registry and
\* the clocks change no status.
LEMMA SweepStatus ==
  ASSUME StoreTypeOK, NEW k \in Jobs
  PROVE  /\ ReclaimDueRetries /\ Status(k)' = "PENDING" =>
              k \in DueRetries \/ Status(k) = "PENDING"
         /\ ReclaimStaleJobs /\ Status(k)' = "PENDING" =>
              k \in StaleJobs \/ Status(k) = "PENDING"
         /\ MarkExpiredWorkersDead => Status(k)' = Status(k)
         /\ \A w \in Workers :
              /\ UpsertHeartbeat(w) => Status(k)' = Status(k)
              /\ MarkWorkerDead(w) => Status(k)' = Status(k)
              /\ HeartbeatTurnsLate(w) => Status(k)' = Status(k)
         /\ \A j \in Jobs :
              /\ RetryBecomesDue(j) => Status(k)' = Status(k)
              /\ StartBecomesDue(j) => Status(k)' = Status(k)
              /\ LockTurnsStale(j) => Status(k)' = Status(k)
<1>1. jobs[k] \in Row /\ jobs \in [Jobs -> Row]
  BY DEF StoreTypeOK
<1>2. /\ ReclaimDueRetries /\ Status(k)' = "PENDING" =>
           k \in DueRetries \/ Status(k) = "PENDING"
      /\ ReclaimStaleJobs /\ Status(k)' = "PENDING" =>
           k \in StaleJobs \/ Status(k) = "PENDING"
  BY DEF ReclaimDueRetries, ReclaimStaleJobs, Status
<1>3. MarkExpiredWorkersDead => Status(k)' = Status(k)
  BY DEF MarkExpiredWorkersDead, Status
<1>4. ASSUME NEW w \in Workers
      PROVE  /\ UpsertHeartbeat(w) => Status(k)' = Status(k)
             /\ MarkWorkerDead(w) => Status(k)' = Status(k)
             /\ HeartbeatTurnsLate(w) => Status(k)' = Status(k)
  BY DEF UpsertHeartbeat, MarkWorkerDead, HeartbeatTurnsLate, Status
<1>5. ASSUME NEW j \in Jobs
      PROVE  /\ RetryBecomesDue(j) => Status(k)' = Status(k)
             /\ StartBecomesDue(j) => Status(k)' = Status(k)
             /\ LockTurnsStale(j) => Status(k)' = Status(k)
  BY <1>1 DEF RetryBecomesDue, StartBecomesDue, LockTurnsStale, Status, Row
<1> QED BY <1>2, <1>3, <1>4, <1>5

-----------------------------------------------------------------------------
(* What the commands do to the references of a job.                        *)

\* A command that adds a reference to j leaves one, and takes none away.
LEMMA AddingCommands ==
  ASSUME TransportTypeOK, NEW j \in Jobs, NEW k \in Jobs
  PROVE  /\ \A t \in Tiers : EnqueueOn(j, t) =>
              InRedis(j)' /\ (InRedis(k) => InRedis(k)') /\ dropped' = dropped
         /\ \A p \in Int : Enqueue(j, p) =>
              InRedis(j)' /\ (InRedis(k) => InRedis(k)') /\ dropped' = dropped
         /\ Schedule(j) =>
              InRedis(j)' /\ (InRedis(k) => InRedis(k)') /\ dropped' = dropped
<1>0. queue \in [Tiers -> [Jobs -> Nat]]
  BY DEF TransportTypeOK
<1>1. ASSUME NEW t \in Tiers, Push(j, t), UNCHANGED scheduled
      PROVE  InRedis(j)' /\ (InRedis(k) => InRedis(k)')
  <2>1. ASSUME NEW s \in Tiers
        PROVE  queue'[s][k] = IF s = t /\ k = j THEN queue[s][k] + 1 ELSE queue[s][k]
    BY <1>0, <1>1 DEF Push
  <2>2. queue'[t][j] = queue[t][j] + 1
    BY <1>0, <1>1 DEF Push
  <2>3. /\ queue[t][j] \in Nat
        /\ \A s \in Tiers : queue[s][k] \in Nat
    BY <1>0
  <2> QED BY <1>1, <2>1, <2>2, <2>3 DEF InRedis, Queued
<1>2. ASSUME NEW p \in Int PROVE TierOf(p) \in Tiers
  BY DEF TierOf, Tiers
<1>3. Schedule(j) => InRedis(j)' /\ (InRedis(k) => InRedis(k)')
  BY DEF Schedule, InRedis, Queued
<1> QED BY <1>1, <1>2, <1>3 DEF EnqueueOn, Enqueue, Schedule

\* A command that takes a reference to j leaves those to other jobs.
LEMMA TakingCommands ==
  ASSUME TransportTypeOK, NEW j \in Jobs, NEW k \in Jobs, k # j
  PROVE  /\ \A t \in Tiers :
              /\ MoveToProcessing(j, t) => (InRedis(k) => InRedis(k)')
              /\ BlockingPop(j, t) => (InRedis(k) => InRedis(k)')
              /\ RemoveFrom(j, t) => (InRedis(k) => InRedis(k)')
         /\ Unschedule(j) => (InRedis(k) => InRedis(k)')
<1>0. queue \in [Tiers -> [Jobs -> Nat]]
  BY DEF TransportTypeOK
<1>1. ASSUME NEW t \in Tiers, MoveToProcessing(j, t) \/ BlockingPop(j, t)
                                \/ RemoveFrom(j, t)
      PROVE  InRedis(k) => InRedis(k)'
  <2>1. ASSUME NEW s \in Tiers PROVE queue'[s][k] = queue[s][k]
    BY <1>0, <1>1 DEF MoveToProcessing, BlockingPop, RemoveFrom, LessOne
  <2> QED BY <1>1, <2>1 DEF MoveToProcessing, BlockingPop, RemoveFrom,
                            InRedis, Queued
<1>2. Unschedule(j) => (InRedis(k) => InRedis(k)')
  BY DEF Unschedule, InRedis, Queued
<1> QED BY <1>1, <1>2

\* The other commands take no reference off the lists; PromoteDue moves
\* what it takes from the sorted set.
LEMMA NeutralCommands ==
  ASSUME TransportTypeOK, NEW k \in Jobs
  PROVE  /\ \A j \in Jobs : /\ PushProcessing(j) => (InRedis(k) => InRedis(k)')
                            /\ Ack(j) => (InRedis(k) => InRedis(k)')
         /\ PromoteDue => (InRedis(k) => InRedis(k)')
         /\ \A owed \in SUBSET Jobs :
              Drop(owed) => /\ InRedis(k) => InRedis(k)'
                            /\ k \in dropped \cup owed => k \in dropped'
         /\ UNCHANGED transportVars => (InRedis(k) => InRedis(k)')
<1>0. queue \in [Tiers -> [Jobs -> Nat]]
  BY DEF TransportTypeOK
<1>1. ASSUME PromoteDue, InRedis(k) PROVE InRedis(k)'
  <2>1. "default" \in Tiers
    BY DEF Tiers
  <2>2. ASSUME NEW s \in Tiers
        PROVE  queue'[s][k] =
                 IF s = "default"
                 THEN queue[s][k] + (IF k \in DueScheduled THEN 1 ELSE 0)
                 ELSE queue[s][k]
    BY <1>0, <1>1 DEF PromoteDue
  <2>3. \A s \in Tiers : queue[s][k] \in Nat
    BY <1>0
  <2> QED BY <1>1, <2>1, <2>2, <2>3 DEF PromoteDue, InRedis, Queued
<1>2. ASSUME NEW j \in Jobs
      PROVE  /\ PushProcessing(j) => (InRedis(k) => InRedis(k)')
             /\ Ack(j) => (InRedis(k) => InRedis(k)')
  BY DEF PushProcessing, Ack, InRedis, Queued
<1>3. ASSUME NEW owed \in SUBSET Jobs, Drop(owed)
      PROVE  /\ InRedis(k) => InRedis(k)'
             /\ k \in dropped \cup owed => k \in dropped'
  BY <1>3 DEF Drop, InRedis, Queued
<1>4. UNCHANGED transportVars => (InRedis(k) => InRedis(k)')
  BY DEF transportVars, InRedis, Queued
<1> QED BY <1>1, <1>2, <1>3, <1>4

-----------------------------------------------------------------------------
(* The steps of a worker.                                                  *)

\* A step of w leaves alone what the other workers carry.
LEMMA OthersCarry ==
  ASSUME WorkerTypeOK, NEW w \in Workers, NEW v \in Workers, v # w,
         WorkerStep(w) \/ Heartbeat(w) \/ WorkerFault(w)
  PROVE  Carries(v)' = Carries(v) /\ dropped \subseteq dropped'
<1>1. CASE WorkerStep(w) \/ Heartbeat(w)
  <2>1. pc'[v] = pc[v] /\ held'[v] = held[v] /\ next'[v] = next[v]
    BY <1>1 DEF WorkerStep, Heartbeat, StartWorker, Reserve, ReserveJob, PopJob,
       StoreReserved, LockJob, SkipJob, Report, HandlerFails, ReportSuccess,
       ReportRetry, ReportDead, NoRetryDate, Recur, CreateNext, ScheduleNext, AbandonNext,
       NoMoreOccurrences, AckJob, LetGo, Go, workerVars, WorkerTypeOK
  <2>2. dropped \subseteq dropped'
    BY <1>1 DEF WorkerStep, Heartbeat, StartWorker, Reserve, ReserveJob, PopJob,
       StoreReserved, LockJob, SkipJob, Report, HandlerFails, ReportSuccess,
       ReportRetry, ReportDead, NoRetryDate, Recur, CreateNext, ScheduleNext, AbandonNext,
       NoMoreOccurrences, AckJob, MoveToProcessing, BlockingPop, PushProcessing,
       Schedule, Drop, Ack, transportVars
  <2> QED BY <2>1, <2>2 DEF Carries
<1>2. CASE WorkerFault(w)
  <2>1. pc'[v] = pc[v] /\ held'[v] = held[v] /\ next'[v] = next[v]
    BY <1>2 DEF WorkerFault, StoreReservedFails, LockFails, ReportSuccessFails,
       ReportFailureFails, AckFails, StopWorker, CrashWorker, LetGo, Go,
       WorkerTypeOK
  <2>2. dropped \subseteq dropped'
    BY <1>2 DEF WorkerFault, StoreReservedFails, LockFails, ReportSuccessFails,
       ReportFailureFails, AckFails, StopWorker, CrashWorker, Drop, transportVars
  <2> QED BY <2>1, <2>2 DEF Carries
<1> QED BY <1>1, <1>2

\* Where the reference of a PENDING job is after a step of w, if it was on
\* a list or with w before it, or if w has only now inserted the row.
OwnReference(w, j) ==
  Status(j)' = "PENDING" =>
    /\ Status(j) = "PENDING" \/ j \in Carries(w)'
    /\ InRedis(j) \/ j \in Carries(w) =>
         InRedis(j)' \/ j \in Carries(w)' \/ j \in dropped'

\* A reference taken off a list is with the worker, or dropped if the worker
\* fails to store it.
LEMMA ReserveKeeps ==
  ASSUME TypeOK, NEW w \in Workers, NEW j \in Jobs,
         Reserve(w) \/ StoreReserved(w) \/ StoreReservedFails(w)
  PROVE  OwnReference(w, j)
<1> USE DEF TypeOK
<1>0. Status(j)' = Status(j)
  BY DEF Reserve, ReserveJob, PopJob, StoreReserved, StoreReservedFails,
         storeVars, Status
<1>1. ASSUME NEW k \in Jobs, NEW t \in Tiers, ReserveJob(w, k, t) \/ PopJob(w, k, t)
      PROVE  OwnReference(w, j)
  <2>1. Carries(w) = {} /\ Carries(w)' = {k}
    BY <1>1 DEF ReserveJob, PopJob, Go, Carries, WorkerTypeOK
  <2>2. j # k => (InRedis(j) => InRedis(j)')
    BY <1>1, TakingCommands DEF ReserveJob, PopJob
  <2> QED BY <1>0, <2>1, <2>2 DEF OwnReference
<1>2. CASE StoreReserved(w)
  <2>1. held[w] \in Jobs /\ Carries(w)' = Carries(w)
    BY <1>2 DEF StoreReserved, Go, Carries, WorkerTypeOK, Holding
  <2>2. InRedis(j) => InRedis(j)'
    BY <1>2, <2>1, NeutralCommands DEF StoreReserved
  <2> QED BY <1>0, <2>1, <2>2 DEF OwnReference
<1>3. CASE StoreReservedFails(w)
  <2>1. InRedis(j) => InRedis(j)'
    BY <1>3, OwedType, NeutralCommands DEF StoreReservedFails
  <2>2. j \in Carries(w) => j \in dropped'
    BY <1>3, OwedType, NeutralCommands DEF StoreReservedFails, Owed
  <2> QED BY <1>0, <2>1, <2>2 DEF OwnReference
<1> QED BY <1>1, <1>2, <1>3 DEF Reserve

\* A worker gives its reference up to a row that is no longer PENDING.
LEMMA LockKeeps ==
  ASSUME TypeOK, NEW w \in Workers, NEW j \in Jobs,
         LockJob(w) \/ SkipJob(w) \/ LockFails(w)
  PROVE  OwnReference(w, j)
<1> USE DEF TypeOK
<1>0. held[w] \in Jobs /\ Carries(w) = {held[w]}
  BY DEF LockJob, SkipJob, LockFails, Go, WorkerTypeOK, Holding, Carries
<1>1. CASE LockJob(w)
  <2>1. Status(j)' = IF j = held[w] THEN "RUNNING" ELSE Status(j)
    BY <1>0, <1>1, StatementStatus DEF LockJob
  <2>2. InRedis(j) => InRedis(j)'
    BY <1>1, NeutralCommands DEF LockJob
  <2> QED BY <1>0, <2>1, <2>2 DEF OwnReference
<1>2. CASE SkipJob(w)
  <2>1. Status(j)' = Status(j)
    BY <1>2 DEF SkipJob, storeVars, Status
  <2>2. InRedis(j) => InRedis(j)'
    BY <1>2, NeutralCommands DEF SkipJob
  <2>3. j = held[w] => Status(j) # "PENDING"
    BY <1>2 DEF SkipJob, Lockable
  <2> QED BY <1>0, <2>1, <2>2, <2>3 DEF OwnReference
<1>3. CASE LockFails(w)
  <2>1. Status(j)' = "PENDING" => Status(j) = "PENDING"
    BY <1>0, <1>3, StatementStatus DEF LockFails, storeVars, Status
  <2>2. InRedis(j) => InRedis(j)'
    BY <1>3, OwedType, NeutralCommands DEF LockFails
  <2>3. j \in Carries(w) => j \in dropped'
    BY <1>3, OwedType, NeutralCommands DEF LockFails, Owed
  <2> QED BY <2>1, <2>2, <2>3 DEF OwnReference
<1> QED BY <1>1, <1>2, <1>3

\* The report writes a status other than PENDING.
LEMMA ReportKeeps ==
  ASSUME TypeOK, NEW w \in Workers, NEW j \in Jobs,
         Report(w) \/ ReportSuccessFails(w) \/ ReportFailureFails(w)
  PROVE  OwnReference(w, j)
<1> USE DEF TypeOK
<1>0. held[w] \in Jobs /\ Carries(w) = {}
  BY DEF Report, HandlerFails, ReportSuccess, ReportRetry, ReportDead, ReportSuccessFails,
         NoRetryDate, ReportFailureFails, Go, WorkerTypeOK, Holding, Carries
<1>1. Status(j)' = "PENDING" => Status(j) = "PENDING"
  BY <1>0, StatementStatus
     DEF Report, HandlerFails, ReportSuccess, ReportRetry, ReportDead,
         ReportSuccessFails, NoRetryDate, ReportFailureFails, storeVars, Status
<1>2. InRedis(j) => InRedis(j)'
  BY NeutralCommands
     DEF Report, HandlerFails, ReportSuccess, ReportRetry, ReportDead,
         ReportSuccessFails, NoRetryDate, ReportFailureFails
<1> QED BY <1>0, <1>1, <1>2 DEF OwnReference

\* The row of the next occurrence is with the worker from its insertion until
\* it is in the sorted set.
LEMMA RecurKeeps ==
  ASSUME TypeOK, NEW w \in Workers, NEW j \in Jobs, Recur(w)
  PROVE  OwnReference(w, j)
<1> USE DEF TypeOK
<1>0. held[w] \in Jobs
  BY DEF Recur, CreateNext, ScheduleNext, AbandonNext, NoMoreOccurrences, Go,
         WorkerTypeOK, Holding
<1>1. ASSUME NEW k \in Jobs, CreateNext(w, k)
      PROVE  OwnReference(w, j)
  <2>1. Carries(w) = {} /\ Carries(w)' = {k}
    BY <1>1 DEF CreateNext, Go, Carries, WorkerTypeOK
  <2>2. InRedis(j) => InRedis(j)'
    BY <1>1, NeutralCommands DEF CreateNext
  <2>3. j # k => Status(j)' = Status(j)
    BY <1>1 DEF CreateNext, InsertNextOccurrence, InsertJob, Status, StoreTypeOK
  <2> QED BY <2>1, <2>2, <2>3 DEF OwnReference
<1>2. CASE ScheduleNext(w)
  <2>1. PICK k \in Jobs : k = next[w] /\ Carries(w) = {k}
    BY <1>2 DEF ScheduleNext, Go, Carries, WorkerTypeOK
  <2>2. (InRedis(j) => InRedis(j)') /\ InRedis(k)'
    BY <1>2, <2>1, AddingCommands DEF ScheduleNext
  <2>3. Status(j)' = Status(j)
    BY <1>2 DEF ScheduleNext, storeVars, Status
  <2> QED BY <2>1, <2>2, <2>3 DEF OwnReference
<1>3. CASE AbandonNext(w)
  <2>1. InRedis(j) => InRedis(j)'
    BY <1>3, OwedType, NeutralCommands DEF AbandonNext
  <2>2. j \in Carries(w) => j \in dropped'
    BY <1>3, OwedType, NeutralCommands DEF AbandonNext, Owed
  <2>3. Status(j)' = Status(j)
    BY <1>3 DEF AbandonNext, storeVars, Status
  <2> QED BY <2>1, <2>2, <2>3 DEF OwnReference
<1>4. CASE NoMoreOccurrences(w)
  <2>1. Carries(w) = {}
    BY <1>4 DEF NoMoreOccurrences, Go, Carries
  <2>2. InRedis(j) => InRedis(j)'
    BY <1>4, NeutralCommands DEF NoMoreOccurrences
  <2>3. Status(j)' = Status(j)
    BY <1>4 DEF NoMoreOccurrences, storeVars, Status
  <2> QED BY <2>1, <2>2, <2>3 DEF OwnReference
<1> QED BY <1>1, <1>2, <1>3, <1>4 DEF Recur

\* A crash drops what the worker carries; the other steps carry nothing.
LEMMA EndKeeps ==
  ASSUME TypeOK, NEW w \in Workers, NEW j \in Jobs,
         StartWorker(w) \/ Heartbeat(w) \/ AckJob(w) \/ AckFails(w)
           \/ StopWorker(w) \/ CrashWorker(w)
  PROVE  OwnReference(w, j)
<1> USE DEF TypeOK
<1>1. Status(j)' = Status(j)
  BY SweepStatus DEF StartWorker, Heartbeat, AckJob, AckFails, StopWorker,
     CrashWorker, storeVars, Status
<1>2. CASE CrashWorker(w)
  <2>1. InRedis(j) => InRedis(j)'
    BY <1>2, OwedType, NeutralCommands DEF CrashWorker
  <2>2. j \in Carries(w) => j \in dropped'
    BY <1>2, OwedType, NeutralCommands DEF CrashWorker, Owed
  <2> QED BY <1>1, <2>1, <2>2 DEF OwnReference
<1>3. CASE Heartbeat(w)
  <2>1. Carries(w)' = Carries(w)
    BY <1>3 DEF Heartbeat, workerVars, Carries
  <2>2. InRedis(j) => InRedis(j)'
    BY <1>3, NeutralCommands DEF Heartbeat
  <2> QED BY <1>1, <2>1, <2>2 DEF OwnReference
<1>4. CASE StartWorker(w) \/ AckJob(w) \/ AckFails(w) \/ StopWorker(w)
  <2>1. Carries(w) = {}
    BY <1>4 DEF StartWorker, AckJob, AckFails, StopWorker, Go, Carries
  <2>2. pc[w] = "acking" => held[w] \in Jobs
    BY DEF WorkerTypeOK, Holding
  <2>3. InRedis(j) => InRedis(j)'
    BY <1>4, <2>2, NeutralCommands
       DEF StartWorker, AckJob, AckFails, StopWorker
  <2> QED BY <1>1, <2>1, <2>3 DEF OwnReference
<1> QED BY <1>2, <1>3, <1>4

\* Every step of a worker keeps the invariant.
LEMMA WorkerKeeps ==
  ASSUME TypeOK, NoStrandedJob, WorkerNext, LeavesServices, LeavesApi
  PROVE  NoStrandedJob'
<1>1. PICK w \in Workers : WorkerStep(w) \/ Heartbeat(w) \/ WorkerFault(w)
  BY DEF WorkerNext
<1>2. ASSUME NEW j \in Jobs PROVE OwnReference(w, j)
  BY <1>1, ReserveKeeps, LockKeeps, ReportKeeps, RecurKeeps, EndKeeps
     DEF WorkerStep, WorkerFault
<1>3. ASSUME NEW v \in Workers, v # w PROVE Carries(v)' = Carries(v)
  BY <1>1, <1>3, OthersCarry DEF TypeOK
<1>4. dropped \subseteq dropped'
  BY <1>1 DEF WorkerStep, Heartbeat, StartWorker, Reserve, ReserveJob, PopJob,
     StoreReserved, LockJob, SkipJob, Report, HandlerFails, ReportSuccess,
     ReportRetry, ReportDead, NoRetryDate, Recur, CreateNext, ScheduleNext, AbandonNext,
     NoMoreOccurrences, AckJob, MoveToProcessing, BlockingPop, PushProcessing,
     Schedule, Drop, Ack, transportVars, WorkerFault, StoreReservedFails,
     LockFails, ReportSuccessFails, ReportFailureFails, AckFails, StopWorker,
     CrashWorker
<1>5. /\ SchedulerOwes' = SchedulerOwes /\ ReaperOwes' = ReaperOwes
      /\ \A r \in Requests : RequestOwes(r)' = RequestOwes(r)
      /\ \A j \in Jobs : Cancelled(j) => Cancelled(j)'
  BY DEF LeavesServices, LeavesApi, schedulerVars, reaperVars, apiVars,
         SchedulerOwes, ReaperOwes, RequestOwes, Cancelled
<1>6. Submitters \cup Replayers \subseteq Requests
  BY DEF Requests
<1> SUFFICES ASSUME NEW j \in Jobs, Status(j)' = "PENDING"
             PROVE  Carried(j)' \/ j \in dropped' \/ Cancelled(j)'
  BY DEF NoStrandedJob
<1>7. CASE j \in Carries(w)'
  BY <1>7 DEF Carried
<1>8. CASE Carried(j)
  BY <1>2, <1>3, <1>5, <1>6, <1>8 DEF Carried, OwnReference
<1>9. CASE j \in dropped \/ Cancelled(j)
  BY <1>4, <1>5, <1>9
<1> QED BY <1>2, <1>7, <1>8, <1>9 DEF NoStrandedJob, OwnReference

-----------------------------------------------------------------------------
(* The steps of the scheduler, the reaper, the API and the clocks.         *)

\* A row the scheduler makes PENDING is in its batch, and a row leaves the
\* batch for a list or, when a pass fails, for dropped.
LEMMA SchedulerKeeps ==
  ASSUME TypeOK, NoStrandedJob, SchedulerNext, LeavesWorkers, LeavesApi,
         UNCHANGED reaperVars
  PROVE  NoStrandedJob'
<1> USE DEF TypeOK
<1>0. /\ ReaperOwes' = ReaperOwes
      /\ \A w \in Workers : Carries(w)' = Carries(w)
      /\ \A r \in Requests : RequestOwes(r)' = RequestOwes(r)
      /\ \A j \in Jobs : Cancelled(j) => Cancelled(j)'
      /\ Submitters \cup Replayers \subseteq Requests
  BY DEF LeavesWorkers, LeavesApi, workerVars, reaperVars, apiVars, ReaperOwes,
         Carries, RequestOwes, Cancelled, Requests
<1>1. SchedulerOwes \in SUBSET Jobs
  BY DEF SchedulerOwes, SchedulerTypeOK
<1> SUFFICES ASSUME NEW j \in Jobs, Status(j)' = "PENDING"
             PROVE  Carried(j)' \/ j \in dropped' \/ Cancelled(j)'
  BY DEF NoStrandedJob
<1>2. Status(j) = "PENDING" \/ j \in SchedulerOwes'
  <2>1. CASE TakeRetries \/ TakeStale
    BY <2>1, SweepStatus DEF TakeRetries, TakeStale, Enter, SchedulerOwes
  <2>2. CASE ~(TakeRetries \/ TakeStale)
    BY <2>2, SweepStatus
       DEF SchedulerNext, SchedulerStep, StartScheduler, PromoteDelayed,
           SkipReaper, ExpireWorkers, SyncJob, PushRetry, PushStale,
           SchedulerFails, CrashScheduler, storeVars, Status
  <2> QED BY <2>1, <2>2
<1>3. (InRedis(j) => InRedis(j)') /\ (j \in dropped => j \in dropped')
  <2>1. CASE StartScheduler \/ SkipReaper \/ TakeRetries \/ ExpireWorkers \/ TakeStale
    BY <2>1, NeutralCommands DEF StartScheduler, SkipReaper, TakeRetries,
       ExpireWorkers, TakeStale, transportVars
  <2>2. CASE PromoteDelayed
    BY <2>2, NeutralCommands DEF PromoteDelayed, PromoteDue
  <2>3. ASSUME NEW k \in Jobs, SyncJob(k) \/ PushRetry(k) \/ PushStale(k)
        PROVE  (InRedis(j) => InRedis(j)') /\ (j \in dropped => j \in dropped')
    <3>1. jobs[k].priority \in Int
      BY DEF StoreTypeOK, Row
    <3> QED BY <2>3, <3>1, AddingCommands DEF SyncJob, PushRetry, PushStale
  <2>4. CASE SchedulerFails \/ CrashScheduler
    BY <1>1, <2>4, NeutralCommands DEF SchedulerFails, CrashScheduler
  <2> QED BY <2>1, <2>2, <2>3, <2>4 DEF SchedulerNext, SchedulerStep
<1>4. j \in SchedulerOwes =>
        j \in SchedulerOwes' \/ InRedis(j)' \/ j \in dropped'
  <2>1. CASE StartScheduler \/ SkipReaper \/ TakeRetries \/ ExpireWorkers
               \/ TakeStale \/ PromoteDelayed
    BY <2>1 DEF StartScheduler, SkipReaper, TakeRetries, ExpireWorkers,
       TakeStale, PromoteDelayed, Advance, SchedulerOwes
  <2>2. ASSUME NEW k \in Jobs, SyncJob(k) \/ PushRetry(k) \/ PushStale(k)
        PROVE  j \in SchedulerOwes => j \in SchedulerOwes' \/ InRedis(j)'
    <3>1. j # k => (j \in SchedulerOwes => j \in SchedulerOwes')
      BY <2>2 DEF SyncJob, PushRetry, PushStale, ServeOne, SchedulerOwes
    <3>2. jobs[k].priority \in Int
      BY DEF StoreTypeOK, Row
    <3>3. InRedis(k)'
      BY <2>2, <3>2, AddingCommands DEF SyncJob, PushRetry, PushStale
    <3> QED BY <3>1, <3>3
  <2>3. CASE SchedulerFails \/ CrashScheduler
    BY <1>1, <2>3, NeutralCommands DEF SchedulerFails, CrashScheduler
  <2> QED BY <2>1, <2>2, <2>3 DEF SchedulerNext, SchedulerStep
<1>5. CASE Status(j) = "PENDING"
  <2>1. Carried(j) \/ j \in dropped \/ Cancelled(j)
    BY <1>5 DEF NoStrandedJob
  <2> QED BY <1>0, <1>3, <1>4, <2>1 DEF Carried
<1> QED BY <1>2, <1>5 DEF Carried

\* The same of the reaper, whose batch is empty whenever it takes rows.
LEMMA ReaperKeeps ==
  ASSUME TypeOK, NoStrandedJob, ReaperNext, LeavesWorkers, LeavesApi,
         UNCHANGED schedulerVars
  PROVE  NoStrandedJob'
<1> USE DEF TypeOK
<1>0. /\ SchedulerOwes' = SchedulerOwes
      /\ \A w \in Workers : Carries(w)' = Carries(w)
      /\ \A r \in Requests : RequestOwes(r)' = RequestOwes(r)
      /\ \A j \in Jobs : Cancelled(j) => Cancelled(j)'
      /\ Submitters \cup Replayers \subseteq Requests
  BY DEF LeavesWorkers, LeavesApi, workerVars, schedulerVars, apiVars,
         SchedulerOwes, Carries, RequestOwes, Cancelled, Requests
<1>1. ReaperOwes \in SUBSET Jobs /\ "default" \in Tiers
  BY DEF ReaperOwes, ReaperTypeOK, Tiers
<1> SUFFICES ASSUME NEW j \in Jobs, Status(j)' = "PENDING"
             PROVE  Carried(j)' \/ j \in dropped' \/ Cancelled(j)'
  BY DEF NoStrandedJob
<1>2. Status(j) = "PENDING" \/ j \in ReaperOwes'
  <2>1. CASE ReaperReclaims \/ ReaperTakesRetries
    BY <2>1, SweepStatus DEF ReaperReclaims, ReaperTakesRetries, ReaperOwes
  <2>2. CASE ~(ReaperReclaims \/ ReaperTakesRetries)
    BY <2>2, SweepStatus
       DEF ReaperNext, ReaperStep, StartReaper, ReaperExpires, RequeuePushes,
           RequeueRemoves, ReaperPushesRetry, ReaperPushFails,
           ReaperQueryFails, CrashReaper, storeVars, Status
  <2> QED BY <2>1, <2>2
<1>3. ASSUME StartReaper \/ ReaperExpires \/ ReaperReclaims
               \/ ReaperTakesRetries \/ ReaperQueryFails
      PROVE  /\ InRedis(j) => InRedis(j)'
             /\ j \in dropped => j \in dropped'
             /\ j \in ReaperOwes => j \in ReaperOwes'
  <2>1. UNCHANGED transportVars /\ ReaperOwes = {}
    BY <1>3 DEF StartReaper, ReaperExpires, ReaperReclaims, ReaperTakesRetries,
       ReaperQueryFails, ReaperOwes, ReaperTypeOK
  <2> QED BY <2>1, NeutralCommands DEF transportVars
<1>4. ASSUME RequeuePushes
      PROVE  /\ InRedis(j) => InRedis(j)'
             /\ j \in dropped => j \in dropped'
             /\ j \in ReaperOwes => j \in ReaperOwes' \/ InRedis(j)'
  <2>1. PICK k \in Jobs : k = rcur
    BY <1>4 DEF RequeuePushes, ReaperTypeOK
  <2>2. InRedis(k)' /\ (InRedis(j) => InRedis(j)') /\ dropped' = dropped
    BY <1>1, <1>4, <2>1, AddingCommands DEF RequeuePushes
  <2>3. j \in ReaperOwes => j = k \/ j \in ReaperOwes'
    BY <1>4, <2>1 DEF RequeuePushes, ReaperOwes
  <2> QED BY <2>2, <2>3
<1>5. ASSUME NEW k \in Jobs, RequeueRemoves(k)
      PROVE  /\ InRedis(j) => InRedis(j)'
             /\ j \in dropped => j \in dropped'
             /\ j \in ReaperOwes => j \in ReaperOwes'
  <2>1. InRedis(j) => InRedis(j)'
    BY <1>5, NeutralCommands DEF RequeueRemoves
  <2>2. dropped' = dropped /\ (j \in ReaperOwes => j \in ReaperOwes')
    BY <1>5 DEF RequeueRemoves, Ack, ReaperOwes
  <2> QED BY <2>1, <2>2
<1>6. ASSUME NEW k \in Jobs, ReaperPushesRetry(k)
      PROVE  /\ InRedis(j) => InRedis(j)'
             /\ j \in dropped => j \in dropped'
             /\ j \in ReaperOwes => j \in ReaperOwes' \/ InRedis(j)'
  <2>1. InRedis(k)' /\ (InRedis(j) => InRedis(j)') /\ dropped' = dropped
    BY <1>1, <1>6, AddingCommands DEF ReaperPushesRetry
  <2>2. j \in ReaperOwes => j = k \/ j \in ReaperOwes'
    BY <1>6 DEF ReaperPushesRetry, ReaperOwes
  <2> QED BY <2>1, <2>2
<1>7. ASSUME NEW k \in Jobs, ReaperPushFails(k)
      PROVE  /\ InRedis(j) => InRedis(j)'
             /\ j \in dropped => j \in dropped'
             /\ j \in ReaperOwes => j \in ReaperOwes' \/ j \in dropped'
  <2>1. /\ InRedis(j) => InRedis(j)'
        /\ j \in dropped \cup {k} => j \in dropped'
    BY <1>7, NeutralCommands DEF ReaperPushFails
  <2>2. j \in ReaperOwes => j = k \/ j \in ReaperOwes'
    BY <1>7 DEF ReaperPushFails, ReaperOwes
  <2> QED BY <2>1, <2>2
<1>8. ASSUME CrashReaper
      PROVE  /\ InRedis(j) => InRedis(j)'
             /\ j \in dropped => j \in dropped'
             /\ j \in ReaperOwes => j \in dropped'
  BY <1>1, <1>8, NeutralCommands DEF CrashReaper
<1>9. /\ InRedis(j) => InRedis(j)'
      /\ j \in dropped => j \in dropped'
      /\ j \in ReaperOwes => j \in ReaperOwes' \/ InRedis(j)' \/ j \in dropped'
  BY <1>3, <1>4, <1>5, <1>6, <1>7, <1>8 DEF ReaperNext, ReaperStep
<1>10. CASE Status(j) = "PENDING"
  <2>1. Carried(j) \/ j \in dropped \/ Cancelled(j)
    BY <1>10 DEF NoStrandedJob
  <2> QED BY <1>0, <1>9, <2>1 DEF Carried
<1> QED BY <1>2, <1>10 DEF Carried

\* A request carries the row it made PENDING until it has pushed it, and
\* what a cancel request purges is the row it is about.
LEMMA ApiKeeps ==
  ASSUME TypeOK, NoStrandedJob, ApiNext, LeavesWorkers, LeavesServices
  PROVE  NoStrandedJob'
<1> USE DEF TypeOK
<1>0. /\ SchedulerOwes' = SchedulerOwes /\ ReaperOwes' = ReaperOwes
      /\ \A w \in Workers : Carries(w)' = Carries(w)
      /\ Submitters \cup Replayers \subseteq Requests
      /\ Cancellers \subseteq Requests
  BY DEF LeavesWorkers, LeavesServices, workerVars, schedulerVars, reaperVars,
         SchedulerOwes, ReaperOwes, Carries, Requests
<1> PICK r \in Requests : FirstStep(r) \/ LaterStep(r) \/ AbortRequest(r)
  BY DEF ApiNext
<1>1. ASSUME NEW q \in Requests, q # r
      PROVE  /\ RequestOwes(q)' = RequestOwes(q)
             /\ target'[q] = target[q]
  BY <1>1 DEF FirstStep, LaterStep, AbortRequest, CreateJob, CancelJob,
     SelectLetter, SubmitJob, PurgeQueue, PurgeSchedule, CommitReplay,
     EnqueueReplayed, Move, RequestOwes, ApiTypeOK
<1>2. ASSUME NEW k \in Jobs, Cancelled(k) PROVE Cancelled(k)'
  <2>1. PICK c \in Cancellers : target[c] = k
    BY <1>2 DEF Cancelled
  <2>2. apc[c] # "new"
    BY <1>0, <2>1, StoreAssumption DEF ApiTypeOK
  <2>3. target'[c] = k
    BY <1>0, <1>1, <2>1, <2>2 DEF FirstStep, LaterStep, AbortRequest, CreateJob,
       CancelJob, SelectLetter, SubmitJob, PurgeQueue, PurgeSchedule,
       CommitReplay, EnqueueReplayed, Move
  <2> QED BY <2>3 DEF Cancelled
<1>3. ASSUME NEW j \in Jobs,
             /\ Status(j)' = "PENDING" =>
                  Status(j) = "PENDING" \/ (r \in Submitters \cup Replayers
                                              /\ j \in RequestOwes(r)')
             /\ InRedis(j) => InRedis(j)' \/ Cancelled(j)'
             /\ j \in dropped => j \in dropped'
             /\ r \in Submitters \cup Replayers /\ j \in RequestOwes(r) =>
                  j \in RequestOwes(r)' \/ InRedis(j)' \/ j \in dropped',
             Status(j)' = "PENDING"
      PROVE  Carried(j)' \/ j \in dropped' \/ Cancelled(j)'
  <2>1. CASE Status(j) = "PENDING"
    <3>1. Carried(j) \/ j \in dropped \/ Cancelled(j)
      BY <2>1 DEF NoStrandedJob
    <3> QED BY <1>0, <1>1, <1>2, <1>3, <3>1 DEF Carried
  <2> QED BY <1>3, <2>1 DEF Carried
<1> SUFFICES ASSUME NEW j \in Jobs
             PROVE  /\ Status(j)' = "PENDING" =>
                         Status(j) = "PENDING" \/ (r \in Submitters \cup Replayers
                                                     /\ j \in RequestOwes(r)')
                    /\ InRedis(j) => InRedis(j)' \/ Cancelled(j)'
                    /\ j \in dropped => j \in dropped'
                    /\ r \in Submitters \cup Replayers /\ j \in RequestOwes(r) =>
                         j \in RequestOwes(r)' \/ InRedis(j)' \/ j \in dropped'
  BY <1>3 DEF NoStrandedJob
<1>4. ASSUME NEW k \in Jobs, CreateJob(r, k), r \in Submitters
      PROVE  /\ Status(j)' = "PENDING" =>
                  Status(j) = "PENDING" \/ j \in RequestOwes(r)'
             /\ RequestOwes(r) = {}
             /\ InRedis(j) => InRedis(j)'
             /\ dropped' = dropped
  <2>1. j # k => Status(j)' = Status(j)
    BY <1>4 DEF CreateJob, InsertJob, StoreTypeOK, Status
  <2>2. RequestOwes(r)' = {k} /\ RequestOwes(r) = {}
    BY <1>4 DEF CreateJob, Move, RequestOwes, ApiTypeOK
  <2>3. (InRedis(j) => InRedis(j)') /\ dropped' = dropped
    BY <1>4, NeutralCommands DEF CreateJob, transportVars
  <2> QED BY <2>1, <2>2, <2>3
<1>5. ASSUME NEW k \in Jobs, CancelJob(r, k)
      PROVE  /\ Status(j)' = "PENDING" => Status(j) = "PENDING"
             /\ RequestOwes(r) = {}
             /\ InRedis(j) => InRedis(j)'
             /\ dropped' = dropped
  <2>1. Status(j)' = "PENDING" => Status(j) = "PENDING"
    BY <1>5, StatementStatus DEF CancelJob
  <2>2. RequestOwes(r) = {}
    BY <1>5 DEF CancelJob, Move, RequestOwes
  <2>3. (InRedis(j) => InRedis(j)') /\ dropped' = dropped
    BY <1>5, NeutralCommands DEF CancelJob, transportVars
  <2> QED BY <2>1, <2>2, <2>3
<1>6. ASSUME NEW k \in Jobs, NEW n \in 1..letters[k], SelectLetter(r, k, n)
      PROVE  /\ Status(j)' = Status(j)
             /\ RequestOwes(r) = {}
             /\ InRedis(j) => InRedis(j)'
             /\ dropped' = dropped
  BY <1>6, NeutralCommands DEF SelectLetter, Move, RequestOwes, storeVars,
     Status, transportVars
<1>7. ASSUME SubmitJob(r) \/ EnqueueReplayed(r)
      PROVE  /\ Status(j)' = Status(j)
             /\ InRedis(j) => InRedis(j)'
             /\ j \in RequestOwes(r) => InRedis(j)'
             /\ dropped' = dropped
  <2>1. PICK k \in Jobs : k = target[r]
    BY <1>7 DEF SubmitJob, EnqueueReplayed, Move, ApiTypeOK
  <2>2. jobs[k].priority \in Int /\ "default" \in Tiers
    BY DEF StoreTypeOK, Row, Tiers
  <2>3. InRedis(k)' /\ (InRedis(j) => InRedis(j)') /\ dropped' = dropped
    BY <1>7, <2>1, <2>2, AddingCommands DEF SubmitJob, EnqueueReplayed
  <2>4. Status(j)' = Status(j)
    BY <1>7 DEF SubmitJob, EnqueueReplayed, storeVars, Status
  <2> QED BY <2>1, <2>3, <2>4 DEF RequestOwes
<1>8. ASSUME PurgeQueue(r) \/ PurgeSchedule(r)
      PROVE  /\ Status(j)' = Status(j)
             /\ RequestOwes(r) = {}
             /\ InRedis(j) => InRedis(j)' \/ Cancelled(j)'
             /\ dropped' = dropped
  <2>1. PICK k \in Jobs : k = target[r]
    BY <1>8 DEF PurgeQueue, PurgeSchedule, Move, ApiTypeOK
  <2>2. r \in Cancellers /\ target' = target
    BY <1>8 DEF PurgeQueue, PurgeSchedule, Move, Purging, ApiTypeOK
  <2>3. Cancelled(k)'
    BY <2>1, <2>2 DEF Cancelled
  <2>4. j # k => (InRedis(j) => InRedis(j)')
    BY <1>8, <2>1, TakingCommands DEF PurgeQueue, PurgeSchedule, Tiers
  <2>5. RequestOwes(r) = {} /\ dropped' = dropped /\ Status(j)' = Status(j)
    BY <1>8 DEF PurgeQueue, PurgeSchedule, Move, RequestOwes, RemoveFrom,
       Unschedule, storeVars, Status
  <2> QED BY <2>3, <2>4, <2>5
<1>9. ASSUME CommitReplay(r)
      PROVE  /\ Status(j)' = "PENDING" =>
                  Status(j) = "PENDING"
                    \/ (r \in Submitters \cup Replayers /\ j \in RequestOwes(r)')
             /\ RequestOwes(r) = {}
             /\ InRedis(j) => InRedis(j)'
             /\ dropped' = dropped
  <2>1. r \in Replayers /\ target[r] \in Jobs /\ letter[r] \in Nat
    BY <1>9 DEF CommitReplay, Move, ApiTypeOK
  <2>2. j # target[r] => Status(j)' = Status(j)
    BY <1>9, <2>1, StatementStatus DEF CommitReplay
  <2>3. RequestOwes(r)' = {target[r]} /\ RequestOwes(r) = {}
    BY <1>9 DEF CommitReplay, Move, RequestOwes, ApiTypeOK
  <2>4. (InRedis(j) => InRedis(j)') /\ dropped' = dropped
    BY <1>9, NeutralCommands DEF CommitReplay, transportVars
  <2> QED BY <2>1, <2>2, <2>3, <2>4
<1>10. ASSUME AbortRequest(r)
       PROVE  /\ Status(j)' = Status(j)
              /\ InRedis(j) => InRedis(j)'
              /\ j \in dropped \cup RequestOwes(r) => j \in dropped'
  <2>1. RequestOwes(r) \in SUBSET Jobs
    BY <1>10 DEF AbortRequest, RequestOwes, ApiTypeOK
  <2> QED BY <1>10, <2>1, NeutralCommands DEF AbortRequest, storeVars, Status
<1> QED
  BY <1>4, <1>5, <1>6, <1>7, <1>8, <1>9, <1>10 DEF FirstStep, LaterStep

\* Time moves no reference and changes no status.
LEMMA TimeKeeps ==
  ASSUME TypeOK, NoStrandedJob, Time
  PROVE  NoStrandedJob'
<1>1. UNCHANGED <<transportVars, workerVars, schedulerVars, reaperVars, apiVars>>
  BY DEF Time, RetryDue, StartDue, LockOverdue, HeartbeatOverdue,
     LockGoesStale, HeartbeatGoesLate, LeavesWorkers, LeavesServices, LeavesApi
<1>2. ASSUME NEW j \in Jobs PROVE Status(j)' = Status(j)
  BY SweepStatus DEF TypeOK, Time, RetryDue, StartDue, LockOverdue,
     HeartbeatOverdue, LockGoesStale, HeartbeatGoesLate
<1> QED BY <1>1, <1>2 DEF NoStrandedJob, Carried, InRedis, Queued, Carries,
   SchedulerOwes, ReaperOwes, RequestOwes, Cancelled, transportVars, workerVars,
   schedulerVars, reaperVars, apiVars

-----------------------------------------------------------------------------
\* A PENDING job is carried to a worker, or was dropped by a process that
\* failed, or was the target of a cancel request: whatever the numbers of
\* jobs, workers and requests, the faults and the timeouts that expire.
THEOREM NoJobStranded == Spec => []NoStrandedJob
<1>1. Init => TypeOK /\ NoStrandedJob
  <2> SUFFICES ASSUME Init PROVE NoStrandedJob
    BY InitTypes
  <2>1. ASSUME NEW j \in Jobs PROVE Status(j) = "ABSENT"
    BY DEF Init, StoreInit, AbsentRow, NewRow, Status
  <2> QED BY <2>1 DEF NoStrandedJob
<1>2. TypeOK /\ NoStrandedJob /\ [Next]_vars => TypeOK' /\ NoStrandedJob'
  <2> SUFFICES ASSUME TypeOK, NoStrandedJob, [Next]_vars
               PROVE  NoStrandedJob'
    BY NextTypes
  <2>1. CASE Next
    BY <2>1, WorkerKeeps, SchedulerKeeps, ReaperKeeps, ApiKeeps, TimeKeeps
       DEF Next
  <2>2. CASE UNCHANGED vars
    BY <2>2 DEF NoStrandedJob, Carried, InRedis, Queued, Carries, SchedulerOwes,
       ReaperOwes, RequestOwes, Cancelled, Status, vars, storeVars,
       transportVars, workerVars, schedulerVars, reaperVars, apiVars
  <2> QED BY <2>1, <2>2
<1> QED BY <1>1, <1>2, PTL DEF Spec
=============================================================================
