----------------------------- MODULE RowProofs -----------------------------
(***************************************************************************)
(* The rows, for every value of the constants: who owns their locks, their *)
(* dead letters, their delays, and the chain of recurring jobs.            *)
(* The first part is about locks, as long as no call to PostgreSQL raises. *)
(* OwnerAttends is inductive with TypeOK and OwnerCounts: one statement    *)
(* makes a row RUNNING, fetch_and_lock_job, and the worker that issued it  *)
(* is executing the job, and knows its attempts as the row has them; every *)
(* way out of the execution writes another status first, is a crash, or    *)
(* is a retry whose date cannot be computed.                               *)
(* SoleExecution and TerminalIsFinal hold as long as, besides, no timeout  *)
(* expires under a live worker and there is at most one replay request.    *)
(* The rows know nothing of the workers, so neither is inductive: LockInv  *)
(* ties what a worker is doing to the lock, to its heartbeat and to the    *)
(* dead letters.                                                           *)
(* In the second part, the steps of all processes are reduced to the       *)
(* statements they issue, and those to their effect on a row.              *)
(***************************************************************************)
EXTENDS DistribuQProofs, FiniteSetTheorems

-----------------------------------------------------------------------------
(* The owner of a lock.                                                    *)

\* What the invariants about locks read of a row.
LockOf(row) == <<row.lockedBy, row.attempts, row.retriable>>

\* No row has become RUNNING or changed its lock.
NoNewLock ==
  \A j \in Jobs : Status(j)' = "RUNNING" =>
    Status(j) = "RUNNING" /\ LockOf(jobs'[j]) = LockOf(jobs[j])

\* The owner of a lock that executes the job knows its attempts.
OwnerCounts ==
  \A j \in Jobs, w \in Workers :
    Status(j) = "RUNNING" /\ jobs[j].lockedBy = w /\ Executing(w, j) =>
      snap[w] = jobs[j].attempts

OwnerInv == OwnerAttends /\ OwnerCounts

\* A step of w leaves the other workers where they are.
OtherWorkersStand(w) ==
  \A v \in Workers : v # w =>
    pc'[v] = pc[v] /\ held'[v] = held[v] /\ snap'[v] = snap[v]

-----------------------------------------------------------------------------
\* Every statement on one row but fetch_and_lock_job takes locks away only.
LEMMA StatementLocks ==
  ASSUME StoreTypeOK, NEW j \in Jobs
  PROVE  /\ CancelRow(j) => NoNewLock
         /\ \A n \in Nat : ReplayRow(j, n) => NoNewLock
         /\ MarkSuccess(j) => NoNewLock /\ Status(j)' # "RUNNING"
         /\ MarkRetrying(j) => NoNewLock /\ Status(j)' # "RUNNING"
         /\ MoveToDeadLetter(j) => NoNewLock /\ Status(j)' # "RUNNING"
         /\ \A p \in Int, s \in {"now", "future"}, c, d \in BOOLEAN,
               i \in Jobs \cup {NoJob} :
              InsertJob(j, NewRow(p, s, c, d), i) => NoNewLock
<1>1. jobs \in [Jobs -> Row]
  BY DEF StoreTypeOK
<1>2. CancelRow(j) => NoNewLock
  BY <1>1 DEF CancelRow, Unlocked, NoNewLock, LockOf, Status, Row
<1>3. ASSUME NEW n \in Nat, ReplayRow(j, n) PROVE NoNewLock
  BY <1>1, <1>3 DEF ReplayRow, ReplayedRow, Unlocked, NoNewLock, LockOf, Status, Row
<1>4. ASSUME NEW row \in Row, row.status # "RUNNING",
             jobs' = [jobs EXCEPT ![j] = row]
      PROVE  NoNewLock /\ Status(j)' # "RUNNING"
  BY <1>1, <1>4 DEF NoNewLock, LockOf, Status
<1>5. /\ MarkSuccess(j) => NoNewLock /\ Status(j)' # "RUNNING"
      /\ MarkRetrying(j) => NoNewLock /\ Status(j)' # "RUNNING"
      /\ MoveToDeadLetter(j) => NoNewLock /\ Status(j)' # "RUNNING"
  <2>1. /\ Unlocked(jobs[j], "SUCCESS").status = "SUCCESS"
        /\ Unlocked(jobs[j], "DEAD_LETTER").status = "DEAD_LETTER"
        /\ RetryingRow(jobs[j]).status = "RETRYING"
    BY <1>1 DEF RetryingRow, Unlocked, Row
  <2>2. /\ Unlocked(jobs[j], "SUCCESS") \in Row
        /\ Unlocked(jobs[j], "DEAD_LETTER") \in Row
        /\ RetryingRow(jobs[j]) \in Row
    BY <1>1, UnlockedType, RowTypes DEF Statuses
  <2> QED BY <1>4, <2>1, <2>2 DEF MarkSuccess, MarkRetrying, MoveToDeadLetter
<1>6. ASSUME NEW p \in Int, NEW s \in {"now", "future"},
             NEW c \in BOOLEAN, NEW d \in BOOLEAN,
             NEW i \in Jobs \cup {NoJob}, InsertJob(j, NewRow(p, s, c, d), i)
      PROVE  NoNewLock
  BY <1>1, <1>6 DEF InsertJob, NewRow, NoNewLock, LockOf, Status
<1> QED BY <1>2, <1>3, <1>5, <1>6

\* So do the sweeps; the registry and the clocks change no lock.
LEMMA SweepLocks ==
  ASSUME StoreTypeOK
  PROVE  /\ ReclaimDueRetries => NoNewLock
         /\ ReclaimStaleJobs => NoNewLock
         /\ MarkExpiredWorkersDead => NoNewLock
         /\ UNCHANGED storeVars => NoNewLock
         /\ \A w \in Workers : /\ UpsertHeartbeat(w) => NoNewLock
                               /\ MarkWorkerDead(w) => NoNewLock
                               /\ HeartbeatTurnsLate(w) => NoNewLock
         /\ \A j \in Jobs : /\ RetryBecomesDue(j) => NoNewLock
                            /\ StartBecomesDue(j) => NoNewLock
                            /\ LockTurnsStale(j) => NoNewLock
<1>1. jobs \in [Jobs -> Row]
  BY DEF StoreTypeOK
<1>2. (ReclaimDueRetries => NoNewLock) /\ (ReclaimStaleJobs => NoNewLock)
  <2>1. ASSUME NEW k \in Jobs PROVE Unlocked(jobs[k], "PENDING").status = "PENDING"
    BY <1>1 DEF Unlocked, Row
  <2>2. ASSUME ReclaimDueRetries \/ ReclaimStaleJobs, NEW k \in Jobs
        PROVE  jobs'[k] = Unlocked(jobs[k], "PENDING") \/ jobs'[k] = jobs[k]
    BY <2>2 DEF ReclaimDueRetries, ReclaimStaleJobs
  <2> QED BY <2>1, <2>2 DEF NoNewLock, LockOf, Status
<1>3. (MarkExpiredWorkersDead => NoNewLock) /\ (UNCHANGED storeVars => NoNewLock)
  BY DEF MarkExpiredWorkersDead, storeVars, NoNewLock, LockOf, Status
<1>4. ASSUME NEW w \in Workers
      PROVE  /\ UpsertHeartbeat(w) => NoNewLock
             /\ MarkWorkerDead(w) => NoNewLock
             /\ HeartbeatTurnsLate(w) => NoNewLock
  BY DEF UpsertHeartbeat, MarkWorkerDead, HeartbeatTurnsLate, NoNewLock, LockOf, Status
<1>5. ASSUME NEW j \in Jobs
      PROVE  /\ RetryBecomesDue(j) => NoNewLock
             /\ StartBecomesDue(j) => NoNewLock
             /\ LockTurnsStale(j) => NoNewLock
  BY <1>1 DEF RetryBecomesDue, StartBecomesDue, LockTurnsStale, NoNewLock, LockOf,
              Status, Row
<1> QED BY <1>2, <1>3, <1>4, <1>5

-----------------------------------------------------------------------------
\* A step that takes no lock keeps the invariant if the workers stand still.
LEMMA StillWorkers ==
  ASSUME OwnerInv, NoNewLock, UNCHANGED workerVars
  PROVE  OwnerInv'
BY DEF OwnerInv, OwnerAttends, OwnerCounts, NoNewLock, LockOf, Executing, Status, workerVars

\* A worker that executes nothing and has not crashed owns the lock of no job
\* but one whose delay cannot be computed, so it may do anything but take one.
LEMMA IdleOwners ==
  ASSUME WorkerTypeOK, OwnerInv, NoNewLock, NEW w \in Workers,
         pc[w] \notin {"running", "failed", "crashed"},
         pc'[w] \notin {"running", "failed"}, OtherWorkersStand(w)
  PROVE  OwnerInv'
<1>1. OwnerAttends'
  BY DEF OwnerInv, OwnerAttends, NoNewLock, LockOf, OtherWorkersStand, Executing, Status
<1>2. OwnerCounts'
  BY DEF OwnerInv, OwnerCounts, NoNewLock, LockOf, OtherWorkersStand, Executing, Status
<1> QED BY <1>1, <1>2 DEF OwnerInv

\* Every step of a worker keeps the invariant: the one that takes a lock starts
\* the execution, and those that end it have written another status, or could
\* not compute the date of a retry.
LEMMA WorkerAttends ==
  ASSUME TypeOK, OwnerInv, "db" \notin Faults, WorkerNext
  PROVE  OwnerInv'
<1> USE DEF TypeOK
<1> PICK w \in Workers : WorkerStep(w) \/ Heartbeat(w) \/ WorkerFault(w)
  BY DEF WorkerNext
<1>0. /\ pc \in [Workers -> Locations] /\ held \in [Workers -> Jobs \cup {NoJob}]
      /\ snap \in [Workers -> Nat]
  BY DEF WorkerTypeOK
<1>1. CASE Heartbeat(w)
  BY <1>1, SweepLocks, StillWorkers DEF Heartbeat
<1>2. CASE StartWorker(w) \/ StopWorker(w)
  <2>1. NoNewLock
    BY <1>2, SweepLocks DEF StartWorker, StopWorker
  <2>2. /\ pc[w] \in {"off", "idle"} /\ pc'[w] \in {"idle", "stopped"}
        /\ OtherWorkersStand(w)
    BY <1>0, <1>2 DEF StartWorker, StopWorker, Go, OtherWorkersStand
  <2> QED BY <2>1, <2>2, IdleOwners
<1>3. CASE Reserve(w) \/ StoreReserved(w) \/ StoreReservedFails(w) \/ SkipJob(w)
             \/ ScheduleNext(w) \/ AbandonNext(w) \/ NoMoreOccurrences(w)
             \/ AckJob(w) \/ AckFails(w)
  <2>1. NoNewLock
    BY <1>3, SweepLocks DEF Reserve, ReserveJob, PopJob, StoreReserved,
       StoreReservedFails, SkipJob, ScheduleNext, AbandonNext,
       NoMoreOccurrences, AckJob, AckFails
  <2>2. /\ pc[w] \notin {"running", "failed", "crashed"}
        /\ pc'[w] \notin {"running", "failed"}
        /\ OtherWorkersStand(w)
    BY <1>0, <1>3 DEF Reserve, ReserveJob, PopJob, StoreReserved,
       StoreReservedFails, SkipJob, ScheduleNext, AbandonNext,
       NoMoreOccurrences, AckJob, AckFails, LetGo, Go, OtherWorkersStand
  <2> QED BY <2>1, <2>2, IdleOwners
<1>4. ASSUME NEW k \in Jobs, CreateNext(w, k) PROVE OwnerInv'
  <2>1. held[w] \in Jobs
    BY <1>4 DEF CreateNext, Go, WorkerTypeOK, Holding
  <2>2. /\ jobs[held[w]].priority \in Int
        /\ jobs[held[w]].recurring \in BOOLEAN
        /\ jobs[held[w]].retriable \in BOOLEAN
    BY <2>1 DEF StoreTypeOK, Row
  <2>3. NoNewLock
    BY <1>4, <2>1, <2>2, StatementLocks DEF CreateNext, InsertNextOccurrence
  <2>4. pc[w] = "recurring" /\ pc'[w] = "rescheduling" /\ OtherWorkersStand(w)
    BY <1>0, <1>4 DEF CreateNext, Go, OtherWorkersStand
  <2> QED BY <2>3, <2>4, IdleOwners
<1>5. CASE LockJob(w)
  <2>1. PICK k \in Jobs : k = held[w]
    BY <1>5 DEF LockJob, Go, WorkerTypeOK, Holding
  <2>2. /\ jobs'[k].lockedBy = w
        /\ \A j \in Jobs : j # k => jobs'[j] = jobs[j]
    BY <1>5, <2>1 DEF LockJob, FetchAndLock, LockedRow, StoreTypeOK, Row
  <2>3. Executing(w, k)' /\ held'[w] = k /\ snap'[w] = jobs'[k].attempts
    BY <1>0, <1>5, <2>1 DEF LockJob, Go, Executing
  <2>4. pc[w] = "reserved" /\ OtherWorkersStand(w)
    BY <1>0, <1>5 DEF LockJob, Go, OtherWorkersStand
  <2>5. OwnerAttends'
    BY <2>2, <2>3, <2>4 DEF OwnerInv, OwnerAttends, OtherWorkersStand, Executing, Status
  <2>6. OwnerCounts'
    BY <2>2, <2>3, <2>4 DEF OwnerInv, OwnerCounts, OtherWorkersStand, Executing, Status
  <2> QED BY <2>5, <2>6 DEF OwnerInv
<1>6. CASE HandlerFails(w)
  <2>1. NoNewLock /\ snap' = snap
    BY <1>6, SweepLocks DEF HandlerFails
  <2>2. ASSUME NEW v \in Workers, NEW j \in Jobs
        PROVE  /\ Executing(v, j) <=> Executing(v, j)'
               /\ pc[v] = "crashed" => pc'[v] = "crashed"
    BY <1>0, <1>6 DEF HandlerFails, Go, Executing
  <2>3. OwnerAttends'
    BY <2>1, <2>2 DEF OwnerInv, OwnerAttends, NoNewLock, LockOf
  <2>4. OwnerCounts'
    BY <2>1, <2>2 DEF OwnerInv, OwnerCounts, NoNewLock, LockOf
  <2> QED BY <2>3, <2>4 DEF OwnerInv
<1>7. CASE ReportSuccess(w) \/ ReportRetry(w) \/ ReportDead(w)
  <2>1. PICK k \in Jobs : k = held[w]
    BY <1>7 DEF ReportSuccess, ReportRetry, ReportDead, Go, WorkerTypeOK, Holding
  <2>2. NoNewLock /\ Status(k)' # "RUNNING"
    BY <1>7, <2>1, StatementLocks DEF ReportSuccess, ReportRetry, ReportDead
  <2>3. /\ pc[w] # "crashed" /\ pc'[w] \notin {"running", "failed"}
        /\ OtherWorkersStand(w)
    BY <1>0, <1>7 DEF ReportSuccess, ReportRetry, ReportDead, Go, OtherWorkersStand
  <2>4. OwnerAttends'
    BY <2>1, <2>2, <2>3 DEF OwnerInv, OwnerAttends, NoNewLock, LockOf, OtherWorkersStand, Executing
  <2>5. OwnerCounts'
    BY <2>2, <2>3 DEF OwnerInv, OwnerCounts, NoNewLock, LockOf, OtherWorkersStand, Executing
  <2> QED BY <2>4, <2>5 DEF OwnerInv
<1>8. CASE NoRetryDate(w)
  <2>1. PICK k \in Jobs : k = held[w] /\ ~jobs[k].retriable
    BY <1>8 DEF NoRetryDate, Go, WorkerTypeOK, Holding
  <2>2. NoNewLock /\ jobs' = jobs
    BY <1>8, SweepLocks DEF NoRetryDate, storeVars
  <2>3. /\ pc[w] = "failed" /\ snap[w] < MaxAttempts /\ pc'[w] = "acking"
        /\ OtherWorkersStand(w)
    BY <1>0, <1>8 DEF NoRetryDate, Go, OtherWorkersStand
  <2>4. OwnerCounts'
    BY <2>2, <2>3 DEF OwnerInv, OwnerCounts, NoNewLock, LockOf, OtherWorkersStand, Executing
  <2>5. ASSUME Status(k) = "RUNNING", jobs[k].lockedBy = w
        PROVE  jobs[k].attempts < MaxAttempts
    BY <2>1, <2>3, <2>5 DEF OwnerInv, OwnerCounts, Executing
  <2>6. OwnerAttends'
    BY <2>1, <2>2, <2>3, <2>5
       DEF OwnerInv, OwnerAttends, OtherWorkersStand, Executing, Status
  <2> QED BY <2>4, <2>6 DEF OwnerInv
<1>9. CASE CrashWorker(w)
  <2>1. NoNewLock
    BY <1>9, SweepLocks DEF CrashWorker
  <2>2. pc'[w] = "crashed" /\ OtherWorkersStand(w)
    BY <1>0, <1>9 DEF CrashWorker, LetGo, OtherWorkersStand
  <2>3. OwnerAttends'
    BY <2>1, <2>2 DEF OwnerInv, OwnerAttends, NoNewLock, LockOf, OtherWorkersStand, Executing
  <2>4. OwnerCounts'
    BY <2>1, <2>2 DEF OwnerInv, OwnerCounts, NoNewLock, LockOf, OtherWorkersStand, Executing
  <2> QED BY <2>3, <2>4 DEF OwnerInv
<1>10. ~(LockFails(w) \/ ReportSuccessFails(w) \/ ReportFailureFails(w))
  BY DEF LockFails, ReportSuccessFails, ReportFailureFails
<1> QED
  BY <1>1, <1>2, <1>3, <1>4, <1>5, <1>6, <1>7, <1>8, <1>9, <1>10
     DEF WorkerStep, Report, Recur, WorkerFault

\* The other processes and the clocks take no lock.
LEMMA ServicesAttend ==
  ASSUME TypeOK, SchedulerNext \/ ReaperNext \/ ApiNext \/ Time
  PROVE  NoNewLock
<1> USE DEF TypeOK
<1>1. CASE SchedulerNext
  BY <1>1, SweepLocks
     DEF SchedulerNext, SchedulerStep, StartScheduler, PromoteDelayed,
         TakeRetries, ExpireWorkers, TakeStale, SyncJob, PushRetry, PushStale,
         SkipReaper, SchedulerFails, CrashScheduler
<1>2. CASE ReaperNext
  BY <1>2, SweepLocks
     DEF ReaperNext, ReaperStep, StartReaper, ReaperExpires, ReaperReclaims,
         RequeueRemoves, RequeuePushes, ReaperTakesRetries, ReaperPushesRetry,
         ReaperPushFails, ReaperQueryFails, CrashReaper
<1>3. CASE ApiNext
  <2> PICK r \in Requests : FirstStep(r) \/ LaterStep(r) \/ AbortRequest(r)
    BY <1>3 DEF ApiNext
  <2>1. ASSUME NEW j \in Jobs, CreateJob(r, j) PROVE NoNewLock
    BY <2>1, StoreAssumption, StatementLocks DEF CreateJob
  <2>2. ASSUME NEW j \in Jobs, CancelJob(r, j) PROVE NoNewLock
    BY <2>2, StatementLocks DEF CancelJob
  <2>3. CASE CommitReplay(r)
    BY <2>3, StatementLocks DEF CommitReplay, Move, ApiTypeOK
  <2>4. ASSUME NEW j \in Jobs, NEW n \in 1..letters[j], SelectLetter(r, j, n)
        PROVE  NoNewLock
    BY <2>4, SweepLocks DEF SelectLetter
  <2>5. CASE SubmitJob(r) \/ PurgeQueue(r) \/ PurgeSchedule(r)
               \/ EnqueueReplayed(r) \/ AbortRequest(r)
    BY <2>5, SweepLocks DEF SubmitJob, PurgeQueue, PurgeSchedule,
       EnqueueReplayed, AbortRequest
  <2> QED BY <2>1, <2>2, <2>3, <2>4, <2>5 DEF FirstStep, LaterStep
<1>4. CASE Time
  BY <1>4, SweepLocks DEF Time, RetryDue, StartDue, LockOverdue,
     HeartbeatOverdue, LockGoesStale, HeartbeatGoesLate
<1> QED BY <1>1, <1>2, <1>3, <1>4

-----------------------------------------------------------------------------
\* If no call to PostgreSQL raises, the lock of a RUNNING row is the lock of
\* the worker that is executing the job, or of one that crashed, or of one that
\* could not compute the date of a retry: whatever the number of workers, the
\* payloads, the timeouts that expire and the requests.
THEOREM OwnersAttend ==
  ASSUME "db" \notin Faults
  PROVE  Spec => []OwnerAttends
<1>1. Init => TypeOK /\ OwnerInv
  <2> SUFFICES ASSUME Init PROVE OwnerInv
    BY InitTypes
  <2>1. ASSUME NEW j \in Jobs PROVE Status(j) = "ABSENT"
    BY DEF Init, StoreInit, AbsentRow, NewRow, Status
  <2> QED BY <2>1 DEF OwnerInv, OwnerAttends, OwnerCounts
<1>2. TypeOK /\ OwnerInv /\ [Next]_vars => TypeOK' /\ OwnerInv'
  <2> SUFFICES ASSUME TypeOK, OwnerInv, [Next]_vars
               PROVE  OwnerInv'
    BY NextTypes
  <2>1. CASE WorkerNext
    BY <2>1, WorkerAttends
  <2>2. CASE (SchedulerNext \/ ReaperNext \/ ApiNext) /\ LeavesWorkers
    BY <2>2, ServicesAttend, StillWorkers DEF LeavesWorkers
  <2>3. CASE Time
    <3>1. UNCHANGED workerVars
      BY <2>3 DEF Time, RetryDue, StartDue, LockOverdue, HeartbeatOverdue,
         LockGoesStale, HeartbeatGoesLate, LeavesWorkers
    <3> QED BY <2>3, <3>1, ServicesAttend, StillWorkers
  <2>4. CASE UNCHANGED vars
    BY <2>4, SweepLocks, StillWorkers DEF TypeOK, vars
  <2> QED BY <2>1, <2>2, <2>3, <2>4 DEF Next
<1>3. OwnerInv => OwnerAttends
  BY DEF OwnerInv
<1> QED BY <1>1, <1>2, <1>3, PTL DEF Spec

-----------------------------------------------------------------------------
(* One executor, and one outcome.                                          *)

\* A worker executes a job under a lock of its own that is not overdue.
LockProtects ==
  \A w \in Workers, j \in Jobs : Executing(w, j) =>
    Status(j) = "RUNNING" /\ jobs[j].lockedBy = w /\ ~jobs[j].lockStale

\* The heartbeat of a live worker is recent.
LiveAreAlive == \A w \in Workers : pc[w] \notin Gone => registry[w] = "ALIVE"

\* A job has a dead letter only while it is in DEAD_LETTER, and only one.
LettersFit ==
  \A j \in Jobs, n \in Nat : <<j, n>> \in deadLetters =>
    /\ Status(j) = "DEAD_LETTER"
    /\ \A m \in Nat : <<j, m>> \in deadLetters => m = n

\* The dead letter that a replay selected is there until it commits.
SelectedIsThere ==
  \A r \in Requests : apc[r] = "selected" => <<target[r], letter[r]>> \in deadLetters

LockInv == LockProtects /\ LiveAreAlive /\ LettersFit /\ SelectedIsThere

-----------------------------------------------------------------------------
\* A step that leaves the tables and the requests alone keeps LockInv if it
\* starts no execution and no worker.
LEMMA NoNewExecutor ==
  ASSUME LockInv, UNCHANGED storeVars, UNCHANGED apiVars,
         \A w \in Workers : /\ \A j \in Jobs : Executing(w, j)' => Executing(w, j)
                            /\ pc'[w] \notin Gone => pc[w] \notin Gone
  PROVE  LockInv'
BY DEF LockInv, LockProtects, LiveAreAlive, LettersFit, SelectedIsThere, Status,
       storeVars, apiVars

\* A step that changes only rows nobody executes and that have no dead letter
\* keeps LockInv if the workers and the requests stand still.
LEMMA UnlockedRowsOnly ==
  ASSUME LockInv, UNCHANGED <<deadLetters, registry, workerVars, apiVars>>,
         \A j \in Jobs : \/ jobs'[j] = jobs[j]
                         \/ /\ \A w \in Workers : ~Executing(w, j)
                            /\ Status(j) # "DEAD_LETTER"
  PROVE  LockInv'
<1>1. LockProtects'
  BY DEF LockInv, LockProtects, Executing, Status, workerVars
<1>2. LiveAreAlive'
  BY DEF LockInv, LiveAreAlive, workerVars
<1>3. LettersFit'
  BY DEF LockInv, LettersFit, Status
<1>4. SelectedIsThere'
  BY DEF LockInv, SelectedIsThere, apiVars
<1> QED BY <1>1, <1>2, <1>3, <1>4 DEF LockInv

\* A step of the registry keeps LockInv if it leaves live workers ALIVE.
LEMMA RegistryOnly ==
  ASSUME LockInv, UNCHANGED <<jobs, deadLetters, apiVars>>,
         \A w \in Workers : /\ \A j \in Jobs : Executing(w, j)' => Executing(w, j)
                            /\ pc'[w] \notin Gone => registry'[w] = "ALIVE"
  PROVE  LockInv'
BY DEF LockInv, LockProtects, LiveAreAlive, LettersFit, SelectedIsThere, Status,
       apiVars

\* A sweep takes a job back only from a worker that is not executing it.
LEMMA StaleIsUnattended ==
  ASSUME LockInv, NEW j \in StaleJobs, NEW w \in Workers
  PROVE  ~Executing(w, j)
BY DEF StaleJobs, LockInv, LockProtects, LiveAreAlive, Executing, Gone

-----------------------------------------------------------------------------
(* The steps of a worker.                                                  *)

\* The lock and the report of the outcome.
LEMMA WorkerRowsInv ==
  ASSUME TypeOK, LockInv, LeavesApi, NEW w \in Workers,
         LockJob(w) \/ ReportSuccess(w) \/ ReportRetry(w) \/ ReportDead(w)
  PROVE  LockInv'
<1> USE DEF TypeOK
<1>0. PICK k \in Jobs : k = held[w]
  BY DEF LockJob, ReportSuccess, ReportRetry, ReportDead, Go, WorkerTypeOK, Holding
<1>1. /\ \A j \in Jobs : j # k => jobs'[j] = jobs[j]
      /\ \A v \in Workers : v # w => pc'[v] = pc[v]
      /\ held' = held /\ registry' = registry /\ UNCHANGED apiVars
  BY <1>0 DEF LockJob, ReportSuccess, ReportRetry, ReportDead, Go, FetchAndLock,
     MarkSuccess, MarkRetrying, MoveToDeadLetter, StoreTypeOK, WorkerTypeOK,
     LeavesApi
<1>2. LiveAreAlive'
  <2>1. pc[w] \notin Gone
    BY DEF LockJob, ReportSuccess, ReportRetry, ReportDead, Go, Gone
  <2> QED BY <1>1, <2>1 DEF LockInv, LiveAreAlive
<1>3. CASE LockJob(w)
  <2>1. /\ Status(k)' = "RUNNING" /\ jobs'[k].lockedBy = w /\ ~jobs'[k].lockStale
        /\ Status(k) \in {"PENDING", "RETRYING"} /\ deadLetters' = deadLetters
    BY <1>0, <1>3 DEF LockJob, FetchAndLock, Lockable, LockedRow, Status,
       StoreTypeOK, Row
  <2>2. \A v \in Workers : ~Executing(v, k)
    BY <2>1 DEF LockInv, LockProtects
  <2>3. LockProtects'
    BY <1>0, <1>1, <2>1, <2>2 DEF LockInv, LockProtects, Executing, Status
  <2>4. LettersFit' /\ SelectedIsThere'
    BY <1>1, <2>1 DEF LockInv, LettersFit, SelectedIsThere, Status, apiVars
  <2> QED BY <1>2, <2>3, <2>4 DEF LockInv
<1>4. CASE ReportSuccess(w) \/ ReportRetry(w) \/ ReportDead(w)
  <2>1. Executing(w, k) /\ pc'[w] \notin {"running", "failed"}
    BY <1>0, <1>4 DEF ReportSuccess, ReportRetry, ReportDead, Go, Executing,
       WorkerTypeOK
  <2>2. Status(k) = "RUNNING" /\ \A v \in Workers : v # w => ~Executing(v, k)
    BY <2>1 DEF LockInv, LockProtects
  <2>3. LockProtects'
    BY <1>1, <2>1, <2>2 DEF LockInv, LockProtects, Executing, Status
  <2>4. \A n \in Nat : <<k, n>> \notin deadLetters
    BY <2>2 DEF LockInv, LettersFit
  <2>5. CASE ReportSuccess(w) \/ ReportRetry(w)
    <3>1. deadLetters' = deadLetters
      BY <2>5 DEF ReportSuccess, ReportRetry, MarkSuccess, MarkRetrying
    <3>2. LettersFit' /\ SelectedIsThere'
      BY <1>1, <2>4, <3>1 DEF LockInv, LettersFit, SelectedIsThere, Status, apiVars
    <3> QED BY <1>2, <2>3, <3>2 DEF LockInv
  <2>6. CASE ReportDead(w)
    <3>1. PICK i \in Nat : i = letters[k] + 1
      BY DEF StoreTypeOK
    <3>2. deadLetters' = deadLetters \cup {<<k, i>>} /\ Status(k)' = "DEAD_LETTER"
      BY <1>0, <2>6, <3>1 DEF ReportDead, MoveToDeadLetter, Unlocked, Status,
         StoreTypeOK, Row
    <3>3. LettersFit'
      BY <1>1, <2>4, <3>2 DEF LockInv, LettersFit, Status
    <3>4. SelectedIsThere'
      BY <1>1, <3>2 DEF LockInv, SelectedIsThere, apiVars
    <3> QED BY <1>2, <2>3, <3>3, <3>4 DEF LockInv
  <2> QED BY <1>4, <2>5, <2>6
<1> QED BY <1>3, <1>4

\* The insertion of a fresh row, by a worker or by a submit request.
LEMMA FreshRow ==
  ASSUME TypeOK, LockInv, NEW j \in Jobs, NEW row \in Row, NEW i \in Jobs \cup {NoJob},
         InsertJob(j, row, i)
  PROVE  /\ \A w \in Workers : ~Executing(w, j)
         /\ Status(j) # "DEAD_LETTER"
         /\ \A k \in Jobs : k # j => jobs'[k] = jobs[k]
         /\ UNCHANGED <<deadLetters, registry>>
BY DEF TypeOK, InsertJob, Fresh, LockInv, LockProtects, StoreTypeOK

\* Every step of a worker, without the faults of PostgreSQL.
LEMMA WorkerInv ==
  ASSUME TypeOK, LockInv, "db" \notin Faults, WorkerNext, LeavesApi
  PROVE  LockInv'
<1> USE DEF TypeOK
<1> PICK w \in Workers : WorkerStep(w) \/ Heartbeat(w) \/ WorkerFault(w)
  BY DEF WorkerNext
<1>0. /\ pc \in [Workers -> Locations] /\ held \in [Workers -> Jobs \cup {NoJob}]
      /\ registry \in [Workers -> {"ABSENT", "ALIVE", "LATE", "DEAD"}]
      /\ UNCHANGED apiVars
  BY DEF WorkerTypeOK, StoreTypeOK, LeavesApi
<1>1. CASE StartWorker(w) \/ Heartbeat(w)
  <2>1. UNCHANGED <<jobs, deadLetters>> /\ UpsertHeartbeat(w)
    BY <1>1 DEF StartWorker, Heartbeat, UpsertHeartbeat
  <2>2. registry'[w] = "ALIVE" /\ \A v \in Workers : v # w => registry'[v] = registry[v]
    BY <1>0, <2>1 DEF UpsertHeartbeat
  <2>3. ASSUME NEW v \in Workers
        PROVE  /\ \A j \in Jobs : Executing(v, j)' => Executing(v, j)
               /\ v # w /\ pc'[v] \notin Gone => pc[v] \notin Gone
    BY <1>0, <1>1 DEF StartWorker, Heartbeat, Go, workerVars, Executing
  <2> QED BY <1>0, <2>1, <2>2, <2>3, RegistryOnly DEF LockInv, LiveAreAlive
<1>2. CASE StopWorker(w)
  <2>1. UNCHANGED <<jobs, deadLetters>> /\ MarkWorkerDead(w)
    BY <1>2 DEF StopWorker, MarkWorkerDead
  <2>2. \A v \in Workers : v # w => registry'[v] = registry[v]
    BY <1>0, <2>1 DEF MarkWorkerDead
  <2>3. ASSUME NEW v \in Workers
        PROVE  /\ \A j \in Jobs : Executing(v, j)' => Executing(v, j)
               /\ v # w /\ pc'[v] \notin Gone => pc[v] \notin Gone
    BY <1>0, <1>2 DEF StopWorker, Go, Executing
  <2>4. pc'[w] \in Gone
    BY <1>0, <1>2 DEF StopWorker, Go, Gone
  <2> QED BY <1>0, <2>1, <2>2, <2>3, <2>4, RegistryOnly DEF LockInv, LiveAreAlive
<1>3. CASE Reserve(w) \/ StoreReserved(w) \/ StoreReservedFails(w) \/ SkipJob(w)
             \/ HandlerFails(w) \/ NoRetryDate(w) \/ ScheduleNext(w) \/ AbandonNext(w)
             \/ NoMoreOccurrences(w) \/ AckJob(w) \/ AckFails(w) \/ CrashWorker(w)
  <2> USE DEF Reserve, ReserveJob, PopJob, StoreReserved, StoreReservedFails,
        SkipJob, HandlerFails, NoRetryDate, ScheduleNext, AbandonNext, NoMoreOccurrences,
        AckJob, AckFails, CrashWorker, LetGo, Go
  <2>1. UNCHANGED storeVars
    BY <1>3
  <2>2. /\ \A v \in Workers : v # w => pc'[v] = pc[v] /\ held'[v] = held[v]
        /\ pc[w] \notin Gone
    BY <1>0, <1>3 DEF Gone
  <2>3. \A j \in Jobs : Executing(w, j)' => Executing(w, j)
    BY <1>0, <1>3 DEF Executing, Gone
  <2> QED BY <1>0, <2>1, <2>2, <2>3, NoNewExecutor DEF Executing
<1>4. ASSUME NEW k \in Jobs, CreateNext(w, k) PROVE LockInv'
  <2>1. held[w] \in Jobs /\ pc[w] = "recurring" /\ pc' = [pc EXCEPT ![w] = "rescheduling"]
    BY <1>4 DEF CreateNext, Go, WorkerTypeOK, Holding
  <2>2. /\ jobs[held[w]].priority \in Int
        /\ jobs[held[w]].recurring \in BOOLEAN
        /\ jobs[held[w]].retriable \in BOOLEAN
    BY <2>1 DEF StoreTypeOK, Row
  <2>3. NewRow(jobs[held[w]].priority, "future", jobs[held[w]].recurring,
               jobs[held[w]].retriable) \in Row
    BY <2>2, NewRowType
  <2>4. /\ \A v \in Workers : ~Executing(v, k)
        /\ Status(k) # "DEAD_LETTER"
        /\ \A j \in Jobs : j # k => jobs'[j] = jobs[j]
        /\ UNCHANGED <<deadLetters, registry>>
    BY <1>4, <2>1, <2>3, FreshRow DEF CreateNext, InsertNextOccurrence
  <2>5. /\ held' = held
        /\ \A v \in Workers : v # w => pc'[v] = pc[v]
        /\ pc'[w] = "rescheduling"
    BY <1>0, <1>4, <2>1 DEF CreateNext
  <2>6. LockProtects'
    BY <2>4, <2>5 DEF LockInv, LockProtects, Executing, Status
  <2>7. LiveAreAlive'
    BY <2>1, <2>4, <2>5 DEF LockInv, LiveAreAlive, Gone
  <2>8. LettersFit'
    BY <2>4 DEF LockInv, LettersFit, Status
  <2>9. SelectedIsThere'
    BY <1>0, <2>4 DEF LockInv, SelectedIsThere, apiVars
  <2> QED BY <2>6, <2>7, <2>8, <2>9 DEF LockInv
<1>5. CASE LockJob(w) \/ ReportSuccess(w) \/ ReportRetry(w) \/ ReportDead(w)
  BY <1>5, WorkerRowsInv
<1>6. ~(LockFails(w) \/ ReportSuccessFails(w) \/ ReportFailureFails(w))
  BY DEF LockFails, ReportSuccessFails, ReportFailureFails
<1> QED
  BY <1>1, <1>2, <1>3, <1>4, <1>5, <1>6 DEF WorkerStep, Report, Recur, WorkerFault

-----------------------------------------------------------------------------
(* The steps of the scheduler and the reaper, the API and the clocks.      *)

\* What the two sweepers do to the tables.
SweeperStatement == \/ ReclaimDueRetries \/ ReclaimStaleJobs
                    \/ MarkExpiredWorkersDead \/ UNCHANGED storeVars

\* The scheduler and the reaper issue no other statement.
LEMMA SweepersSweep ==
  ASSUME SchedulerNext \/ ReaperNext
  PROVE  SweeperStatement
BY DEF SweeperStatement, SchedulerNext, SchedulerStep, StartScheduler,
   PromoteDelayed, TakeRetries, ExpireWorkers, TakeStale, SyncJob, PushRetry,
   PushStale, SkipReaper, SchedulerFails, CrashScheduler, ReaperNext, ReaperStep,
   StartReaper, ReaperExpires, ReaperReclaims, RequeueRemoves, RequeuePushes,
   ReaperTakesRetries, ReaperPushesRetry, ReaperPushFails, ReaperQueryFails,
   CrashReaper

\* A sweep meets no lock under which a job is executed.
LEMMA SweeperInv ==
  ASSUME TypeOK, LockInv, SweeperStatement, LeavesWorkers, LeavesApi
  PROVE  LockInv'
<1> USE DEF TypeOK
<1>1. CASE ReclaimDueRetries
  <2>1. ASSUME NEW j \in Jobs, jobs'[j] # jobs[j]
        PROVE  Status(j) = "RETRYING"
    BY <1>1, <2>1 DEF ReclaimDueRetries, DueRetries
  <2>2. \A j \in Jobs, w \in Workers : Status(j) = "RETRYING" => ~Executing(w, j)
    BY DEF LockInv, LockProtects
  <2> QED BY <1>1, <2>1, <2>2, UnlockedRowsOnly
          DEF ReclaimDueRetries, LeavesWorkers, LeavesApi
<1>2. CASE ReclaimStaleJobs
  <2>1. ASSUME NEW j \in Jobs, jobs'[j] # jobs[j]
        PROVE  j \in StaleJobs /\ Status(j) = "RUNNING"
    BY <1>2, <2>1 DEF ReclaimStaleJobs, StaleJobs
  <2> QED BY <1>2, <2>1, StaleIsUnattended, UnlockedRowsOnly
          DEF ReclaimStaleJobs, LeavesWorkers, LeavesApi
<1>3. CASE MarkExpiredWorkersDead
  <2>1. \A w \in Workers : registry[w] = "ALIVE" => registry'[w] = "ALIVE"
    BY <1>3 DEF MarkExpiredWorkersDead
  <2>2. \A w \in Workers : /\ \A j \in Jobs : Executing(w, j)' => Executing(w, j)
                           /\ pc'[w] \notin Gone => registry'[w] = "ALIVE"
    BY <2>1 DEF LeavesWorkers, workerVars, Executing, LockInv, LiveAreAlive
  <2> QED BY <1>3, <2>2, RegistryOnly DEF MarkExpiredWorkersDead, LeavesApi
<1>4. CASE UNCHANGED storeVars
  BY <1>4, UnlockedRowsOnly DEF storeVars, LeavesWorkers, LeavesApi
<1> QED BY <1>1, <1>2, <1>3, <1>4 DEF SweeperStatement

\* The replay finds the job in DEAD_LETTER, and takes its only dead letter.
LEMMA ReplayInv ==
  ASSUME TypeOK, LockInv, \A q, s \in Replayers : q = s, LeavesWorkers,
         NEW r \in Requests, CommitReplay(r)
  PROVE  LockInv' /\ Status(target[r]) = "DEAD_LETTER" /\ r \in Replayers
<1> USE DEF TypeOK
<1>1. /\ r \in Replayers /\ target[r] \in Jobs /\ letter[r] \in Nat
      /\ apc[r] = "selected" /\ apc' = [apc EXCEPT ![r] = "committed"]
      /\ UNCHANGED <<target, letter>> /\ ReplayRow(target[r], letter[r])
  BY DEF CommitReplay, Move, ApiTypeOK
<1> DEFINE k == target[r]
<1>2. <<k, letter[r]>> \in deadLetters /\ Status(k) = "DEAD_LETTER"
  BY <1>1 DEF LockInv, SelectedIsThere, LettersFit
<1>3. /\ \A j \in Jobs : j # k => jobs'[j] = jobs[j]
      /\ deadLetters' = deadLetters \ {<<k, letter[r]>>}
      /\ registry' = registry
  BY <1>1 DEF ReplayRow, StoreTypeOK
<1>4. \A w \in Workers : ~Executing(w, k)
  BY <1>1, <1>2 DEF LockInv, LockProtects
<1>5. LockProtects'
  BY <1>3, <1>4 DEF LockInv, LockProtects, LeavesWorkers, workerVars, Executing,
     Status
<1>6. LiveAreAlive'
  BY <1>3 DEF LockInv, LiveAreAlive, LeavesWorkers, workerVars
<1>7. LettersFit'
  BY <1>1, <1>2, <1>3 DEF LockInv, LettersFit, Status
<1>8. SelectedIsThere'
  <2>1. ASSUME NEW q \in Requests PROVE apc'[q] # "selected"
    BY <1>1, <2>1 DEF ApiTypeOK
  <2> QED BY <2>1 DEF SelectedIsThere
<1> QED BY <1>1, <1>2, <1>5, <1>6, <1>7, <1>8 DEF LockInv

\* Every step of a request.
LEMMA ApiInv ==
  ASSUME TypeOK, LockInv, \A q, s \in Replayers : q = s, ApiNext, LeavesWorkers
  PROVE  LockInv'
<1> USE DEF TypeOK
<1> PICK r \in Requests : FirstStep(r) \/ LaterStep(r) \/ AbortRequest(r)
  BY DEF ApiNext
<1>1. ASSUME SelectedIsThere', UNCHANGED <<deadLetters, registry>>,
             \A j \in Jobs : \/ jobs'[j] = jobs[j]
                             \/ /\ \A w \in Workers : ~Executing(w, j)
                                /\ Status(j) # "DEAD_LETTER"
      PROVE  LockInv'
  <2>1. LockProtects'
    BY <1>1 DEF LockInv, LockProtects, Executing, Status, LeavesWorkers, workerVars
  <2>2. LiveAreAlive'
    BY <1>1 DEF LockInv, LiveAreAlive, LeavesWorkers, workerVars
  <2>3. LettersFit'
    BY <1>1 DEF LockInv, LettersFit, Status
  <2> QED BY <1>1, <2>1, <2>2, <2>3 DEF LockInv
<1>2. ASSUME apc'[r] # "selected", deadLetters' = deadLetters,
             \A q \in Requests : q # r => /\ apc'[q] = apc[q]
                                          /\ target'[q] = target[q]
                                          /\ letter'[q] = letter[q]
      PROVE  SelectedIsThere'
  BY <1>2 DEF LockInv, SelectedIsThere
<1>3. ASSUME NEW j \in Jobs, CreateJob(r, j) PROVE LockInv'
  <2>1. PICK p \in Priorities, s \in Starts, c \in Rules, d \in Retriable :
               InsertJob(j, NewRow(p, s, c, d), NoJob)
    BY <1>3 DEF CreateJob
  <2>2. NewRow(p, s, c, d) \in Row
    BY StoreAssumption, NewRowType
  <2>3. SelectedIsThere'
    BY <1>2, <1>3, <2>1 DEF CreateJob, Move, InsertJob, ApiTypeOK
  <2> QED BY <1>1, <2>1, <2>2, <2>3, FreshRow
<1>4. ASSUME NEW j \in Jobs, CancelJob(r, j) PROVE LockInv'
  <2>1. /\ UNCHANGED <<deadLetters, registry>>
        /\ \A k \in Jobs : jobs'[k] = jobs[k] \/ Status(k) = "PENDING"
    BY <1>4 DEF CancelJob, CancelRow, StoreTypeOK
  <2>2. \A k \in Jobs, w \in Workers : Status(k) = "PENDING" => ~Executing(w, k)
    BY DEF LockInv, LockProtects
  <2>3. SelectedIsThere'
    BY <1>2, <1>4, <2>1 DEF CancelJob, Move, ApiTypeOK
  <2> QED BY <1>1, <2>1, <2>2, <2>3
<1>5. ASSUME NEW j \in Jobs, NEW n \in 1..letters[j], SelectLetter(r, j, n)
      PROVE  LockInv'
  <2>1. SelectedIsThere'
    BY <1>5 DEF SelectLetter, Move, LockInv, SelectedIsThere, ApiTypeOK, storeVars
  <2> QED BY <1>1, <1>5, <2>1 DEF SelectLetter, storeVars
<1>6. CASE SubmitJob(r) \/ PurgeQueue(r) \/ PurgeSchedule(r) \/ EnqueueReplayed(r)
             \/ AbortRequest(r)
  <2>1. UNCHANGED storeVars
    BY <1>6 DEF SubmitJob, PurgeQueue, PurgeSchedule, EnqueueReplayed, AbortRequest
  <2>2. SelectedIsThere'
    BY <1>2, <1>6, <2>1 DEF SubmitJob, PurgeQueue, PurgeSchedule,
       EnqueueReplayed, AbortRequest, Move, ApiTypeOK, storeVars
  <2> QED BY <1>1, <2>1, <2>2 DEF storeVars
<1>7. CASE CommitReplay(r)
  BY <1>7, ReplayInv
<1> QED BY <1>3, <1>4, <1>5, <1>6, <1>7 DEF FirstStep, LaterStep

\* No timeout expires under a live worker.
LEMMA TimeInv ==
  ASSUME TypeOK, LockInv, ~Overrun, "db" \notin Faults, Time
  PROVE  LockInv'
<1> USE DEF TypeOK
<1>0. UNCHANGED workerVars /\ UNCHANGED apiVars
  BY DEF Time, RetryDue, StartDue, LockOverdue, HeartbeatOverdue, LockGoesStale,
     HeartbeatGoesLate, LeavesWorkers, LeavesApi
<1>1. ASSUME NEW j \in Jobs, RetryBecomesDue(j) PROVE LockInv'
  <2>1. \A w \in Workers : ~Executing(w, j)
    BY <1>1 DEF RetryBecomesDue, LockInv, LockProtects
  <2> QED BY <1>0, <1>1, <2>1, UnlockedRowsOnly
          DEF RetryBecomesDue, StoreTypeOK
<1>2. ASSUME NEW j \in Jobs, StartBecomesDue(j) PROVE LockInv'
  <2>1. /\ UNCHANGED <<deadLetters, registry>>
        /\ \A k \in Jobs : /\ Status(k)' = Status(k)
                            /\ jobs'[k].lockedBy = jobs[k].lockedBy
                            /\ jobs'[k].lockStale = jobs[k].lockStale
    BY <1>2 DEF StartBecomesDue, Status, StoreTypeOK, Row
  <2>2. LockProtects'
    BY <1>0, <2>1 DEF LockInv, LockProtects, Executing, workerVars
  <2>3. LiveAreAlive' /\ LettersFit' /\ SelectedIsThere'
    BY <1>0, <2>1 DEF LockInv, LiveAreAlive, LettersFit, SelectedIsThere,
       workerVars, apiVars
  <2> QED BY <2>2, <2>3 DEF LockInv
<1>3. ASSUME NEW j \in Jobs, LockGoesStale(j) PROVE LockInv'
  <2>1. \A w \in Workers : ~Executing(w, j)
    BY <1>3 DEF LockGoesStale
  <2> QED BY <1>0, <1>3, <2>1, UnlockedRowsOnly
          DEF LockGoesStale, LockTurnsStale, StoreTypeOK
<1>4. ASSUME NEW w \in Workers, HeartbeatGoesLate(w) PROVE LockInv'
  <2>1. pc[w] \in Gone /\ HeartbeatTurnsLate(w)
    BY <1>4 DEF HeartbeatGoesLate
  <2>2. \A v \in Workers : v # w => registry'[v] = registry[v]
    BY <2>1 DEF HeartbeatTurnsLate, StoreTypeOK
  <2>3. \A v \in Workers : /\ \A j \in Jobs : Executing(v, j)' => Executing(v, j)
                           /\ pc'[v] \notin Gone => registry'[v] = "ALIVE"
    BY <1>0, <2>1, <2>2 DEF workerVars, Executing, LockInv, LiveAreAlive
  <2> QED BY <1>0, <2>1, <2>3, RegistryOnly DEF HeartbeatTurnsLate
<1> QED BY <1>1, <1>2, <1>3, <1>4 DEF Time, RetryDue, StartDue, LockOverdue,
        HeartbeatOverdue

-----------------------------------------------------------------------------
\* The initial state satisfies the invariant and every step keeps it.
LEMMA LockInvariant ==
  ASSUME ~Overrun, "db" \notin Faults, \A q, s \in Replayers : q = s
  PROVE  Spec => [](TypeOK /\ LockInv)
<1>1. Init => TypeOK /\ LockInv
  <2> SUFFICES ASSUME Init PROVE LockInv
    BY InitTypes
  <2>1. /\ \A w \in Workers : pc[w] = "off"
        /\ deadLetters = {}
        /\ \A r \in Requests : apc[r] = "new"
    BY DEF Init, WorkerInit, StoreInit, ApiInit
  <2> QED BY <2>1 DEF LockInv, LockProtects, LiveAreAlive, LettersFit,
                      SelectedIsThere, Executing, Gone
<1>2. TypeOK /\ LockInv /\ [Next]_vars => TypeOK' /\ LockInv'
  <2> SUFFICES ASSUME TypeOK, LockInv, [Next]_vars
               PROVE  LockInv'
    BY NextTypes
  <2>1. CASE WorkerNext /\ LeavesApi
    BY <2>1, WorkerInv
  <2>2. CASE (SchedulerNext \/ ReaperNext) /\ LeavesWorkers /\ LeavesApi
    BY <2>2, SweepersSweep, SweeperInv
  <2>3. CASE ApiNext /\ LeavesWorkers
    BY <2>3, ApiInv
  <2>4. CASE Time
    BY <2>4, TimeInv
  <2>5. CASE UNCHANGED vars
    BY <2>5, UnlockedRowsOnly DEF vars, storeVars
  <2> QED BY <2>1, <2>2, <2>3, <2>4, <2>5 DEF Next
<1> QED BY <1>1, <1>2, PTL DEF Spec

\* While no timeout expires under a live worker, PostgreSQL answers and there
\* is one replay at most, no two workers are between the lock and the report
\* of a job, whatever the number of jobs, workers, crashes and reclaims.
THEOREM SoleExecutor ==
  ASSUME ~Overrun, "db" \notin Faults, \A q, s \in Replayers : q = s
  PROVE  Spec => []SoleExecution
<1>1. LockInv => SoleExecution
  BY DEF LockInv, LockProtects, SoleExecution
<1> QED BY <1>1, LockInvariant, PTL

\* Once a job has an outcome, that changes with the replay of a dead letter only.
OnlyReplayed(j) ==
  Status(j) \in Terminal /\ jobs'[j].status # Status(j) =>
    /\ Status(j) = "DEAD_LETTER"
    /\ \E r \in Replayers : CommitReplay(r) /\ target[r] = j

LEMMA OutcomeStays ==
  ASSUME ~Overrun, "db" \notin Faults, \A q, s \in Replayers : q = s,
         TypeOK, LockInv, [Next]_vars, NEW j \in Jobs
  PROVE  OnlyReplayed(j)
<1> USE DEF OnlyReplayed, TypeOK
<1>0. jobs \in [Jobs -> Row]
  BY DEF StoreTypeOK
<1> SUFFICES ASSUME jobs'[j].status # Status(j),
                    ~\E r \in Replayers : CommitReplay(r) /\ target[r] = j
             PROVE  Status(j) \notin Terminal
  <2>1. ASSUME NEW r \in Replayers, CommitReplay(r), target[r] = j
        PROVE  Status(j) = "DEAD_LETTER"
    <3>1. r \in Requests
      BY DEF Requests
    <3>2. apc[r] = "selected" /\ target[r] = j
      BY <2>1 DEF CommitReplay, Move
    <3>3. letter[r] \in Nat /\ <<j, letter[r]>> \in deadLetters
      BY <3>1, <3>2 DEF ApiTypeOK, LockInv, SelectedIsThere
    <3> QED BY <3>3 DEF LockInv, LettersFit
  <2> QED BY <2>1
<1>1. CASE WorkerNext
  <2> PICK w \in Workers : WorkerStep(w) \/ Heartbeat(w) \/ WorkerFault(w)
    BY <1>1 DEF WorkerNext
  <2>1. CASE LockJob(w)
    BY <1>0, <2>1 DEF LockJob, FetchAndLock, Lockable, Status, Terminal
  <2>2. CASE ReportSuccess(w) \/ ReportRetry(w) \/ ReportDead(w)
    <3>1. PICK k \in Jobs : k = held[w] /\ Executing(w, k)
      BY <2>2 DEF ReportSuccess, ReportRetry, ReportDead, Go,
         WorkerTypeOK, Holding, Executing
    <3>2. j = k
      BY <1>0, <2>2, <3>1 DEF ReportSuccess, ReportRetry, ReportDead,
         MarkSuccess, MarkRetrying, MoveToDeadLetter, Status
    <3> QED BY <3>1, <3>2 DEF LockInv, LockProtects, Terminal
  <2>3. ASSUME NEW k \in Jobs, CreateNext(w, k) PROVE Status(j) \notin Terminal
    BY <1>0, <2>3 DEF CreateNext, InsertNextOccurrence, InsertJob, Fresh,
       Status, Terminal
  <2>4. jobs' = jobs \/ LockJob(w) \/ ReportSuccess(w) \/ ReportRetry(w)
          \/ ReportDead(w) \/ \E k \in Jobs : CreateNext(w, k)
    BY DEF WorkerStep, Heartbeat, WorkerFault, StartWorker, Reserve,
       ReserveJob, PopJob, StoreReserved, StoreReservedFails, LockFails,
       SkipJob, Report, HandlerFails, ReportSuccessFails, NoRetryDate, ReportFailureFails,
       Recur, ScheduleNext, AbandonNext, NoMoreOccurrences, AckJob, AckFails,
       StopWorker, CrashWorker, UpsertHeartbeat, MarkWorkerDead, storeVars
  <2> QED BY <2>1, <2>2, <2>3, <2>4 DEF Status
<1>2. CASE SchedulerNext \/ ReaperNext
  BY <1>0, <1>2, SweepersSweep DEF SweeperStatement, ReclaimDueRetries,
     DueRetries, ReclaimStaleJobs, StaleJobs, MarkExpiredWorkersDead,
     storeVars, Status, Terminal
<1>3. CASE ApiNext
  <2> PICK r \in Requests : FirstStep(r) \/ LaterStep(r) \/ AbortRequest(r)
    BY <1>3 DEF ApiNext
  <2>1. ASSUME NEW k \in Jobs, CreateJob(r, k) PROVE Status(j) \notin Terminal
    BY <1>0, <2>1 DEF CreateJob, InsertJob, Fresh, Status, Terminal
  <2>2. ASSUME NEW k \in Jobs, CancelJob(r, k) PROVE Status(j) \notin Terminal
    BY <1>0, <2>2 DEF CancelJob, CancelRow, Status, Terminal
  <2>3. ~CommitReplay(r)
    <3>1. ASSUME CommitReplay(r) PROVE FALSE
      <4>1. r \in Replayers /\ target[r] \in Jobs
        BY <3>1 DEF CommitReplay, Move, ApiTypeOK
      <4>2. j = target[r]
        BY <1>0, <3>1, <4>1 DEF CommitReplay, ReplayRow, Status
      <4> QED BY <3>1, <4>1, <4>2
    <3> QED BY <3>1
  <2>4. jobs' = jobs \/ CommitReplay(r)
          \/ \E k \in Jobs : CreateJob(r, k) \/ CancelJob(r, k)
    BY DEF FirstStep, LaterStep, SelectLetter, SubmitJob, PurgeQueue,
       PurgeSchedule, EnqueueReplayed, AbortRequest, storeVars
  <2> QED BY <2>1, <2>2, <2>3, <2>4 DEF Status
<1>4. CASE Time
  BY <1>0, <1>4 DEF Time, RetryDue, StartDue, LockOverdue, HeartbeatOverdue,
     LockGoesStale, HeartbeatGoesLate, RetryBecomesDue, StartBecomesDue,
     LockTurnsStale, HeartbeatTurnsLate, Status, Terminal, Row
<1>5. CASE UNCHANGED vars
  BY <1>5 DEF vars, storeVars, Status
<1> QED BY <1>1, <1>2, <1>3, <1>4, <1>5 DEF Next

\* Under the same assumptions only the replay of a dead letter changes the
\* outcome of a job.
THEOREM OutcomeIsFinal ==
  ASSUME ~Overrun, "db" \notin Faults, \A q, s \in Replayers : q = s
  PROVE  Spec => TerminalIsFinal
<1>1. TypeOK /\ LockInv /\ [Next]_vars =>
        [\A j \in Jobs :
           Status(j) \in Terminal /\ jobs'[j].status # Status(j) =>
             /\ Status(j) = "DEAD_LETTER"
             /\ \E r \in Replayers : CommitReplay(r) /\ target[r] = j]_vars
  BY OutcomeStays DEF OnlyReplayed
<1> QED BY <1>1, LockInvariant, PTL DEF Spec, TerminalIsFinal

-----------------------------------------------------------------------------
(* The statements, whoever issues them.                                    *)

\* What a worker does to the row it holds.
HolderStatement(j) ==
  \/ \E w \in Workers : FetchAndLock(j, w)
  \/ MarkSuccess(j) \/ MarkRetrying(j) \/ MoveToDeadLetter(j)

\* What requests and clocks do to a row, and the insertion of one.
RowStatement(j) ==
  \/ CancelRow(j)
  \/ \E n \in Nat : ReplayRow(j, n)
  \/ \E p \in Int, s \in {"now", "future"}, c, d \in BOOLEAN, k \in Jobs \cup {NoJob} :
       InsertJob(j, NewRow(p, s, c, d), k)
  \/ RetryBecomesDue(j) \/ StartBecomesDue(j) \/ LockTurnsStale(j)

RegistryStatement == UNCHANGED <<jobs, deadLetters, letters, reclaims, parent>>

OtherStatement ==
  RegistryStatement \/ SweeperStatement \/ \E j \in Jobs : RowStatement(j)

AnyStatement ==
  OtherStatement \/ \E w \in Workers : held[w] \in Jobs /\ HolderStatement(held[w])

\* A worker issues statements on the registry, on the row it holds, and one
\* that inserts the next occurrence.
LEMMA WorkerStatements ==
  ASSUME TypeOK, WorkerNext
  PROVE  AnyStatement
<1> USE DEF TypeOK
<1> PICK w \in Workers : WorkerStep(w) \/ Heartbeat(w) \/ WorkerFault(w)
  BY DEF WorkerNext
<1>1. CASE LockJob(w) \/ LockFails(w) \/ ReportSuccess(w) \/ ReportSuccessFails(w)
             \/ ReportRetry(w) \/ ReportDead(w)
  <2>1. PICK k \in Jobs : k = held[w]
    BY <1>1 DEF LockJob, LockFails, ReportSuccess, ReportSuccessFails, ReportRetry,
       ReportDead, Go, WorkerTypeOK, Holding
  <2> QED
    BY <1>1, <2>1 DEF LockJob, LockFails, ReportSuccess, ReportSuccessFails,
       ReportRetry, ReportDead, AnyStatement, HolderStatement, OtherStatement,
       RegistryStatement, storeVars
<1>2. ASSUME NEW k \in Jobs, CreateNext(w, k) PROVE AnyStatement
  <2>1. held[w] \in Jobs
    BY <1>2 DEF CreateNext, Go, WorkerTypeOK, Holding
  <2>2. /\ jobs[held[w]].priority \in Int
        /\ jobs[held[w]].recurring \in BOOLEAN
        /\ jobs[held[w]].retriable \in BOOLEAN
    BY <2>1 DEF StoreTypeOK, Row
  <2> QED
    BY <1>2, <2>1, <2>2 DEF CreateNext, InsertNextOccurrence, AnyStatement,
       OtherStatement, RowStatement
<1>3. CASE StartWorker(w) \/ Heartbeat(w) \/ StopWorker(w)
  BY <1>3 DEF StartWorker, Heartbeat, StopWorker, UpsertHeartbeat, MarkWorkerDead,
     AnyStatement, OtherStatement, RegistryStatement, storeVars
<1>4. CASE Reserve(w) \/ StoreReserved(w) \/ StoreReservedFails(w) \/ SkipJob(w)
             \/ HandlerFails(w) \/ NoRetryDate(w) \/ ReportFailureFails(w)
             \/ ScheduleNext(w) \/ AbandonNext(w) \/ NoMoreOccurrences(w) \/ AckJob(w) \/ AckFails(w)
             \/ CrashWorker(w)
  <2>1. UNCHANGED storeVars
    BY <1>4 DEF Reserve, ReserveJob, PopJob, StoreReserved, StoreReservedFails,
       SkipJob, HandlerFails, NoRetryDate, ReportFailureFails, ScheduleNext, AbandonNext,
       NoMoreOccurrences, AckJob, AckFails, CrashWorker
  <2> QED BY <2>1 DEF AnyStatement, OtherStatement, RegistryStatement, storeVars
<1> QED
  BY <1>1, <1>2, <1>3, <1>4 DEF WorkerStep, Report, Recur, WorkerFault

\* A request issues one statement on the job that it is about.
LEMMA ApiStatements ==
  ASSUME TypeOK, ApiNext
  PROVE  OtherStatement
<1> USE DEF TypeOK
<1> PICK r \in Requests : FirstStep(r) \/ LaterStep(r) \/ AbortRequest(r)
  BY DEF ApiNext
<1>1. ASSUME NEW j \in Jobs, CreateJob(r, j) PROVE OtherStatement
  <2>1. PICK p \in Priorities, s \in Starts, c \in Rules, d \in Retriable :
               InsertJob(j, NewRow(p, s, c, d), NoJob)
    BY <1>1 DEF CreateJob
  <2> QED BY <2>1, StoreAssumption DEF OtherStatement, RowStatement
<1>2. ASSUME NEW j \in Jobs, CancelJob(r, j) PROVE OtherStatement
  BY <1>2 DEF CancelJob, OtherStatement, RowStatement
<1>3. CASE CommitReplay(r)
  <2>1. target[r] \in Jobs /\ letter[r] \in Nat
    BY <1>3 DEF CommitReplay, Move, ApiTypeOK
  <2> QED BY <1>3, <2>1 DEF CommitReplay, OtherStatement, RowStatement
<1>4. \/ UNCHANGED storeVars \/ CommitReplay(r)
      \/ \E j \in Jobs : CreateJob(r, j) \/ CancelJob(r, j)
  BY DEF FirstStep, LaterStep, SelectLetter, SubmitJob, PurgeQueue, PurgeSchedule,
     EnqueueReplayed, AbortRequest
<1> QED BY <1>1, <1>2, <1>3, <1>4 DEF OtherStatement, RegistryStatement, storeVars

\* So does the clock.
LEMMA TimeStatements ==
  ASSUME Time
  PROVE  OtherStatement
BY DEF Time, RetryDue, StartDue, LockOverdue, HeartbeatOverdue, LockGoesStale,
   HeartbeatGoesLate, HeartbeatTurnsLate, OtherStatement, RowStatement,
   RegistryStatement

\* Nobody but a worker touches a row otherwise.
LEMMA OthersStatements ==
  ASSUME TypeOK, [Next]_vars, ~(WorkerNext /\ LeavesServices /\ LeavesApi)
  PROVE  OtherStatement
<1>1. CASE UNCHANGED vars
  BY <1>1 DEF vars, storeVars, OtherStatement, RegistryStatement
<1> QED
  BY <1>1, SweepersSweep, ApiStatements, TimeStatements DEF Next, OtherStatement

\* No step does anything else to the tables.
LEMMA EveryStepIsStatement ==
  ASSUME TypeOK, [Next]_vars
  PROVE  AnyStatement
BY WorkerStatements, OthersStatements DEF AnyStatement

\* The status that the rows of an UPDATE have.
LEMMA NewStatus ==
  ASSUME NEW row \in Row
  PROVE  /\ \A s \in Statuses : Unlocked(row, s).status = s
         /\ Unlocked(row, "SUCCESS").status = "SUCCESS"
         /\ Unlocked(row, "FAILED").status = "FAILED"
         /\ Unlocked(row, "PENDING").status = "PENDING"
         /\ RetryingRow(row).status = "RETRYING"
         /\ ReplayedRow(row).status = "PENDING"
         /\ \A w \in Workers : LockedRow(row, w).status = "RUNNING"
<1>1. \A s : Unlocked(row, s).status = s /\ DOMAIN Unlocked(row, s) = DOMAIN row
  BY DEF Unlocked, Row
<1>2. RetryingRow(row).status = "RETRYING"
  BY DEF RetryingRow, Unlocked, Row
<1>3. ReplayedRow(row).status = "PENDING"
  BY DEF ReplayedRow, Unlocked, Row
<1>4. \A w \in Workers : LockedRow(row, w).status = "RUNNING"
  BY DEF LockedRow, Row
<1> QED BY <1>1, <1>2, <1>3, <1>4

-----------------------------------------------------------------------------
(* Dead letters.                                                           *)

\* A statement that moves no job to DEAD_LETTER and takes no dead letter away
\* keeps DeadLetterKept.
LEMMA LettersLeftAlone ==
  ASSUME TypeOK, DeadLetterKept, UNCHANGED <<deadLetters, letters>>,
         \A j \in Jobs : Status(j)' = "DEAD_LETTER" => Status(j) = "DEAD_LETTER"
  PROVE  DeadLetterKept'
BY DEF DeadLetterKept, Status

\* Every statement keeps DeadLetterKept.
LEMMA StatementsKeepLetters ==
  ASSUME TypeOK, DeadLetterKept, AnyStatement
  PROVE  DeadLetterKept'
<1> USE DEF TypeOK
<1>0. jobs \in [Jobs -> Row] /\ letters \in [Jobs -> Nat]
  BY DEF StoreTypeOK
<1>1. CASE RegistryStatement
  BY <1>1 DEF RegistryStatement, DeadLetterKept, Status
<1>2. CASE SweeperStatement
  BY <1>0, <1>2, LettersLeftAlone DEF SweeperStatement, ReclaimDueRetries,
     ReclaimStaleJobs, MarkExpiredWorkersDead, storeVars, Unlocked, Status, Row
<1>3. ASSUME NEW j \in Jobs, RowStatement(j) \/ HolderStatement(j) PROVE DeadLetterKept'
  <2>1. CASE MoveToDeadLetter(j)
    <3>1. PICK i \in Nat : i = letters[j]
      BY <1>0
    <3>2. /\ letters' = [letters EXCEPT ![j] = i + 1]
          /\ deadLetters' = deadLetters \cup {<<j, i + 1>>}
          /\ \A k \in Jobs \ {j} : jobs'[k] = jobs[k]
      BY <1>0, <2>1, <3>1 DEF MoveToDeadLetter
    <3>3. letters'[j] = i + 1 /\ \A k \in Jobs \ {j} : letters'[k] = letters[k]
      BY <1>0, <3>2
    <3>4. i + 1 \in 1..letters'[j]
      BY <3>3
    <3>5. ASSUME NEW k \in Jobs, Status(k)' = "DEAD_LETTER"
          PROVE  \E n \in 1..letters'[k] : <<k, n>> \in deadLetters'
      <4>1. CASE k = j
        BY <3>2, <3>4, <4>1
      <4>2. CASE k # j
        BY <3>2, <3>3, <3>5, <4>2 DEF DeadLetterKept, Status
      <4> QED BY <4>1, <4>2
    <3> QED BY <3>5 DEF DeadLetterKept
  <2>2. ASSUME NEW n \in Nat, ReplayRow(j, n) PROVE DeadLetterKept'
    <3>1. /\ letters' = letters
          /\ \A k \in Jobs \ {j}, m \in Nat : <<k, m>> \in deadLetters => <<k, m>> \in deadLetters'
          /\ \A k \in Jobs \ {j} : Status(k)' = Status(k)
          /\ Status(j)' = "PENDING"
      BY <1>0, <2>2 DEF ReplayRow, ReplayedRow, Unlocked, Status, Row
    <3> QED BY <1>0, <3>1 DEF DeadLetterKept
  <2>3. ASSUME \/ \E w \in Workers : FetchAndLock(j, w)
               \/ MarkSuccess(j) \/ MarkRetrying(j) \/ CancelRow(j)
        PROVE  DeadLetterKept'
    <3>1. UNCHANGED <<deadLetters, letters>>
      BY <2>3 DEF FetchAndLock, MarkSuccess, MarkRetrying, CancelRow
    <3>2. \A k \in Jobs \ {j} : jobs'[k] = jobs[k]
      BY <1>0, <2>3 DEF FetchAndLock, MarkSuccess, MarkRetrying, CancelRow
    <3>3. /\ Unlocked(jobs[j], "SUCCESS").status = "SUCCESS"
          /\ Unlocked(jobs[j], "FAILED").status = "FAILED"
          /\ RetryingRow(jobs[j]).status = "RETRYING"
          /\ \A w \in Workers : LockedRow(jobs[j], w).status = "RUNNING"
      BY <1>0, NewStatus
    <3>4. jobs'[j].status # "DEAD_LETTER" \/ jobs' = jobs
      BY <1>0, <2>3, <3>3 DEF FetchAndLock, MarkSuccess, MarkRetrying, CancelRow
    <3> QED BY <3>1, <3>2, <3>4, LettersLeftAlone DEF Status
  <2>4. ASSUME NEW p \in Int, NEW s \in {"now", "future"},
               NEW c \in BOOLEAN, NEW d \in BOOLEAN,
               NEW k \in Jobs \cup {NoJob}, InsertJob(j, NewRow(p, s, c, d), k)
        PROVE  DeadLetterKept'
    BY <1>0, <2>4, LettersLeftAlone DEF InsertJob, NewRow, Status
  <2>5. ASSUME RetryBecomesDue(j) \/ StartBecomesDue(j) \/ LockTurnsStale(j)
        PROVE  DeadLetterKept'
    BY <1>0, <2>5, LettersLeftAlone DEF RetryBecomesDue, StartBecomesDue,
       LockTurnsStale, Status, Row
  <2> QED BY <1>3, <2>1, <2>2, <2>3, <2>4, <2>5 DEF RowStatement, HolderStatement
<1> QED BY <1>1, <1>2, <1>3 DEF AnyStatement, OtherStatement

\* A job in DEAD_LETTER always has a dead letter to replay, with every fault,
\* timeout, stale report and any number of replays at once.
THEOREM DeadLettersAreKept == Spec => []DeadLetterKept
<1>1. Init => TypeOK /\ DeadLetterKept
  BY InitTypes DEF Init, StoreInit, DeadLetterKept, Status, AbsentRow, NewRow
<1>2. TypeOK /\ DeadLetterKept /\ [Next]_vars => TypeOK' /\ DeadLetterKept'
  BY NextTypes, EveryStepIsStatement, StatementsKeepLetters
<1> QED BY <1>1, <1>2, PTL DEF Spec

\* While no timeout expires under a live worker, PostgreSQL answers and there
\* is one replay at most, a job has one dead letter in DEAD_LETTER, and none
\* otherwise.
THEOREM DeadLettersAreExact ==
  ASSUME ~Overrun, "db" \notin Faults, \A q, s \in Replayers : q = s
  PROVE  Spec => []DeadLettersExact
<1>1. ASSUME TypeOK, LockInv, DeadLetterKept PROVE DeadLettersExact
  <2> SUFFICES ASSUME NEW j \in Jobs
               PROVE  Cardinality({n \in 1..letters[j] : <<j, n>> \in deadLetters})
                        = IF Status(j) = "DEAD_LETTER" THEN 1 ELSE 0
    BY DEF DeadLettersExact
  <2>0. letters[j] \in Nat /\ 1..letters[j] \subseteq Nat
    BY <1>1 DEF TypeOK, StoreTypeOK
  <2>1. CASE Status(j) = "DEAD_LETTER"
    <3>1. PICK n \in 1..letters[j] : <<j, n>> \in deadLetters
      BY <1>1, <2>1 DEF DeadLetterKept
    <3>2. {m \in 1..letters[j] : <<j, m>> \in deadLetters} = {n}
      BY <1>1, <2>0, <3>1 DEF LockInv, LettersFit
    <3> QED BY <2>1, <3>2, FS_Singleton
  <2>2. CASE Status(j) # "DEAD_LETTER"
    <3>1. {m \in 1..letters[j] : <<j, m>> \in deadLetters} = {}
      BY <1>1, <2>0, <2>2 DEF LockInv, LettersFit
    <3> QED BY <2>2, <3>1, FS_EmptySet
  <2> QED BY <2>1, <2>2
<1> QED BY <1>1, LockInvariant, DeadLettersAreKept, PTL

-----------------------------------------------------------------------------
(* What a statement makes of a row.                                        *)

RowEffect(j) ==
  \/ jobs'[j] = jobs[j]
  \/ \E w \in Workers : jobs'[j] = LockedRow(jobs[j], w)
  \/ \E s \in Statuses \ {"ABSENT"} : jobs'[j] = Unlocked(jobs[j], s)
  \/ jobs'[j] = RetryingRow(jobs[j])
  \/ jobs'[j] = ReplayedRow(jobs[j])
  \/ /\ Status(j) = "ABSENT"
     /\ \E p \in Int, s \in {"now", "future"}, c, d \in BOOLEAN : jobs'[j] = NewRow(p, s, c, d)
  \/ /\ Status(j) # "ABSENT"
     /\ \/ jobs'[j] = [jobs[j] EXCEPT !.start = "due"]
        \/ jobs'[j] = [jobs[j] EXCEPT !.retryDue = TRUE]
        \/ jobs'[j] = [jobs[j] EXCEPT !.lockStale = TRUE]

\* Every statement has one of these effects on every row.
LEMMA EffectOfStatement ==
  ASSUME TypeOK, AnyStatement, NEW j \in Jobs
  PROVE  RowEffect(j)
<1> USE DEF RowEffect
<1>0. jobs \in [Jobs -> Row]
  BY DEF TypeOK, StoreTypeOK
<1>1. CASE RegistryStatement
  BY <1>1 DEF RegistryStatement
<1>2. CASE SweeperStatement
  BY <1>0, <1>2 DEF SweeperStatement, ReclaimDueRetries, ReclaimStaleJobs,
     MarkExpiredWorkersDead, storeVars, Statuses
<1>3. ASSUME NEW k \in Jobs, HolderStatement(k) PROVE RowEffect(j)
  <2>1. CASE k = j
    BY <1>0, <1>3, <2>1 DEF HolderStatement, FetchAndLock, MarkSuccess, MarkRetrying,
       MoveToDeadLetter, Statuses
  <2>2. CASE k # j
    BY <1>0, <1>3, <2>2 DEF HolderStatement, FetchAndLock, MarkSuccess, MarkRetrying,
       MoveToDeadLetter
  <2> QED BY <2>1, <2>2
<1>4. ASSUME NEW k \in Jobs, RowStatement(k) PROVE RowEffect(j)
  <2>1. CASE k = j
    <3>1. ASSUME NEW p \in Int, NEW s \in {"now", "future"}, NEW c \in BOOLEAN,
                 NEW d \in BOOLEAN, NEW i \in Jobs \cup {NoJob},
                 InsertJob(k, NewRow(p, s, c, d), i)
          PROVE  RowEffect(j)
      BY <1>0, <2>1, <3>1 DEF InsertJob, Fresh, Status
    <3>2. CASE CancelRow(k) \/ \E n \in Nat : ReplayRow(k, n)
      BY <1>0, <2>1, <3>2 DEF CancelRow, ReplayRow, Status, Statuses
    <3>3. CASE RetryBecomesDue(k) \/ StartBecomesDue(k) \/ LockTurnsStale(k)
      BY <1>0, <2>1, <3>3 DEF RetryBecomesDue, StartBecomesDue, LockTurnsStale, Status
    <3> QED BY <1>4, <3>1, <3>2, <3>3 DEF RowStatement
  <2>2. CASE k # j
    BY <1>0, <1>4, <2>2 DEF RowStatement, CancelRow, ReplayRow, InsertJob,
       RetryBecomesDue, StartBecomesDue, LockTurnsStale
  <2> QED BY <2>1, <2>2
<1> QED BY <1>1, <1>2, <1>3, <1>4 DEF AnyStatement, OtherStatement

\* No row goes away; a row that waits for its time was new or waited before;
\* a row keeps its rule.
LEMMA RowsLast ==
  ASSUME TypeOK, NEW j \in Jobs, RowEffect(j)
  PROVE  /\ Status(j)' = "ABSENT" => jobs'[j] = jobs[j]
         /\ jobs'[j].start = "future" => Status(j) = "ABSENT" \/ jobs[j].start = "future"
         /\ Status(j) # "ABSENT" => jobs'[j].recurring = jobs[j].recurring
<1>0. jobs[j] \in Row
  BY DEF TypeOK, StoreTypeOK
<1>1. ASSUME NEW w \in Workers, jobs'[j] = LockedRow(jobs[j], w)
      PROVE  /\ jobs'[j].status = "RUNNING" /\ jobs'[j].start = jobs[j].start
             /\ jobs'[j].recurring = jobs[j].recurring
  BY <1>0, <1>1 DEF LockedRow, Row
<1>2. ASSUME NEW s \in Statuses, jobs'[j] = Unlocked(jobs[j], s)
      PROVE  /\ jobs'[j].status = s /\ jobs'[j].start = jobs[j].start
             /\ jobs'[j].recurring = jobs[j].recurring
  BY <1>0, <1>2 DEF Unlocked, Row
<1>3. ASSUME jobs'[j] = RetryingRow(jobs[j]) \/ jobs'[j] = ReplayedRow(jobs[j])
      PROVE  /\ jobs'[j].status \in {"RETRYING", "PENDING"}
             /\ jobs'[j].start = jobs[j].start
             /\ jobs'[j].recurring = jobs[j].recurring
  BY <1>0, <1>3 DEF RetryingRow, ReplayedRow, Unlocked, Row
<1>4. ASSUME NEW p \in Int, NEW s \in {"now", "future"},
             NEW c \in BOOLEAN, NEW d \in BOOLEAN,
             jobs'[j] = NewRow(p, s, c, d)
      PROVE  jobs'[j].status = "PENDING"
  BY <1>4 DEF NewRow
<1>5. ASSUME \/ jobs'[j] = [jobs[j] EXCEPT !.start = "due"]
             \/ jobs'[j] = [jobs[j] EXCEPT !.retryDue = TRUE]
             \/ jobs'[j] = [jobs[j] EXCEPT !.lockStale = TRUE]
      PROVE  /\ jobs'[j].status = jobs[j].status
             /\ jobs'[j].start = "due" \/ jobs'[j].start = jobs[j].start
             /\ jobs'[j].recurring = jobs[j].recurring
  BY <1>0, <1>5 DEF Row
<1> QED BY <1>1, <1>2, <1>3, <1>4, <1>5 DEF RowEffect, Status

-----------------------------------------------------------------------------
(* The chain of a recurring job.                                           *)

\* Only a row in the table follows another one.
OnlyRowsFollow == \A k \in Jobs : Status(k) = "ABSENT" => parent[k] = NoJob

\* A row that follows another one goes on doing so, and no id becomes free
\* again.
LEMMA FollowersStay ==
  ASSUME TypeOK, OnlyRowsFollow, AnyStatement
  PROVE  /\ OnlyRowsFollow'
         /\ \A j, k \in Jobs : parent[k] = j => parent'[k] = j
         /\ Fresh = {} => Fresh' = {}
<1>0. /\ parent \in [Jobs -> Jobs \cup {NoJob}] /\ NoJob \notin Jobs
      /\ jobs \in [Jobs -> Row]
  BY StoreAssumption DEF TypeOK, StoreTypeOK
<1>1. \A j \in Jobs : Status(j)' = "ABSENT" => Status(j) = "ABSENT"
  BY EffectOfStatement, RowsLast DEF Status
<1>2. Fresh = {} => Fresh' = {}
  BY <1>1 DEF Fresh
<1>3. \/ parent' = parent
      \/ \E j \in Jobs, p \in Int, s \in {"now", "future"}, c, d \in BOOLEAN,
           k \in Jobs \cup {NoJob} : InsertJob(j, NewRow(p, s, c, d), k)
  BY DEF AnyStatement, OtherStatement, RegistryStatement, SweeperStatement,
     ReclaimDueRetries, ReclaimStaleJobs, MarkExpiredWorkersDead, storeVars,
     HolderStatement, FetchAndLock, MarkSuccess, MarkRetrying, MoveToDeadLetter,
     RowStatement, CancelRow, ReplayRow, RetryBecomesDue, StartBecomesDue,
     LockTurnsStale
<1>4. CASE parent' = parent
  BY <1>1, <1>2, <1>4 DEF OnlyRowsFollow
<1>5. ASSUME NEW i \in Jobs, NEW p \in Int, NEW s \in {"now", "future"},
             NEW c \in BOOLEAN, NEW d \in BOOLEAN, NEW o \in Jobs \cup {NoJob},
             InsertJob(i, NewRow(p, s, c, d), o)
      PROVE  /\ OnlyRowsFollow'
             /\ \A j, k \in Jobs : parent[k] = j => parent'[k] = j
  <2>1. parent[i] = NoJob /\ \A k \in Jobs \ {i} : parent'[k] = parent[k]
    BY <1>0, <1>5 DEF InsertJob, Fresh, OnlyRowsFollow
  <2>2. Status(i)' = "PENDING"
    BY <1>0, <1>5 DEF InsertJob, NewRow, Status
  <2> QED BY <1>0, <1>1, <2>1, <2>2 DEF OnlyRowsFollow
<1> QED BY <1>2, <1>3, <1>4, <1>5

\* Only a worker makes a job a SUCCESS.
LEMMA OthersDoNotSucceed ==
  ASSUME TypeOK, OtherStatement, NEW j \in Jobs, Status(j)' = "SUCCESS"
  PROVE  Status(j) = "SUCCESS"
<1>0. jobs \in [Jobs -> Row] /\ jobs[j] \in Row
  BY DEF TypeOK, StoreTypeOK
<1>1. /\ Unlocked(jobs[j], "PENDING").status = "PENDING"
      /\ Unlocked(jobs[j], "FAILED").status = "FAILED"
      /\ ReplayedRow(jobs[j]).status = "PENDING"
  BY <1>0, NewStatus
<1>2. CASE RegistryStatement
  BY <1>2 DEF RegistryStatement, Status
<1>3. CASE SweeperStatement
  BY <1>0, <1>1, <1>3 DEF SweeperStatement, ReclaimDueRetries, ReclaimStaleJobs,
     MarkExpiredWorkersDead, storeVars, Status
<1>4. ASSUME NEW k \in Jobs, RowStatement(k) PROVE Status(j) = "SUCCESS"
  <2>1. CASE CancelRow(k) \/ \E n \in Nat : ReplayRow(k, n)
    BY <1>0, <1>1, <2>1 DEF CancelRow, ReplayRow, Status
  <2>2. ASSUME NEW p \in Int, NEW s \in {"now", "future"},
               NEW c \in BOOLEAN, NEW d \in BOOLEAN,
               NEW o \in Jobs \cup {NoJob}, InsertJob(k, NewRow(p, s, c, d), o)
        PROVE  Status(j) = "SUCCESS"
    BY <1>0, <2>2 DEF InsertJob, NewRow, Status
  <2>3. CASE RetryBecomesDue(k) \/ StartBecomesDue(k) \/ LockTurnsStale(k)
    BY <1>0, <2>3 DEF RetryBecomesDue, StartBecomesDue, LockTurnsStale, Status, Row
  <2> QED BY <1>4, <2>1, <2>2, <2>3 DEF RowStatement
<1> QED BY <1>2, <1>3, <1>4 DEF OtherStatement

\* What was lost stays lost.
LEMMA DroppedGrows ==
  ASSUME [Next]_vars
  PROVE  dropped \subseteq dropped'
<1> USE DEF Enqueue, EnqueueOn, MoveToProcessing, BlockingPop, PushProcessing, Ack,
      Schedule, PromoteDue, RemoveFrom, Unschedule, Drop, transportVars
<1>1. CASE WorkerNext
  BY <1>1 DEF WorkerNext, WorkerStep, Heartbeat, WorkerFault, StartWorker, Reserve,
     ReserveJob, PopJob, StoreReserved, StoreReservedFails, LockJob, SkipJob, LockFails,
     Report, HandlerFails, ReportSuccess, ReportSuccessFails, ReportRetry, ReportDead,
     NoRetryDate, ReportFailureFails, Recur, CreateNext, ScheduleNext, AbandonNext,
     NoMoreOccurrences, AckJob, AckFails, StopWorker, CrashWorker
<1>2. CASE SchedulerNext
  BY <1>2 DEF SchedulerNext, SchedulerStep, StartScheduler, PromoteDelayed, TakeRetries,
     ExpireWorkers, TakeStale, SyncJob, PushRetry, PushStale, SkipReaper,
     SchedulerFails, CrashScheduler
<1>3. CASE ReaperNext
  BY <1>3 DEF ReaperNext, ReaperStep, StartReaper, ReaperExpires, ReaperReclaims,
     RequeueRemoves, RequeuePushes, ReaperTakesRetries, ReaperPushesRetry,
     ReaperPushFails, ReaperQueryFails, CrashReaper
<1>4. CASE ApiNext
  BY <1>4 DEF ApiNext, FirstStep, LaterStep, AbortRequest, CreateJob, SubmitJob,
     CancelJob, PurgeQueue, PurgeSchedule, SelectLetter, CommitReplay, EnqueueReplayed
<1>5. CASE Time
  BY <1>5 DEF Time, RetryDue, StartDue, LockOverdue, HeartbeatOverdue, LockGoesStale,
     HeartbeatGoesLate
<1>6. CASE UNCHANGED vars
  BY <1>6 DEF vars
<1> QED BY <1>1, <1>2, <1>3, <1>4, <1>5, <1>6 DEF Next

\* A worker makes only the job it holds a SUCCESS, and if it is recurring goes
\* on to create its next occurrence.
LEMMA SuccessIsFollowedUp ==
  ASSUME TypeOK, "db" \notin Faults, WorkerNext, NEW j \in Jobs,
         Status(j)' = "SUCCESS", Status(j) # "SUCCESS", jobs'[j].recurring
  PROVE  \E w \in Workers : pc'[w] = "recurring" /\ held'[w] = j
<1> USE DEF TypeOK
<1> PICK w \in Workers : WorkerStep(w) \/ Heartbeat(w) \/ WorkerFault(w)
  BY DEF WorkerNext
<1>0. /\ jobs \in [Jobs -> Row] /\ jobs[j] \in Row
      /\ pc \in [Workers -> Locations]
  BY DEF StoreTypeOK, WorkerTypeOK
<1>1. CASE ReportSuccess(w)
  <2>1. held[w] \in Jobs
    BY <1>1 DEF ReportSuccess, Go, WorkerTypeOK, Holding
  <2>2. j = held[w]
    BY <1>0, <1>1, <2>1 DEF ReportSuccess, MarkSuccess, Status
  <2>3. Unlocked(jobs[j], "SUCCESS").recurring = jobs[j].recurring
    BY <1>0 DEF Unlocked, Row
  <2> QED BY <1>0, <1>1, <2>1, <2>2, <2>3 DEF ReportSuccess, MarkSuccess, Go
<1>2. CASE LockJob(w) \/ ReportRetry(w) \/ ReportDead(w)
  <2>1. held[w] \in Jobs
    BY <1>2 DEF LockJob, ReportRetry, ReportDead, Go, WorkerTypeOK, Holding
  <2>2. /\ Unlocked(jobs[j], "DEAD_LETTER").status = "DEAD_LETTER"
        /\ RetryingRow(jobs[j]).status = "RETRYING"
        /\ LockedRow(jobs[j], w).status = "RUNNING"
    BY <1>0, NewStatus DEF Statuses
  <2> QED
    BY <1>0, <1>2, <2>1, <2>2 DEF LockJob, ReportRetry, ReportDead, FetchAndLock,
       MarkRetrying, MoveToDeadLetter, Status
<1>3. ASSUME NEW k \in Jobs, CreateNext(w, k) PROVE FALSE
  BY <1>0, <1>3 DEF CreateNext, InsertNextOccurrence, InsertJob, NewRow, Status
<1>4. jobs' = jobs \/ LockJob(w) \/ ReportSuccess(w) \/ ReportRetry(w) \/ ReportDead(w)
        \/ \E k \in Jobs : CreateNext(w, k)
  BY DEF WorkerStep, Heartbeat, WorkerFault, StartWorker, Reserve, ReserveJob, PopJob,
     StoreReserved, StoreReservedFails, LockFails, SkipJob, Report, HandlerFails,
     ReportSuccessFails, NoRetryDate, ReportFailureFails, Recur, ScheduleNext, AbandonNext,
     NoMoreOccurrences, AckJob, AckFails, StopWorker, CrashWorker, UpsertHeartbeat,
     MarkWorkerDead, storeVars
<1> QED BY <1>1, <1>2, <1>3, <1>4 DEF Status

\* A worker that is to create the next occurrence of j does so, or is lost
\* with it, or finds no id.
LEMMA NextIsCreated ==
  ASSUME TypeOK, "db" \notin Faults, WorkerNext, Fresh = {} => Fresh' = {},
         NEW v \in Workers, NEW j \in Jobs, pc[v] = "recurring", held[v] = j
  PROVE  \/ pc'[v] = "recurring" /\ held'[v] = j
         \/ \E k \in Jobs : parent'[k] = j
         \/ j \in dropped'
         \/ Fresh' = {}
<1> PICK w \in Workers : WorkerStep(w) \/ Heartbeat(w) \/ WorkerFault(w)
  BY DEF WorkerNext
<1>0. /\ pc \in [Workers -> Locations] /\ held \in [Workers -> Jobs \cup {NoJob}]
      /\ parent \in [Jobs -> Jobs \cup {NoJob}]
  BY DEF TypeOK, WorkerTypeOK, StoreTypeOK
<1> USE DEF Go, LetGo, workerVars
<1>1. CASE w # v
  BY <1>0, <1>1 DEF WorkerStep, Heartbeat, WorkerFault, StartWorker, Reserve, ReserveJob,
     PopJob, StoreReserved, StoreReservedFails, LockJob, SkipJob, LockFails, Report,
     HandlerFails, ReportSuccess, ReportSuccessFails, ReportRetry, ReportDead,
     NoRetryDate, ReportFailureFails, Recur, CreateNext, ScheduleNext, AbandonNext,
     NoMoreOccurrences, AckJob, AckFails, StopWorker, CrashWorker
<1>2. ASSUME w = v, NEW k \in Jobs, CreateNext(w, k) PROVE parent'[k] = j
  BY <1>0, <1>2 DEF CreateNext, InsertNextOccurrence, InsertJob
<1>3. ASSUME w = v, CrashWorker(w) PROVE j \in dropped'
  BY <1>3 DEF CrashWorker, Drop, Owed
<1>4. ASSUME w = v
      PROVE  \/ Heartbeat(w) \/ NoMoreOccurrences(w) \/ CrashWorker(w)
             \/ \E k \in Jobs : CreateNext(w, k)
  BY <1>4 DEF WorkerStep, WorkerFault, StartWorker, Reserve, ReserveJob, PopJob,
     StoreReserved, StoreReservedFails, LockJob, SkipJob, LockFails, Report, HandlerFails,
     ReportSuccess, ReportSuccessFails, ReportRetry, ReportDead, NoRetryDate,
     ReportFailureFails, Recur, ScheduleNext, AbandonNext, AckJob, AckFails, StopWorker
<1> QED BY <1>1, <1>2, <1>3, <1>4 DEF Heartbeat, NoMoreOccurrences

\* As long as PostgreSQL answers, a recurring job that succeeded is continued,
\* or the worker that was about to do so was lost: with any number of workers,
\* crashes, expired timeouts and failures of Redis.
THEOREM ChainGoesOn ==
  ASSUME "db" \notin Faults
  PROVE  Spec => []ChainContinues
<1>1. Init => TypeOK /\ OnlyRowsFollow /\ ChainContinues
  <2>1. ASSUME Init PROVE \A j \in Jobs : Status(j) = "ABSENT" /\ parent[j] = NoJob
    BY <2>1, AbsentRowType DEF Init, StoreInit, Status, AbsentRow, NewRow
  <2> QED BY <2>1, InitTypes DEF OnlyRowsFollow, ChainContinues
<1>2. ASSUME TypeOK, OnlyRowsFollow, ChainContinues, [Next]_vars
      PROVE  OnlyRowsFollow' /\ ChainContinues'
  <2>1. AnyStatement /\ dropped \subseteq dropped'
    BY <1>2, EveryStepIsStatement, DroppedGrows
  <2>2. /\ OnlyRowsFollow'
        /\ \A j, k \in Jobs : parent[k] = j => parent'[k] = j
        /\ Fresh = {} => Fresh' = {}
    BY <1>2, <2>1, FollowersStay
  <2>3. ASSUME NEW j \in Jobs, Status(j)' = "SUCCESS", jobs'[j].recurring
        PROVE  \/ \E k \in Jobs : parent'[k] = j
               \/ \E w \in Workers : pc'[w] = "recurring" /\ held'[w] = j
               \/ j \in dropped'
               \/ Fresh' = {}
    <3>1. CASE Status(j) # "SUCCESS"
      BY <1>2, <2>3, <3>1, OthersStatements, OthersDoNotSucceed, SuccessIsFollowedUp
    <3>2. CASE Status(j) = "SUCCESS"
      <4>1. jobs[j].recurring
        BY <1>2, <2>1, <2>3, <3>2, EffectOfStatement, RowsLast
      <4>2. ASSUME NEW w \in Workers, pc[w] = "recurring", held[w] = j
            PROVE  \/ pc'[w] = "recurring" /\ held'[w] = j
                   \/ \E k \in Jobs : parent'[k] = j
                   \/ j \in dropped'
                   \/ Fresh' = {}
        <5>1. WorkerNext \/ UNCHANGED workerVars
          BY <1>2 DEF Next, LeavesWorkers, Time, RetryDue, StartDue, LockOverdue,
             HeartbeatOverdue, LockGoesStale, HeartbeatGoesLate, vars
        <5> QED BY <1>2, <2>2, <4>2, <5>1, NextIsCreated DEF workerVars
      <4> QED BY <1>2, <2>1, <2>2, <3>2, <4>1, <4>2 DEF ChainContinues
    <3> QED BY <3>1, <3>2
  <2> QED BY <2>2, <2>3 DEF ChainContinues
<1> QED BY <1>1, <1>2, NextTypes, PTL DEF Spec

\* One worker at a time is about to continue a job, that has succeeded and has
\* no next occurrence yet; no job that has not succeeded is continued.
Childless(j) == \A k \in Jobs : parent[k] # j

OneContinuation ==
  /\ \A j \in Jobs : Status(j) # "SUCCESS" => Childless(j)
  /\ \A w \in Workers : pc[w] = "recurring" =>
       Status(held[w]) = "SUCCESS" /\ Childless(held[w])
  /\ \A v, w \in Workers :
       pc[v] = "recurring" /\ pc[w] = "recurring" /\ held[v] = held[w] => v = w

\* A step that continues no job and after which no other worker is about to.
LEMMA NoNewContinuation ==
  ASSUME TypeOK, OneContinuation, ChainDoesNotFork,
         \A k \in Jobs : parent'[k] = parent[k] \/ parent'[k] = NoJob,
         \A j \in Jobs : Status(j) = "SUCCESS" => Status(j)' = "SUCCESS",
         \A w \in Workers : pc'[w] = "recurring" => pc[w] = "recurring" /\ held'[w] = held[w]
  PROVE  OneContinuation' /\ ChainDoesNotFork'
<1>0. /\ NoJob \notin Jobs
      /\ \A w \in Workers : pc[w] = "recurring" => held[w] \in Jobs
  BY StoreAssumption DEF TypeOK, WorkerTypeOK, Holding
<1>1. \A j \in Jobs : Childless(j) => Childless(j)'
  BY <1>0 DEF Childless
<1> QED BY <1>0, <1>1 DEF OneContinuation, ChainDoesNotFork, Status

\* Only a worker inserts a row that follows another one.
LEMMA OthersContinueNothing ==
  ASSUME TypeOK, [Next]_vars, ~WorkerNext
  PROVE  /\ UNCHANGED workerVars
         /\ \A k \in Jobs : parent'[k] = parent[k] \/ parent'[k] = NoJob
<1>0. parent \in [Jobs -> Jobs \cup {NoJob}]
  BY DEF TypeOK, StoreTypeOK
<1>1. UNCHANGED workerVars
  BY DEF Next, LeavesWorkers, Time, RetryDue, StartDue, LockOverdue, HeartbeatOverdue,
     LockGoesStale, HeartbeatGoesLate, vars
<1>2. ASSUME SchedulerNext \/ ReaperNext PROVE parent' = parent
  BY <1>2, SweepersSweep DEF SweeperStatement, ReclaimDueRetries, ReclaimStaleJobs,
     MarkExpiredWorkersDead, storeVars
<1>3. ASSUME ApiNext PROVE \A k \in Jobs : parent'[k] = parent[k] \/ parent'[k] = NoJob
  <2>1. ASSUME NEW r \in Requests, NEW j \in Jobs, CreateJob(r, j)
        PROVE  parent' = [parent EXCEPT ![j] = NoJob]
    BY <2>1 DEF CreateJob, InsertJob
  <2>2. \/ parent' = parent
        \/ \E r \in Requests, j \in Jobs : CreateJob(r, j)
    BY <1>3 DEF ApiNext, FirstStep, LaterStep, AbortRequest, CancelJob, CancelRow,
       SelectLetter, SubmitJob, PurgeQueue, PurgeSchedule, CommitReplay, ReplayRow,
       EnqueueReplayed, storeVars
  <2> QED BY <1>0, <2>1, <2>2
<1>4. ASSUME Time \/ UNCHANGED vars PROVE parent' = parent
  BY <1>4 DEF Time, RetryDue, StartDue, LockOverdue, HeartbeatOverdue, RetryBecomesDue,
     StartBecomesDue, LockGoesStale, LockTurnsStale, HeartbeatGoesLate,
     HeartbeatTurnsLate, vars, storeVars
<1> QED BY <1>1, <1>2, <1>3, <1>4 DEF Next

\* What the steps of a worker do to the chain.
LEMMA ContinuationStep ==
  ASSUME TypeOK, LockInv, OnlyRowsFollow, OneContinuation, ChainDoesNotFork,
         "db" \notin Faults, WorkerNext,
         \A j \in Jobs : Status(j) = "SUCCESS" => Status(j)' = "SUCCESS"
  PROVE  OneContinuation' /\ ChainDoesNotFork'
<1> PICK w \in Workers : WorkerStep(w) \/ Heartbeat(w) \/ WorkerFault(w)
  BY DEF WorkerNext
<1>0. /\ pc \in [Workers -> Locations] /\ held \in [Workers -> Jobs \cup {NoJob}]
      /\ parent \in [Jobs -> Jobs \cup {NoJob}] /\ jobs \in [Jobs -> Row]
      /\ NoJob \notin Jobs
      /\ \A v \in Workers : pc[v] = "recurring" => held[v] \in Jobs
  BY StoreAssumption DEF TypeOK, WorkerTypeOK, StoreTypeOK, Holding
<1>1. ASSUME NEW k \in Jobs, CreateNext(w, k)
      PROVE  OneContinuation' /\ ChainDoesNotFork'
  <2> DEFINE j == held[w]
  <2>1. /\ pc[w] = "recurring" /\ pc'[w] = "rescheduling" /\ held' = held
        /\ \A v \in Workers \ {w} : pc'[v] = pc[v]
        /\ j \in Jobs
    BY <1>0, <1>1 DEF CreateNext, Go
  <2>2. /\ Status(j) = "SUCCESS" /\ Childless(j)
        /\ \A v \in Workers \ {w} : pc[v] = "recurring" => held[v] # j
    BY <2>1 DEF OneContinuation
  <2>3. parent'[k] = j /\ \A l \in Jobs \ {k} : parent'[l] = parent[l]
    BY <1>0, <1>1 DEF CreateNext, InsertNextOccurrence, InsertJob
  <2>4. \A i \in Jobs \ {j} : Childless(i) => Childless(i)'
    BY <2>3 DEF Childless
  <2>5. ChainDoesNotFork'
    BY <2>2, <2>3 DEF ChainDoesNotFork, Childless
  <2>6. ASSUME NEW i \in Jobs, Status(i)' # "SUCCESS" PROVE Childless(i)'
    BY <2>2, <2>4, <2>6 DEF OneContinuation
  <2>7. ASSUME NEW v \in Workers, pc'[v] = "recurring"
        PROVE  /\ v # w /\ held'[v] = held[v] /\ pc[v] = "recurring"
               /\ Status(held[v])' = "SUCCESS" /\ Childless(held[v])'
    BY <1>0, <2>1, <2>2, <2>4, <2>7 DEF OneContinuation
  <2> QED BY <2>5, <2>6, <2>7 DEF OneContinuation, Status
<1>2. CASE ReportSuccess(w)
  <2> DEFINE j == held[w]
  <2>1. /\ pc[w] = "running" /\ held' = held /\ j \in Jobs /\ Executing(w, j)
        /\ \A v \in Workers \ {w} : pc'[v] = pc[v]
        /\ parent' = parent
    BY <1>0, <1>2 DEF ReportSuccess, Go, MarkSuccess, TypeOK, WorkerTypeOK, Holding,
       Executing
  <2>2. Status(j) = "RUNNING"
    BY <2>1 DEF LockInv, LockProtects
  <2>3. /\ Childless(j)
        /\ \A v \in Workers : pc[v] = "recurring" => held[v] # j
    BY <2>1, <2>2 DEF OneContinuation
  <2>4. Status(j)' = "SUCCESS"
    BY <1>0, <1>2, <2>1, NewStatus DEF ReportSuccess, MarkSuccess, Status
  <2>5. \A i : Childless(i)' = Childless(i)
    BY <2>1 DEF Childless
  <2>6. ChainDoesNotFork'
    BY <2>1 DEF ChainDoesNotFork
  <2>7. ASSUME NEW i \in Jobs, Status(i)' # "SUCCESS" PROVE Childless(i)'
    BY <2>5, <2>7 DEF OneContinuation
  <2>8. ASSUME NEW v \in Workers, pc'[v] = "recurring"
        PROVE  /\ Status(held[v])' = "SUCCESS" /\ Childless(held[v])'
               /\ v = w \/ (pc[v] = "recurring" /\ held[v] # j)
    BY <1>0, <2>1, <2>3, <2>4, <2>5, <2>8 DEF OneContinuation
  <2> QED BY <2>1, <2>6, <2>7, <2>8 DEF OneContinuation, Status
<1>3. ASSUME ~ReportSuccess(w), ~\E k \in Jobs : CreateNext(w, k)
      PROVE  OneContinuation' /\ ChainDoesNotFork'
  <2>1. parent' = parent
    BY <1>3 DEF WorkerStep, Heartbeat, WorkerFault, StartWorker, Reserve, ReserveJob,
       PopJob, StoreReserved, StoreReservedFails, LockJob, SkipJob, LockFails, Report,
       HandlerFails, ReportSuccessFails, ReportRetry, ReportDead, NoRetryDate,
       ReportFailureFails, Recur, ScheduleNext, AbandonNext, NoMoreOccurrences, AckJob,
       AckFails, StopWorker, CrashWorker, FetchAndLock, MarkRetrying, MoveToDeadLetter,
       UpsertHeartbeat, MarkWorkerDead, storeVars
  <2>2. /\ \A v \in Workers \ {w} : pc'[v] = pc[v] /\ held'[v] = held[v]
        /\ pc'[w] = "recurring" => pc[w] = "recurring" /\ held'[w] = held[w]
    BY <1>0, <1>3 DEF WorkerStep, Heartbeat, WorkerFault, StartWorker, Reserve,
       ReserveJob, PopJob, StoreReserved, StoreReservedFails, LockJob, SkipJob, LockFails,
       Report, HandlerFails, ReportSuccessFails, ReportRetry, ReportDead, NoRetryDate,
       ReportFailureFails, Recur, ScheduleNext, AbandonNext, NoMoreOccurrences, AckJob,
       AckFails, StopWorker, CrashWorker, Go, LetGo, workerVars
  <2> QED BY <2>1, <2>2, NoNewContinuation
<1> QED BY <1>1, <1>2, <1>3

\* While no timeout expires under a live worker, PostgreSQL answers and there is
\* one replay at most, a job has one next occurrence at most.
THEOREM ChainIsALine ==
  ASSUME ~Overrun, "db" \notin Faults, \A q, s \in Replayers : q = s
  PROVE  Spec => []ChainDoesNotFork
<1> DEFINE ForkInv == OnlyRowsFollow /\ OneContinuation /\ ChainDoesNotFork
<1>1. Init => ForkInv
  <2>1. ASSUME Init
        PROVE  /\ \A j \in Jobs : parent[j] = NoJob /\ NoJob \notin Jobs
               /\ \A w \in Workers : pc[w] = "off"
    BY <2>1, StoreAssumption DEF Init, StoreInit, WorkerInit
  <2> QED BY <2>1 DEF OnlyRowsFollow, OneContinuation, Childless, ChainDoesNotFork
<1>2. ASSUME TypeOK, LockInv, ForkInv, [Next]_vars PROVE ForkInv'
  <2>1. OnlyRowsFollow'
    BY <1>2, EveryStepIsStatement, FollowersStay
  <2>2. \A j \in Jobs : Status(j) = "SUCCESS" => Status(j)' = "SUCCESS"
    BY <1>2, OutcomeStays DEF OnlyReplayed, Terminal, Status
  <2>3. CASE WorkerNext
    BY <1>2, <2>1, <2>2, <2>3, ContinuationStep
  <2>4. CASE ~WorkerNext
    <3>1. /\ UNCHANGED workerVars
          /\ \A k \in Jobs : parent'[k] = parent[k] \/ parent'[k] = NoJob
      BY <1>2, <2>4, OthersContinueNothing
    <3> QED BY <1>2, <2>1, <2>2, <3>1, NoNewContinuation DEF workerVars
  <2> QED BY <2>3, <2>4
<1> QED BY <1>1, <1>2, LockInvariant, PTL DEF Spec

-----------------------------------------------------------------------------
(* Delays.                                                                 *)

\* An id without a row, or a row whose time has not come.
NotYet(j) == Status(j) = "ABSENT" \/ jobs[j].start = "future"

\* Its row is as it was inserted, or cancelled.
RowUntouched(j) ==
  /\ jobs[j].attempts = 0
  /\ Status(j) \in {"ABSENT", "PENDING", "FAILED"}
  /\ jobs[j].start # "due"
  /\ \A n \in Nat : <<j, n>> \notin deadLetters

\* Nobody has j in hand but the requests that created or cancelled it, and the
\* scheduler while it syncs.
InNoHands(j) ==
  /\ \A w \in Workers : held[w] # j
  /\ j \in sbatch => spc = "syncing"
  /\ j \notin rbatch
  /\ rpc = "pushBack" => rcur # j
  /\ \A r \in Requests : apc[r] \in {"selected", "committed"} => target[r] # j

\* So it is before its time.
UntouchedBefore ==
  \A j \in Jobs : NotYet(j) => RowUntouched(j) /\ ~Queued(j) /\ InNoHands(j)

\* A request is about a row of the table.
TargetsExist == \A r \in Requests : target[r] \in Jobs => Status(target[r]) # "ABSENT"

\* No statement touches a row that no worker holds and whose time does not
\* come with it.
LEMMA RowStaysUntouched ==
  ASSUME TypeOK, AnyStatement, NEW j \in Jobs, RowUntouched(j),
         \A w \in Workers : held[w] # j, NotYet(j)'
  PROVE  RowUntouched(j)'
<1> USE DEF RowUntouched
<1>0. jobs \in [Jobs -> Row] /\ jobs[j] \in Row /\ letters \in [Jobs -> Nat]
  BY DEF TypeOK, StoreTypeOK
<1>1. ASSUME jobs'[j] = jobs[j], \A n \in Nat : <<j, n>> \in deadLetters' => <<j, n>> \in deadLetters
      PROVE  RowUntouched(j)'
  BY <1>1 DEF Status
<1>2. /\ Unlocked(jobs[j], "PENDING").status = "PENDING"
      /\ Unlocked(jobs[j], "FAILED").status = "FAILED"
      /\ ReplayedRow(jobs[j]).status = "PENDING"
  BY <1>0, NewStatus
<1>3. \A s \in Statuses : /\ Unlocked(jobs[j], s).attempts = jobs[j].attempts
                         /\ Unlocked(jobs[j], s).start = jobs[j].start
  BY <1>0 DEF Unlocked, Row
<1>4. ReplayedRow(jobs[j]).attempts = 0 /\ ReplayedRow(jobs[j]).start = jobs[j].start
  BY <1>0 DEF ReplayedRow, Unlocked, Row
<1>5. CASE RegistryStatement
  BY <1>1, <1>5 DEF RegistryStatement
<1>6. CASE SweeperStatement
  BY <1>0, <1>2, <1>3, <1>6 DEF SweeperStatement, ReclaimDueRetries, ReclaimStaleJobs,
     MarkExpiredWorkersDead, storeVars, Status, Statuses
<1>7. ASSUME NEW w \in Workers, held[w] \in Jobs, HolderStatement(held[w])
      PROVE  RowUntouched(j)'
  <2>1. held[w] # j /\ letters[held[w]] \in Nat
    BY <1>0, <1>7
  <2>2. jobs'[j] = jobs[j]
    BY <1>0, <1>7, <2>1 DEF HolderStatement, FetchAndLock, MarkSuccess, MarkRetrying,
       MoveToDeadLetter
  <2>3. \A n \in Nat : <<j, n>> \in deadLetters' => <<j, n>> \in deadLetters
    BY <1>7, <2>1 DEF HolderStatement, FetchAndLock, MarkSuccess, MarkRetrying,
       MoveToDeadLetter
  <2> QED BY <1>1, <2>2, <2>3
<1>8. ASSUME NEW k \in Jobs, RowStatement(k) PROVE RowUntouched(j)'
  <2>1. \A n \in Nat : <<j, n>> \in deadLetters' => <<j, n>> \in deadLetters
    BY <1>8 DEF RowStatement, CancelRow, ReplayRow, InsertJob, RetryBecomesDue,
       StartBecomesDue, LockTurnsStale
  <2>2. CASE k # j
    <3>1. jobs'[j] = jobs[j]
      BY <1>0, <1>8, <2>2 DEF RowStatement, CancelRow, ReplayRow, InsertJob,
         RetryBecomesDue, StartBecomesDue, LockTurnsStale
    <3> QED BY <1>1, <2>1, <3>1
  <2>3. CASE k = j /\ (CancelRow(k) \/ \E n \in Nat : ReplayRow(k, n))
    BY <1>0, <1>2, <1>3, <1>4, <2>1, <2>3 DEF CancelRow, ReplayRow, Status, Statuses
  <2>4. ASSUME k = j, NEW p \in Int, NEW s \in {"now", "future"},
                      NEW c \in BOOLEAN, NEW d \in BOOLEAN,
               NEW o \in Jobs \cup {NoJob}, InsertJob(k, NewRow(p, s, c, d), o)
        PROVE  RowUntouched(j)'
    BY <1>0, <2>1, <2>4 DEF InsertJob, NewRow, Status
  <2>5. ASSUME k = j PROVE ~(RetryBecomesDue(k) \/ LockTurnsStale(k))
    BY <2>5 DEF RetryBecomesDue, LockTurnsStale
  <2>6. ASSUME k = j, StartBecomesDue(k) PROVE FALSE
    <3>1. /\ jobs'[j] = [jobs[j] EXCEPT !.start = "due"]
          /\ jobs[j].status # "ABSENT"
      BY <1>0, <2>6 DEF StartBecomesDue, Status
    <3>2. jobs'[j].start = "due" /\ jobs'[j].status = jobs[j].status
      BY <1>0, <3>1 DEF Row
    <3> QED BY <3>1, <3>2 DEF NotYet, Status
  <2> QED BY <1>8, <2>2, <2>3, <2>4, <2>5, <2>6 DEF RowStatement
<1> QED BY <1>5, <1>6, <1>7, <1>8 DEF AnyStatement, OtherStatement

\* The commands put no job on a list but the one they are given, and the
\* script none that is not due.
LEMMA CommandsOnOthers ==
  ASSUME TransportTypeOK, NEW j \in Jobs, ~Queued(j)
  PROVE  /\ \A k \in Jobs, t \in Tiers :
              /\ MoveToProcessing(k, t) \/ BlockingPop(k, t) => k # j /\ ~Queued(j)'
              /\ RemoveFrom(k, t) => ~Queued(j)'
              /\ k # j /\ EnqueueOn(k, t) => ~Queued(j)'
         /\ \A k \in Jobs \ {j}, p \in Int : Enqueue(k, p) => ~Queued(j)'
         /\ PromoteDue /\ jobs[j].start # "due" => ~Queued(j)'
<1>0. /\ queue \in [Tiers -> [Jobs -> Nat]]
      /\ \A s \in Tiers : queue[s][j] = 0
  BY DEF TransportTypeOK, Queued
<1>1. ASSUME NEW k \in Jobs, NEW t \in Tiers, MoveToProcessing(k, t) \/ BlockingPop(k, t)
      PROVE  k # j /\ ~Queued(j)'
  <2>1. k # j
    BY <1>0, <1>1 DEF MoveToProcessing, BlockingPop
  <2>2. \A s \in Tiers : queue'[s][j] = queue[s][j]
    BY <1>0, <1>1, <2>1 DEF MoveToProcessing, BlockingPop, LessOne
  <2> QED BY <1>0, <2>1, <2>2 DEF Queued
<1>2. ASSUME NEW k \in Jobs, NEW t \in Tiers, RemoveFrom(k, t)
      PROVE  ~Queued(j)'
  <2>1. \A s \in Tiers : queue'[s][j] = 0
    BY <1>0, <1>2 DEF RemoveFrom
  <2> QED BY <2>1 DEF Queued
<1>3. ASSUME NEW k \in Jobs \ {j}, NEW t \in Tiers, Push(k, t)
      PROVE  ~Queued(j)'
  <2>1. \A s \in Tiers : queue'[s][j] = queue[s][j]
    BY <1>0, <1>3 DEF Push
  <2> QED BY <1>0, <2>1 DEF Queued
<1>4. ASSUME NEW p \in Int PROVE TierOf(p) \in Tiers
  BY DEF TierOf, Tiers
<1>5. ASSUME PromoteDue, jobs[j].start # "due" PROVE ~Queued(j)'
  <2>1. j \notin DueScheduled
    BY <1>5 DEF DueScheduled
  <2>2. \A s \in Tiers : queue'[s][j] = 0
    BY <1>0, <1>5, <2>1 DEF PromoteDue, Tiers
  <2> QED BY <2>2 DEF Queued
<1> QED BY <1>1, <1>2, <1>3, <1>4, <1>5 DEF EnqueueOn, Enqueue

\* A worker takes in hand only what is on a list.
LEMMA WorkerLeavesUntouched ==
  ASSUME TypeOK, WorkerNext, NEW j \in Jobs, ~Queued(j), \A w \in Workers : held[w] # j
  PROVE  ~Queued(j)' /\ \A w \in Workers : held'[w] # j
<1> PICK w \in Workers : WorkerStep(w) \/ Heartbeat(w) \/ WorkerFault(w)
  BY DEF WorkerNext
<1>0. held \in [Workers -> Jobs \cup {NoJob}] /\ NoJob \notin Jobs
  BY StoreAssumption DEF TypeOK, WorkerTypeOK
<1>1. ASSUME NEW k \in Jobs, NEW t \in Tiers, ReserveJob(w, k, t) \/ PopJob(w, k, t)
      PROVE  ~Queued(j)' /\ \A v \in Workers : held'[v] # j
  <2>1. k # j /\ ~Queued(j)'
    BY <1>1, CommandsOnOthers DEF TypeOK, ReserveJob, PopJob
  <2>2. held' = [held EXCEPT ![w] = k]
    BY <1>1 DEF ReserveJob, PopJob
  <2> QED BY <1>0, <2>1, <2>2
<1>2. \/ Reserve(w)
      \/ /\ queue' = queue
         /\ held' = held \/ held' = [held EXCEPT ![w] = NoJob]
  BY DEF WorkerStep, Heartbeat, WorkerFault, StartWorker, StoreReserved,
     StoreReservedFails, LockJob, SkipJob, LockFails, Report, HandlerFails, ReportSuccess,
     ReportSuccessFails, ReportRetry, ReportDead, NoRetryDate, ReportFailureFails, Recur,
     CreateNext, ScheduleNext, AbandonNext, NoMoreOccurrences, AckJob, AckFails,
     StopWorker, CrashWorker, LetGo, workerVars, transportVars, PushProcessing, Ack,
     Schedule, Drop
<1> QED BY <1>0, <1>1, <1>2 DEF Reserve, Queued

\* The scheduler promotes what is due, and pushes what it took from the rows.
LEMMA SchedulerLeavesUntouched ==
  ASSUME TypeOK, SchedulerNext, NEW j \in Jobs, ~Queued(j), RowUntouched(j),
         j \in sbatch => spc = "syncing"
  PROVE  ~Queued(j)' /\ (j \in sbatch' => spc' = "syncing")
<1>0. TransportTypeOK /\ \A k \in Jobs : jobs[k].priority \in Int
  BY DEF TypeOK, StoreTypeOK, Row
<1>1. CASE PromoteDelayed
  BY <1>0, <1>1, CommandsOnOthers DEF PromoteDelayed, Advance, RowUntouched
<1>2. ASSUME NEW k \in Jobs, PushRetry(k) \/ PushStale(k)
      PROVE  ~Queued(j)' /\ (j \in sbatch' => spc' = "syncing")
  <2>1. k \in sbatch /\ spc # "syncing" /\ sbatch' = sbatch \ {k}
    BY <1>2 DEF PushRetry, PushStale, ServeOne
  <2>2. k # j /\ Enqueue(k, jobs[k].priority)
    BY <1>2, <2>1 DEF PushRetry, PushStale
  <2> QED BY <1>0, <2>1, <2>2, CommandsOnOthers
<1>3. CASE TakeRetries \/ TakeStale
  BY <1>3 DEF TakeRetries, TakeStale, Enter, DueRetries, StaleJobs, RowUntouched,
     transportVars, Queued
<1>4. CASE StartScheduler \/ ExpireWorkers \/ SkipReaper \/ SchedulerFails \/ CrashScheduler
             \/ \E k \in Jobs : SyncJob(k)
  BY <1>4 DEF StartScheduler, ExpireWorkers, SkipReaper, SchedulerFails, CrashScheduler,
     SyncJob, ServeOne, Enter, Advance, Schedule, Drop, transportVars, Queued
<1> QED BY <1>1, <1>2, <1>3, <1>4 DEF SchedulerNext, SchedulerStep

\* So does the reaper.
LEMMA ReaperLeavesUntouched ==
  ASSUME TypeOK, ReaperNext, NEW j \in Jobs, ~Queued(j), RowUntouched(j),
         j \notin rbatch, rpc = "pushBack" => rcur # j
  PROVE  ~Queued(j)' /\ j \notin rbatch' /\ (rpc' = "pushBack" => rcur' # j)
<1>0. TransportTypeOK /\ "default" \in Tiers /\ (rpc = "pushBack" => rcur \in Jobs)
  BY DEF TypeOK, ReaperTypeOK, Tiers
<1>1. CASE RequeuePushes
  BY <1>0, <1>1, CommandsOnOthers DEF RequeuePushes, NextTurn
<1>2. ASSUME NEW k \in Jobs, ReaperPushesRetry(k)
      PROVE  ~Queued(j)' /\ j \notin rbatch' /\ (rpc' = "pushBack" => rcur' # j)
  BY <1>0, <1>2, CommandsOnOthers DEF ReaperPushesRetry, NextTurn
<1>3. CASE ReaperReclaims \/ ReaperTakesRetries
  BY <1>3 DEF ReaperReclaims, ReaperTakesRetries, NextTurn, DueRetries, StaleJobs,
     RowUntouched, transportVars, Queued
<1>4. CASE StartReaper \/ ReaperExpires \/ ReaperQueryFails \/ CrashReaper
             \/ \E k \in Jobs : RequeueRemoves(k) \/ ReaperPushFails(k)
  BY <1>4, StoreAssumption DEF StartReaper, ReaperExpires, ReaperQueryFails, CrashReaper,
     RequeueRemoves, ReaperPushFails, NextTurn, Ack, Drop, transportVars, Queued
<1> QED BY <1>1, <1>2, <1>3, <1>4 DEF ReaperNext, ReaperStep

\* A request pushes the job it has inserted only if that has no date, and
\* replays only a job that has a dead letter.
LEMMA RequestsLeaveUntouched ==
  ASSUME TypeOK, ApiNext, TargetsExist, NEW j \in Jobs, ~Queued(j), RowUntouched(j),
         NotYet(j),
         \A r \in Requests : apc[r] \in {"selected", "committed"} => target[r] # j
  PROVE  /\ ~Queued(j)'
         /\ \A r \in Requests : apc'[r] \in {"selected", "committed"} => target'[r] # j
<1> PICK r \in Requests : FirstStep(r) \/ LaterStep(r) \/ AbortRequest(r)
  BY DEF ApiNext
<1>0. /\ TransportTypeOK /\ ApiTypeOK /\ Tiers = {"high", "default", "low"}
      /\ \A k \in Jobs : jobs[k].priority \in Int
      /\ letters \in [Jobs -> Nat]
  BY DEF TypeOK, StoreTypeOK, Row, Tiers
<1>1. ASSUME \A q \in Requests \ {r} : apc'[q] = apc[q] /\ target'[q] = target[q],
             apc'[r] \in {"selected", "committed"} => target'[r] # j
      PROVE  \A q \in Requests : apc'[q] \in {"selected", "committed"} => target'[q] # j
  BY <1>1
<1> USE DEF Move, ApiTypeOK
<1>2. ASSUME NEW k \in Jobs, CreateJob(r, k) \/ CancelJob(r, k)
      PROVE  /\ ~Queued(j)'
             /\ \A q \in Requests : apc'[q] \in {"selected", "committed"} => target'[q] # j
  BY <1>0, <1>1, <1>2 DEF CreateJob, CancelJob, transportVars, Queued
<1>3. ASSUME NEW k \in Jobs, NEW n \in 1..letters[k], SelectLetter(r, k, n)
      PROVE  /\ ~Queued(j)'
             /\ \A q \in Requests : apc'[q] \in {"selected", "committed"} => target'[q] # j
  <2>1. n \in Nat /\ k # j
    BY <1>0, <1>3 DEF SelectLetter, RowUntouched
  <2> QED BY <1>0, <1>1, <1>3, <2>1 DEF SelectLetter, transportVars, Queued
<1>4. CASE SubmitJob(r)
  <2>1. target[r] \in Jobs
    BY <1>0, <1>4 DEF SubmitJob
  <2>2. jobs[target[r]].start = "now" => target[r] # j
    BY <2>1 DEF TargetsExist, NotYet
  <2>3. ~Queued(j)'
    BY <1>0, <1>4, <2>1, <2>2, CommandsOnOthers DEF SubmitJob, Schedule, Queued
  <2> QED BY <1>0, <1>1, <1>4, <2>3 DEF SubmitJob
<1>5. CASE PurgeQueue(r)
  <2>1. target[r] \in Jobs
    BY <1>0, <1>5 DEF PurgeQueue
  <2>2. ~Queued(j)'
    BY <1>0, <1>5, <2>1, CommandsOnOthers DEF PurgeQueue
  <2> QED BY <1>0, <1>1, <1>5, <2>2 DEF PurgeQueue
<1>6. CASE CommitReplay(r) \/ PurgeSchedule(r) \/ AbortRequest(r)
  BY <1>0, <1>1, <1>6 DEF CommitReplay, PurgeSchedule, AbortRequest, Unschedule, Drop,
     transportVars, Queued
<1>7. CASE EnqueueReplayed(r)
  <2>1. target[r] \in Jobs \ {j}
    BY <1>0, <1>7 DEF EnqueueReplayed
  <2>2. ~Queued(j)'
    BY <1>0, <1>7, <2>1, CommandsOnOthers DEF EnqueueReplayed
  <2> QED BY <1>0, <1>1, <1>7, <2>2 DEF EnqueueReplayed
<1> QED BY <1>2, <1>3, <1>4, <1>5, <1>6, <1>7 DEF FirstStep, LaterStep

\* A row that a request is about does not go away.
LEMMA TargetsStay ==
  ASSUME TypeOK, UntouchedBefore, TargetsExist, [Next]_vars
  PROVE  TargetsExist'
<1>1. \A j \in Jobs : Status(j)' = "ABSENT" => Status(j) = "ABSENT"
  BY EveryStepIsStatement, EffectOfStatement, RowsLast DEF Status
<1>2. CASE UNCHANGED target
  BY <1>1, <1>2 DEF TargetsExist
<1>3. ASSUME NEW r \in Requests, NEW k \in Jobs, target' = [target EXCEPT ![r] = k],
             Status(k)' # "ABSENT"
      PROVE  TargetsExist'
  BY <1>1, <1>3 DEF TargetsExist, TypeOK, ApiTypeOK
<1>4. ASSUME NEW r \in Requests, NEW k \in Jobs, CreateJob(r, k) PROVE TargetsExist'
  <2>1. Status(k)' = "PENDING"
    BY <1>4 DEF CreateJob, InsertJob, NewRow, Status, TypeOK, StoreTypeOK
  <2> QED BY <1>3, <1>4, <2>1 DEF CreateJob
<1>5. ASSUME NEW r \in Requests, NEW k \in Jobs, CancelJob(r, k) PROVE TargetsExist'
  BY <1>1, <1>3, <1>5 DEF CancelJob, Fresh
<1>6. ASSUME NEW r \in Requests, NEW k \in Jobs, NEW n \in 1..letters[k],
             SelectLetter(r, k, n)
      PROVE  TargetsExist'
  <2>1. n \in Nat
    BY <1>6 DEF TypeOK, StoreTypeOK
  <2>2. Status(k) # "ABSENT"
    BY <1>6, <2>1 DEF SelectLetter, UntouchedBefore, NotYet, RowUntouched
  <2> QED BY <1>1, <1>3, <1>6, <2>2 DEF SelectLetter
<1>7. \/ UNCHANGED target
      \/ \E r \in Requests : FirstStep(r)
  BY DEF Next, LeavesApi, apiVars, ApiNext, LaterStep, SubmitJob, PurgeQueue,
     PurgeSchedule, CommitReplay, EnqueueReplayed, AbortRequest, Time, RetryDue,
     StartDue, LockOverdue, HeartbeatOverdue, vars
<1> QED BY <1>2, <1>4, <1>5, <1>6, <1>7 DEF FirstStep

\* Nobody takes a job in hand, and nobody puts one on a list, whose time has
\* not come yet.
LEMMA NobodyTouches ==
  ASSUME TypeOK, UntouchedBefore, TargetsExist, [Next]_vars, NEW j \in Jobs, NotYet(j)
  PROVE  ~Queued(j)' /\ InNoHands(j)'
<1>1. RowUntouched(j) /\ ~Queued(j) /\ InNoHands(j)
  BY DEF UntouchedBefore
<1>2. CASE WorkerNext /\ LeavesServices /\ LeavesApi
  <2>1. ~Queued(j)' /\ \A w \in Workers : held'[w] # j
    BY <1>1, <1>2, WorkerLeavesUntouched DEF InNoHands
  <2> QED BY <1>1, <1>2, <2>1 DEF InNoHands, LeavesServices, LeavesApi,
          schedulerVars, reaperVars, apiVars
<1>3. CASE SchedulerNext /\ LeavesWorkers /\ LeavesApi /\ UNCHANGED reaperVars
  <2>1. ~Queued(j)' /\ (j \in sbatch' => spc' = "syncing")
    BY <1>1, <1>3, SchedulerLeavesUntouched DEF InNoHands
  <2> QED BY <1>1, <1>3, <2>1 DEF InNoHands, LeavesWorkers, workerVars, LeavesApi,
          reaperVars, apiVars
<1>4. CASE ReaperNext /\ LeavesWorkers /\ LeavesApi /\ UNCHANGED schedulerVars
  <2>1. ~Queued(j)' /\ j \notin rbatch' /\ (rpc' = "pushBack" => rcur' # j)
    BY <1>1, <1>4, ReaperLeavesUntouched DEF InNoHands
  <2> QED BY <1>1, <1>4, <2>1 DEF InNoHands, LeavesWorkers, workerVars, LeavesApi,
          schedulerVars, apiVars
<1>5. CASE ApiNext /\ LeavesWorkers /\ LeavesServices
  <2>1. /\ ~Queued(j)'
        /\ \A r \in Requests : apc'[r] \in {"selected", "committed"} => target'[r] # j
    BY <1>1, <1>5, RequestsLeaveUntouched DEF InNoHands
  <2> QED BY <1>1, <1>5, <2>1 DEF InNoHands, LeavesWorkers, workerVars,
          LeavesServices, schedulerVars, reaperVars
<1>6. CASE Time \/ UNCHANGED vars
  <2>1. UNCHANGED <<transportVars, workerVars, schedulerVars, reaperVars, apiVars>>
    BY <1>6 DEF Time, RetryDue, StartDue, LockOverdue, HeartbeatOverdue, LockGoesStale,
       HeartbeatGoesLate, LeavesWorkers, LeavesServices, LeavesApi, vars
  <2> QED BY <1>1, <2>1 DEF InNoHands, Queued, transportVars, workerVars,
          schedulerVars, reaperVars, apiVars
<1> QED BY <1>2, <1>3, <1>4, <1>5, <1>6 DEF Next

\* What is untouched stays so as long as its time has not come.
LEMMA UntouchedStays ==
  ASSUME TypeOK, UntouchedBefore, TargetsExist, [Next]_vars, NEW j \in Jobs, NotYet(j)'
  PROVE  (RowUntouched(j) /\ ~Queued(j) /\ InNoHands(j))'
<1>1. AnyStatement
  BY EveryStepIsStatement
<1>2. NotYet(j)
  BY <1>1, EffectOfStatement, RowsLast DEF NotYet, Status
<1>3. RowUntouched(j) /\ ~Queued(j) /\ InNoHands(j)
  BY <1>2 DEF UntouchedBefore
<1>4. RowUntouched(j)'
  BY <1>1, <1>3, RowStaysUntouched DEF InNoHands
<1> QED BY <1>2, <1>4, NobodyTouches

\* It is an invariant of the system that what lies ahead is untouched.
LEMMA UntouchedInvariant == Spec => [](UntouchedBefore /\ TargetsExist)
<1>1. Init => TypeOK /\ UntouchedBefore /\ TargetsExist
  <2>1. ASSUME Init
        PROVE  UntouchedBefore /\ TargetsExist
    <3>1. \A j \in Jobs : RowUntouched(j)
      BY <2>1 DEF Init, StoreInit, RowUntouched, Status, AbsentRow, NewRow
    <3>2. \A j \in Jobs : ~Queued(j) /\ InNoHands(j)
      BY <2>1, StoreAssumption DEF Init, TransportInit, WorkerInit, SchedulerInit,
         ReaperInit, ApiInit, Queued, InNoHands
    <3>3. \A r \in Requests : target[r] = NoJob
      BY <2>1 DEF Init, ApiInit
    <3> QED BY <3>1, <3>2, <3>3, StoreAssumption DEF UntouchedBefore, TargetsExist
  <2> QED BY <2>1, InitTypes
<1>2. TypeOK /\ UntouchedBefore /\ TargetsExist /\ [Next]_vars =>
        UntouchedBefore' /\ TargetsExist'
  BY UntouchedStays, TargetsStay DEF UntouchedBefore
<1> QED BY <1>1, <1>2, NextTypes, PTL DEF Spec

\* A job whose scheduled_for lies ahead was never given to a worker and waits
\* on no list: with every fault and timeout, any restart of the scheduler and
\* any request in flight.
THEOREM NothingRunsEarly == Spec => []NotBeforeItsTime
<1>1. UntouchedBefore => NotBeforeItsTime
  BY DEF UntouchedBefore, NotYet, RowUntouched, InNoHands, NotBeforeItsTime
<1> QED BY <1>1, UntouchedInvariant, PTL

=============================================================================
