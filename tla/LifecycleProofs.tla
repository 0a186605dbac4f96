-------------------------- MODULE LifecycleProofs --------------------------
(***************************************************************************)
(* The refinement of JobLifecycle for every number of jobs, workers and    *)
(* requests, as long as no timeout expires under a live worker, PostgreSQL *)
(* answers, there is at most one replay and no job is delayed.  A step     *)
(* of the system is a step of the life of a job because of what three      *)
(* invariants say of it: LockInv (whoever reports owns the lock),          *)
(* RefInv (whoever locks found a PENDING row: a retry has no reference     *)
(* before it is promoted) and LifeInv (the attempts that a worker read     *)
(* with its lock are those of the row).  LockInv also says who owns a job  *)
(* after a step: the one worker that executes it, or nobody.               *)
(* The second part is about the attempts alone, without any assumption.    *)
(***************************************************************************)
EXTENDS ReferenceProofs, JobRefinement

\* A worker goes by the attempts of the row, as of its lock.
SnapFits == \A w \in Workers, j \in Jobs : Executing(w, j) => snap[w] = jobs[j].attempts

FreshRows ==
  \A j \in Jobs : Status(j) = "ABSENT" => jobs[j].attempts = 0 /\ jobs[j].retriable

\* No job is delayed, and none recurs.
AllNow ==
  /\ \A j \in Jobs : jobs[j].start = "now" /\ ~jobs[j].recurring
  /\ \A w \in Workers : pc[w] # "recurring"

LifeInv == SnapFits /\ FreshRows /\ AllNow

-----------------------------------------------------------------------------
\* No UPDATE touches the date or the rule of a row; few touch the attempts.
LEMMA UpdatedRow ==
  ASSUME NEW row \in Row
  PROVE  /\ \A s : /\ Unlocked(row, s).start = row.start
                   /\ Unlocked(row, s).recurring = row.recurring
                   /\ Unlocked(row, s).attempts = row.attempts
                   /\ Unlocked(row, s).retryDue = row.retryDue
                   /\ Unlocked(row, s).lockedBy = NoWorker
                   /\ Unlocked(row, s).status = s
         /\ /\ RetryingRow(row).start = row.start
            /\ RetryingRow(row).recurring = row.recurring
            /\ RetryingRow(row).attempts = row.attempts
            /\ RetryingRow(row).lockedBy = NoWorker
            /\ RetryingRow(row).status = "RETRYING"
            /\ RetryingRow(row).retryDue = FALSE
         /\ /\ ReplayedRow(row).start = row.start
            /\ ReplayedRow(row).recurring = row.recurring
            /\ ReplayedRow(row).attempts = 0
            /\ ReplayedRow(row).lockedBy = NoWorker
            /\ ReplayedRow(row).status = "PENDING"
         /\ \A w : /\ LockedRow(row, w).start = row.start
                   /\ LockedRow(row, w).recurring = row.recurring
                   /\ LockedRow(row, w).attempts = row.attempts + 1
                   /\ LockedRow(row, w).lockedBy = w
                   /\ LockedRow(row, w).status = "RUNNING"
<1>1. \A s : /\ Unlocked(row, s).start = row.start
             /\ Unlocked(row, s).recurring = row.recurring
             /\ Unlocked(row, s).attempts = row.attempts
             /\ Unlocked(row, s).retryDue = row.retryDue
             /\ Unlocked(row, s).lockedBy = NoWorker
             /\ Unlocked(row, s).status = s
  BY DEF Unlocked, Row
<1>2. /\ RetryingRow(row).start = row.start
      /\ RetryingRow(row).recurring = row.recurring
      /\ RetryingRow(row).attempts = row.attempts
      /\ RetryingRow(row).lockedBy = NoWorker
      /\ RetryingRow(row).status = "RETRYING"
      /\ RetryingRow(row).retryDue = FALSE
  BY DEF RetryingRow, Unlocked, Row
<1>3. /\ ReplayedRow(row).start = row.start
      /\ ReplayedRow(row).recurring = row.recurring
      /\ ReplayedRow(row).attempts = 0
      /\ ReplayedRow(row).lockedBy = NoWorker
      /\ ReplayedRow(row).status = "PENDING"
  BY DEF ReplayedRow, Unlocked, Row
<1>4. \A w : /\ LockedRow(row, w).start = row.start
             /\ LockedRow(row, w).recurring = row.recurring
             /\ LockedRow(row, w).attempts = row.attempts + 1
             /\ LockedRow(row, w).lockedBy = w
             /\ LockedRow(row, w).status = "RUNNING"
  BY DEF LockedRow, Row
<1> QED BY <1>1, <1>2, <1>3, <1>4

-----------------------------------------------------------------------------
(* The invariant.                                                          *)

\* No statement changes the attempts of a row that stays RUNNING.
LEMMA AttemptsStay ==
  ASSUME TypeOK, AnyStatement, NEW j \in Jobs, Status(j) = "RUNNING", Status(j)' = "RUNNING"
  PROVE  jobs'[j].attempts = jobs[j].attempts
<1>0. jobs \in [Jobs -> Row] /\ jobs[j] \in Row
  BY DEF TypeOK, StoreTypeOK
<1>01. /\ \A s : /\ Unlocked(jobs[j], s).attempts = jobs[j].attempts
                /\ Unlocked(jobs[j], s).status = s
       /\ RetryingRow(jobs[j]).status = "RETRYING"
       /\ ReplayedRow(jobs[j]).status = "PENDING"
  BY <1>0, UpdatedRow
<1>1. CASE RegistryStatement
  BY <1>1 DEF RegistryStatement
<1>2. CASE SweeperStatement
  BY <1>0, <1>01, <1>2 DEF SweeperStatement, ReclaimDueRetries, ReclaimStaleJobs,
     MarkExpiredWorkersDead, storeVars
<1>3. ASSUME NEW k \in Jobs, HolderStatement(k)
      PROVE  jobs'[j].attempts = jobs[j].attempts
  BY <1>0, <1>01, <1>3 DEF HolderStatement, FetchAndLock, Lockable, MarkSuccess,
     MarkRetrying, MoveToDeadLetter, Status
<1>4. ASSUME NEW k \in Jobs, RowStatement(k)
      PROVE  jobs'[j].attempts = jobs[j].attempts
  <2>1. CASE CancelRow(k) \/ \E n \in Nat : ReplayRow(k, n)
    BY <1>0, <1>01, <2>1 DEF CancelRow, ReplayRow, Status
  <2>2. ASSUME NEW p \in Int, NEW s \in {"now", "future"},
               NEW c \in BOOLEAN, NEW d \in BOOLEAN,
               NEW i \in Jobs \cup {NoJob}, InsertJob(k, NewRow(p, s, c, d), i)
        PROVE  jobs'[j].attempts = jobs[j].attempts
    BY <1>0, <2>2 DEF InsertJob, Fresh, Status
  <2>3. CASE RetryBecomesDue(k) \/ StartBecomesDue(k) \/ LockTurnsStale(k)
    BY <1>0, <2>3 DEF RetryBecomesDue, StartBecomesDue, LockTurnsStale, Row
  <2> QED BY <1>4, <2>1, <2>2, <2>3 DEF RowStatement
<1> QED BY <1>1, <1>2, <1>3, <1>4 DEF AnyStatement, OtherStatement

\* An execution starts with the lock.
LEMMA ExecutionStarts ==
  ASSUME TypeOK, [Next]_vars, NEW w \in Workers, NEW j \in Jobs, Executing(w, j)'
  PROVE  \/ Executing(w, j) /\ snap'[w] = snap[w]
         \/ LockJob(w) /\ held[w] = j
<1>0. /\ pc \in [Workers -> Locations] /\ held \in [Workers -> Jobs \cup {NoJob}]
      /\ snap \in [Workers -> Nat]
  BY DEF TypeOK, WorkerTypeOK
<1>1. CASE UNCHANGED workerVars
  BY <1>1 DEF workerVars, Executing
<1>2. ASSUME NEW v \in Workers, WorkerStep(v) \/ Heartbeat(v) \/ WorkerFault(v)
      PROVE  \/ Executing(w, j) /\ snap'[w] = snap[w]
             \/ LockJob(w) /\ held[w] = j
  <2> USE DEF Go, LetGo, workerVars, Executing
  <2>1. CASE v # w
    <3>1. pc'[w] = pc[w] /\ held'[w] = held[w] /\ snap'[w] = snap[w]
      BY <1>0, <1>2, <2>1 DEF WorkerStep, Heartbeat, WorkerFault, StartWorker, Reserve,
         ReserveJob, PopJob, StoreReserved, StoreReservedFails, LockJob, SkipJob,
         LockFails, Report, HandlerFails, ReportSuccess, ReportSuccessFails, ReportRetry,
         ReportDead, NoRetryDate, ReportFailureFails, Recur, CreateNext, ScheduleNext,
         AbandonNext, NoMoreOccurrences, AckJob, AckFails, StopWorker, CrashWorker
    <3> QED BY <3>1
  <2>2. CASE v = w /\ ~LockJob(w)
    <3>1. /\ pc'[w] \in {"running", "failed"} => pc[w] \in {"running", "failed"}
          /\ pc'[w] \in {"running", "failed"} => held'[w] = held[w] /\ snap'[w] = snap[w]
      BY <1>0, <1>2, <2>2 DEF WorkerStep, Heartbeat, WorkerFault, StartWorker, Reserve,
         ReserveJob, PopJob, StoreReserved, StoreReservedFails, SkipJob, LockFails,
         Report, HandlerFails, ReportSuccess, ReportSuccessFails, ReportRetry, ReportDead,
         NoRetryDate, ReportFailureFails, Recur, CreateNext, ScheduleNext, AbandonNext,
         NoMoreOccurrences, AckJob, AckFails, StopWorker, CrashWorker
    <3> QED BY <3>1
  <2>3. CASE LockJob(w)
    BY <2>3 DEF LockJob
  <2> QED BY <2>1, <2>2, <2>3
<1> QED
  BY <1>1, <1>2 DEF Next, WorkerNext, LeavesWorkers, Time, RetryDue, StartDue, LockOverdue,
     HeartbeatOverdue, LockGoesStale, HeartbeatGoesLate, vars

\* The steps that change a row.
RowStep ==
  \/ \E w \in Workers : LockJob(w) \/ ReportSuccess(w) \/ ReportRetry(w) \/ ReportDead(w)
  \/ UNCHANGED workerVars /\ (ReclaimDueRetries \/ ReclaimStaleJobs)
  \/ /\ UNCHANGED workerVars
     /\ \E r \in Requests : CommitReplay(r) \/ \E j \in Jobs : CreateJob(r, j) \/ CancelJob(r, j)
  \/ /\ UNCHANGED workerVars
     /\ \E j \in Jobs : RetryBecomesDue(j) \/ StartBecomesDue(j) \/ LockTurnsStale(j)

SameCrashed == \A w \in Workers : pc'[w] = "crashed" <=> pc[w] = "crashed"

SameWork == \A w \in Workers, j \in Jobs : Executing(w, j)' <=> Executing(w, j)

LEMMA StillWorkersWork ==
  ASSUME UNCHANGED workerVars
  PROVE  SameWork
BY DEF SameWork, workerVars, Executing

\* The steps sorted.
LEMMA LifeSteps ==
  ASSUME TypeOK, "db" \notin Faults, AllNow, [Next]_vars
  PROVE  \/ RowStep /\ SameCrashed
         \/ jobs' = jobs /\ SameCrashed /\ SameWork
         \/ \E w \in Workers : NoRetryDate(w) \/ CrashWorker(w)
<1>0. pc \in [Workers -> Locations] /\ held \in [Workers -> Jobs \cup {NoJob}]
  BY DEF TypeOK, WorkerTypeOK
<1>1. ASSUME NEW w \in Workers, WorkerStep(w) \/ Heartbeat(w) \/ WorkerFault(w)
      PROVE  \/ RowStep /\ SameCrashed
             \/ jobs' = jobs /\ SameCrashed /\ SameWork
             \/ NoRetryDate(w) \/ CrashWorker(w)
  <2>1. CASE LockJob(w) \/ ReportSuccess(w) \/ ReportRetry(w) \/ ReportDead(w)
    BY <1>0, <2>1 DEF RowStep, SameCrashed, LockJob, ReportSuccess, ReportRetry,
       ReportDead, Go
  <2>2. CASE ~(LockJob(w) \/ ReportSuccess(w) \/ ReportRetry(w) \/ ReportDead(w)
                \/ NoRetryDate(w) \/ CrashWorker(w))
    <3>0. ~\E k \in Jobs : CreateNext(w, k)
      BY DEF CreateNext, Go, AllNow
    <3>1. jobs' = jobs
      BY <1>1, <2>2, <3>0 DEF WorkerStep, Heartbeat, WorkerFault, StartWorker, Reserve,
         ReserveJob, PopJob, StoreReserved, StoreReservedFails, SkipJob, LockFails,
         Report, HandlerFails, ReportSuccessFails, ReportFailureFails, Recur,
         ScheduleNext, AbandonNext, NoMoreOccurrences, AckJob, AckFails, StopWorker,
         UpsertHeartbeat, MarkWorkerDead, storeVars
    <3>2. /\ \A v \in Workers : v # w => pc'[v] = pc[v] /\ held'[v] = held[v]
          /\ pc'[w] = "crashed" <=> pc[w] = "crashed"
          /\ \/ pc[w] \in {"running", "failed"} /\ pc'[w] \in {"running", "failed"}
                                               /\ held'[w] = held[w]
             \/ pc[w] \notin {"running", "failed"} /\ pc'[w] \notin {"running", "failed"}
      BY <1>0, <1>1, <2>2, <3>0 DEF WorkerStep, Heartbeat, WorkerFault,
         StartWorker, Reserve, ReserveJob, PopJob, StoreReserved, StoreReservedFails,
         SkipJob, LockFails, Report, HandlerFails, ReportSuccessFails,
         ReportFailureFails, Recur, ScheduleNext, AbandonNext, NoMoreOccurrences, AckJob,
         AckFails, StopWorker, Go, LetGo, workerVars
    <3>3. SameCrashed /\ SameWork
      BY <3>2 DEF SameCrashed, SameWork, Executing
    <3> QED BY <3>1, <3>3
  <2> QED BY <2>1, <2>2
<1>2. CASE UNCHANGED workerVars
  <2>1. SameCrashed /\ SameWork
    BY <1>2, StillWorkersWork DEF SameCrashed, workerVars
  <2>2. CASE SchedulerNext \/ ReaperNext
    BY <1>2, <2>1, <2>2, SweepersSweep DEF SweeperStatement, RowStep,
       MarkExpiredWorkersDead, storeVars
  <2>3. ASSUME NEW r \in Requests, FirstStep(r) \/ LaterStep(r) \/ AbortRequest(r)
        PROVE  RowStep \/ jobs' = jobs
    BY <1>2, <2>3 DEF FirstStep, LaterStep, AbortRequest, SelectLetter, SubmitJob,
       PurgeQueue, PurgeSchedule, EnqueueReplayed, RowStep, storeVars
  <2>4. CASE Time
    BY <1>2, <2>1, <2>4 DEF Time, RetryDue, StartDue, LockOverdue, HeartbeatOverdue,
       LockGoesStale, HeartbeatGoesLate, HeartbeatTurnsLate, RowStep
  <2>5. CASE UNCHANGED vars
    BY <2>1, <2>5 DEF vars, storeVars
  <2>6. CASE WorkerNext
    BY <1>1, <2>6 DEF WorkerNext
  <2> QED BY <2>1, <2>2, <2>3, <2>4, <2>5, <2>6 DEF Next, ApiNext
<1> QED
  BY <1>1, <1>2 DEF Next, WorkerNext, LeavesWorkers, Time, RetryDue, StartDue, LockOverdue,
     HeartbeatOverdue, LockGoesStale, HeartbeatGoesLate, vars

\* Where no client asks for a delay or a rule, no row ever has one.
LEMMA StaysNow ==
  ASSUME Starts \subseteq {"now"}, Rules \subseteq {FALSE}, "db" \notin Faults,
         TypeOK, AllNow, [Next]_vars
  PROVE  AllNow'
<1>0. /\ jobs \in [Jobs -> Row] /\ pc \in [Workers -> Locations]
      /\ \A j \in Jobs : jobs[j].start = "now" /\ ~jobs[j].recurring
  BY DEF TypeOK, StoreTypeOK, WorkerTypeOK, AllNow
<1>1. ASSUME NEW j \in Jobs
      PROVE  /\ \A t : /\ Unlocked(jobs[j], t).start = jobs[j].start
                       /\ Unlocked(jobs[j], t).recurring = jobs[j].recurring
             /\ \A w : /\ LockedRow(jobs[j], w).start = jobs[j].start
                       /\ LockedRow(jobs[j], w).recurring = jobs[j].recurring
             /\ RetryingRow(jobs[j]).start = jobs[j].start
             /\ RetryingRow(jobs[j]).recurring = jobs[j].recurring
             /\ ReplayedRow(jobs[j]).start = jobs[j].start
             /\ ReplayedRow(jobs[j]).recurring = jobs[j].recurring
  <2>1. jobs[j] \in Row
    BY <1>0
  <2> QED BY <2>1 DEF Unlocked, LockedRow, RetryingRow, ReplayedRow, Row
<1>2. ASSUME RowStep PROVE \A j \in Jobs : jobs'[j].start = "now" /\ ~jobs'[j].recurring
  <2>1. ASSUME NEW w \in Workers,
               LockJob(w) \/ ReportSuccess(w) \/ ReportRetry(w) \/ ReportDead(w)
        PROVE  \A j \in Jobs : jobs'[j].start = "now" /\ ~jobs'[j].recurring
    BY <1>0, <1>1, <2>1 DEF LockJob, ReportSuccess, ReportRetry, ReportDead, FetchAndLock,
       MarkSuccess, MarkRetrying, MoveToDeadLetter
  <2>2. ASSUME ReclaimDueRetries \/ ReclaimStaleJobs
        PROVE  \A j \in Jobs : jobs'[j].start = "now" /\ ~jobs'[j].recurring
    BY <1>0, <1>1, <2>2 DEF ReclaimDueRetries, ReclaimStaleJobs
  <2>3. ASSUME NEW r \in Requests, CommitReplay(r) \/ \E j \in Jobs : CancelJob(r, j)
        PROVE  \A j \in Jobs : jobs'[j].start = "now" /\ ~jobs'[j].recurring
    BY <1>0, <1>1, <2>3 DEF CommitReplay, CancelJob, ReplayRow, CancelRow
  <2>4. ASSUME NEW r \in Requests, NEW i \in Jobs, CreateJob(r, i)
        PROVE  \A j \in Jobs : jobs'[j].start = "now" /\ ~jobs'[j].recurring
    <3>1. PICK p \in Priorities, d \in Retriable :
                 jobs' = [jobs EXCEPT ![i] = NewRow(p, "now", FALSE, d)]
      BY <2>4 DEF CreateJob, InsertJob
    <3> QED BY <1>0, <3>1 DEF NewRow
  <2>5. ASSUME NEW i \in Jobs, RetryBecomesDue(i) \/ StartBecomesDue(i) \/ LockTurnsStale(i)
        PROVE  \A j \in Jobs : jobs'[j].start = "now" /\ ~jobs'[j].recurring
    <3>1. ~StartBecomesDue(i)
      BY <1>0 DEF StartBecomesDue
    <3> QED BY <1>0, <2>5, <3>1 DEF RetryBecomesDue, LockTurnsStale, Row
  <2> QED BY <1>2, <2>1, <2>2, <2>3, <2>4, <2>5 DEF RowStep
<1>3. \A j \in Jobs : jobs'[j].start = "now" /\ ~jobs'[j].recurring
  BY <1>0, <1>2, LifeSteps DEF NoRetryDate, CrashWorker, storeVars
<1>4. ASSUME NEW w \in Workers PROVE pc'[w] # "recurring"
  <2>1. pc[w] # "recurring"
    BY DEF AllNow
  <2>2. CASE WorkerNext
    <3>1. PICK v \in Workers : WorkerStep(v) \/ Heartbeat(v) \/ WorkerFault(v)
      BY <2>2 DEF WorkerNext
    <3>2. CASE ReportSuccess(v)
      <4>1. held[v] \in Jobs
        BY <3>2 DEF ReportSuccess, Go, TypeOK, WorkerTypeOK, Holding
      <4>2. ~jobs[held[v]].recurring
        BY <1>0, <4>1
      <4> QED BY <1>0, <2>1, <3>2, <4>2 DEF ReportSuccess, Go
    <3>3. CASE ~ReportSuccess(v)
      BY <1>0, <2>1, <3>1, <3>3 DEF WorkerStep, Heartbeat, WorkerFault, StartWorker,
         Reserve, ReserveJob, PopJob, StoreReserved, StoreReservedFails, LockJob, SkipJob,
         LockFails, Report, HandlerFails, ReportSuccessFails, ReportRetry, ReportDead,
         NoRetryDate, ReportFailureFails, Recur, CreateNext, ScheduleNext, AbandonNext,
         NoMoreOccurrences, AckJob, AckFails, StopWorker, CrashWorker, Go, LetGo,
         workerVars
    <3> QED BY <3>2, <3>3
  <2>3. CASE UNCHANGED workerVars
    BY <2>1, <2>3 DEF workerVars
  <2> QED
    BY <2>2, <2>3 DEF Next, LeavesWorkers, Time, RetryDue, StartDue, LockOverdue,
       HeartbeatOverdue, LockGoesStale, HeartbeatGoesLate, vars
<1> QED BY <1>3, <1>4 DEF AllNow

\* The invariant is inductive, beside LockInv.
LEMMA NextLife ==
  ASSUME Starts \subseteq {"now"}, Rules \subseteq {FALSE}, "db" \notin Faults,
         TypeOK, LockInv, LockInv', LifeInv, [Next]_vars
  PROVE  LifeInv'
<1>0. AnyStatement /\ \A j \in Jobs : RowEffect(j)
  BY EveryStepIsStatement, EffectOfStatement
<1>1. ASSUME NEW w \in Workers, NEW j \in Jobs, Executing(w, j)'
      PROVE  snap'[w] = jobs'[j].attempts
  <2>1. Status(j)' = "RUNNING"
    BY <1>1 DEF LockInv, LockProtects
  <2>2. CASE Executing(w, j) /\ snap'[w] = snap[w]
    <3>1. Status(j) = "RUNNING"
      BY <2>2 DEF LockInv, LockProtects
    <3> QED BY <1>0, <2>1, <2>2, <3>1, AttemptsStay DEF LifeInv, SnapFits
  <2>3. CASE LockJob(w) /\ held[w] = j
    BY <2>3 DEF LockJob, TypeOK, WorkerTypeOK
  <2> QED BY <1>1, <2>2, <2>3, ExecutionStarts
<1>2. FreshRows'
  BY <1>0, RowsLast DEF LifeInv, FreshRows, Status
<1> QED BY <1>1, <1>2, StaysNow DEF LifeInv, SnapFits

-----------------------------------------------------------------------------
(* The steps, as steps of JobLifecycle.                                    *)

\* The owner of a job is the worker that executes it.
LEMMA OwnerExecutes ==
  ASSUME LockInv, NEW j \in Jobs
  PROVE  /\ \A w \in Workers : Owner(j) = w <=> Executing(w, j)
         /\ (\A w \in Workers : ~Executing(w, j)) <=> Owner(j) = NoWorker
<1>1. \A w \in Workers : Executing(w, j) => jobs[j].lockedBy = w
  BY DEF LockInv, LockProtects
<1> QED BY <1>1, StoreAssumption DEF Owner, Attended

LEMMA OwnerExecutesAfter ==
  ASSUME LockInv', NEW j \in Jobs
  PROVE  /\ \A w \in Workers : Owner(j)' = w <=> Executing(w, j)'
         /\ (\A w \in Workers : ~Executing(w, j)') <=> Owner(j)' = NoWorker
<1>1. \A w \in Workers : Executing(w, j)' => jobs'[j].lockedBy = w
  BY DEF LockInv, LockProtects
<1> QED BY <1>1, StoreAssumption DEF Owner, Attended

\* It changes only where a worker starts or stops executing the job.
LEMMA OwnerStays ==
  ASSUME LockInv, LockInv', NEW j \in Jobs,
         \A w \in Workers : Executing(w, j)' <=> Executing(w, j)
  PROVE  Owner(j)' = Owner(j)
<1>1. CASE \E w \in Workers : Executing(w, j)
  BY <1>1, OwnerExecutes, OwnerExecutesAfter
<1>2. CASE \A w \in Workers : ~Executing(w, j)
  BY <1>2, OwnerExecutes, OwnerExecutesAfter
<1> QED BY <1>1, <1>2

\* Nobody owns a job that is not RUNNING, while the workers stand still.
LEMMA Unowned ==
  ASSUME LockInv, LockInv', SameWork, NEW j \in Jobs, Status(j) # "RUNNING"
  PROVE  Owner(j)' = NoWorker
<1>1. \A w \in Workers : ~Executing(w, j)'
  BY DEF LockInv, LockProtects, SameWork
<1> QED BY <1>1, OwnerExecutesAfter

\* A worker that goes on with the job it holds concerns no other job, and no
\* other worker.
LEMMA OneHolder ==
  ASSUME TypeOK, LockInv, LockInv', NEW w \in Workers, NEW j \in Jobs, held[w] = j,
         pc' = [pc EXCEPT ![w] = pc'[w]], held' = held
  PROVE  /\ \A i \in Jobs : i # j => Owner(i)' = Owner(i)
         /\ Executing(w, j) /\ ~Executing(w, j)' => Owner(j) = w /\ Owner(j)' = NoWorker
         /\ Executing(w, j)' => Owner(j)' = w
<1>1. \A v \in Workers, i \in Jobs :
         v # w \/ i # j => (Executing(v, i)' <=> Executing(v, i))
  BY DEF Executing, TypeOK, WorkerTypeOK
<1>2. \A v \in Workers : v # w /\ Executing(w, j) => ~Executing(v, j)
  BY DEF LockInv, LockProtects
<1>3. ASSUME NEW i \in Jobs, i # j PROVE Owner(i)' = Owner(i)
  BY <1>1, <1>3, OwnerStays
<1>4. ASSUME Executing(w, j), ~Executing(w, j)' PROVE Owner(j) = w /\ Owner(j)' = NoWorker
  <2>1. \A v \in Workers : ~Executing(v, j)'
    BY <1>1, <1>2, <1>4
  <2> QED BY <1>4, <2>1, OwnerExecutes, OwnerExecutesAfter
<1>5. Executing(w, j)' => Owner(j)' = w
  BY OwnerExecutesAfter
<1> QED BY <1>3, <1>4, <1>5

\* What JobLifecycle sees of a job.
SameLife(j) ==
  /\ jobs'[j].status = jobs[j].status
  /\ Owner(j)' = Owner(j)
  /\ jobs'[j].attempts = jobs[j].attempts
  /\ jobs'[j].retriable = jobs[j].retriable
  /\ Status(j) = "RETRYING" => jobs'[j].retryDue = jobs[j].retryDue

\* A step that changes none of it is no step in the life of a job.
LEMMA NothingHappens ==
  ASSUME \A j \in Jobs : SameLife(j), SameCrashed
  PROVE  UNCHANGED Lifecycle!lifeVars
<1>1. /\ [j \in Jobs |-> Status(j)]' = [j \in Jobs |-> Status(j)]
      /\ [j \in Jobs |-> Owner(j)]' = [j \in Jobs |-> Owner(j)]
      /\ [j \in Jobs |-> jobs[j].attempts]' = [j \in Jobs |-> jobs[j].attempts]
  BY DEF SameLife, Status
<1>2. /\ {j \in Jobs : Status(j) = "RETRYING" /\ jobs[j].retryDue}'
           = {j \in Jobs : Status(j) = "RETRYING" /\ jobs[j].retryDue}
      /\ {j \in Jobs : ~jobs[j].retriable}' = {j \in Jobs : ~jobs[j].retriable}
  BY DEF SameLife, Status
<1>3. {w \in Workers : pc[w] = "crashed"}' = {w \in Workers : pc[w] = "crashed"}
  BY DEF SameCrashed
<1> QED BY <1>1, <1>2, <1>3 DEF Lifecycle!lifeVars

\* So is one that changes no row, and after which the same workers execute
\* the same jobs.
LEMMA RowsStand ==
  ASSUME LockInv, LockInv', jobs' = jobs, SameCrashed, SameWork
  PROVE  UNCHANGED Lifecycle!lifeVars
<1>1. \A j \in Jobs : Owner(j)' = Owner(j)
  BY OwnerStays DEF SameWork
<1> QED BY <1>1, NothingHappens DEF SameLife

\* Jobs that leave a state and their owners.
Released(S, from, to) ==
  /\ S # {}
  /\ \A j \in S : Status(j) = from /\ Status(j)' = to /\ Owner(j)' = NoWorker
  /\ \A j \in Jobs \ S : SameLife(j)

LEMMA ReleasedRows ==
  ASSUME NEW S \in SUBSET Jobs, NEW from, NEW to, Released(S, from, to)
  PROVE  Lifecycle!Release(S, from, to)
<1>1. [j \in Jobs |-> Status(j)]'
        = [j \in Jobs |-> IF j \in S THEN to ELSE [i \in Jobs |-> Status(i)][j]]
  BY DEF Released, SameLife, Status
<1>2. [j \in Jobs |-> Owner(j)]'
        = [j \in Jobs |-> IF j \in S THEN NoWorker ELSE [i \in Jobs |-> Owner(i)][j]]
  BY DEF Released, SameLife
<1>3. \A j \in S : [i \in Jobs |-> Status(i)][j] = from
  BY DEF Released
<1> QED BY <1>1, <1>2, <1>3 DEF Lifecycle!Release, Released

\* The rest of the state stands still.
LEMMA RestStands ==
  ASSUME SameCrashed
  PROVE  /\ {w \in Workers : pc[w] = "crashed"}' = {w \in Workers : pc[w] = "crashed"}
         /\ (\A j \in Jobs : jobs'[j].attempts = jobs[j].attempts) =>
              [j \in Jobs |-> jobs[j].attempts]' = [j \in Jobs |-> jobs[j].attempts]
         /\ (\A j \in Jobs : (Status(j) = "RETRYING" /\ jobs[j].retryDue)'
                               <=> Status(j) = "RETRYING" /\ jobs[j].retryDue) =>
              {j \in Jobs : Status(j) = "RETRYING" /\ jobs[j].retryDue}'
                = {j \in Jobs : Status(j) = "RETRYING" /\ jobs[j].retryDue}
         /\ (\A j \in Jobs : jobs'[j].retriable = jobs[j].retriable) =>
              {j \in Jobs : ~jobs[j].retriable}' = {j \in Jobs : ~jobs[j].retriable}
BY DEF SameCrashed

\* The rows of S keep their attempts, and a retry begins with its delay.
Plain(S, to) ==
  \A j \in S : /\ jobs'[j].attempts = jobs[j].attempts
               /\ to = "RETRYING" => ~jobs'[j].retryDue

\* What such a release leaves alone.
Quiet ==
  /\ {w \in Workers : pc[w] = "crashed"}' = {w \in Workers : pc[w] = "crashed"}
  /\ [j \in Jobs |-> jobs[j].attempts]' = [j \in Jobs |-> jobs[j].attempts]
  /\ {j \in Jobs : Status(j) = "RETRYING" /\ jobs[j].retryDue}'
       = {j \in Jobs : Status(j) = "RETRYING" /\ jobs[j].retryDue}

\* Rows that are released, none of them from or to a retry that is due.
LEMMA QuietRelease ==
  ASSUME NEW S \in SUBSET Jobs, NEW from, NEW to, Released(S, from, to), SameCrashed,
         from # "RETRYING", Plain(S, to)
  PROVE  Lifecycle!Release(S, from, to) /\ Quiet
<1>1. \A j \in Jobs : jobs'[j].attempts = jobs[j].attempts
  BY DEF Released, SameLife, Plain
<1>2. \A j \in Jobs : (Status(j) = "RETRYING" /\ jobs[j].retryDue)'
                        <=> Status(j) = "RETRYING" /\ jobs[j].retryDue
  BY DEF Released, SameLife, Plain, Status
<1>3. Quiet
  BY <1>1, <1>2, RestStands DEF Quiet
<1> QED BY <1>3, ReleasedRows

\* A worker locks a PENDING row only: a reference to a RETRYING row would
\* contradict RefInv.
LEMMA LockLife ==
  ASSUME TypeOK, LockInv, LockInv', RefInv, AllNow, SameCrashed, NEW w \in Workers,
         LockJob(w)
  PROVE  Lifecycle!Evolve
<1>0. /\ jobs \in [Jobs -> Row] /\ held[w] \in Jobs /\ pc[w] = "reserved"
      /\ jobs' = [jobs EXCEPT ![held[w]] = LockedRow(jobs[held[w]], w)]
      /\ Lockable(held[w])
  BY DEF TypeOK, StoreTypeOK, WorkerTypeOK, Holding, LockJob, Go, FetchAndLock
<1> PICK j \in Jobs : j = held[w]
  BY <1>0
<1>1. Status(j) = "PENDING"
  <2>1. Has("worker", w, j) /\ "worker" \in Kinds /\ w \in Places
    BY <1>0 DEF Has, Carries, Kinds, Places
  <2>2. Fits(j)
    BY DEF RefInv, NotDelayed, AllNow
  <2>3. ~Executing(w, j)
    BY <1>0 DEF Executing
  <2> QED BY <1>0, <2>1, <2>2, <2>3 DEF Fits, Referred, Lockable
<1>2. /\ jobs'[j].status = "RUNNING" /\ jobs'[j].attempts = jobs[j].attempts + 1
      /\ jobs'[j].retriable = jobs[j].retriable
      /\ \A k \in Jobs : k # j => jobs'[k] = jobs[k]
  <2>1. jobs[j] \in Row
    BY <1>0
  <2>2. jobs'[j] = LockedRow(jobs[j], w)
    BY <1>0
  <2> QED BY <1>0, <2>1, <2>2 DEF LockedRow, Row
<1>3. w \notin {v \in Workers : pc[v] = "crashed"}
  BY <1>0
<1>30. Owner(j)' = w /\ \A i \in Jobs : i # j => Owner(i)' = Owner(i)
  <2>1. pc' = [pc EXCEPT ![w] = pc'[w]] /\ held' = held /\ Executing(w, j)'
    BY <1>0 DEF LockJob, Go, Executing, TypeOK, WorkerTypeOK
  <2> QED BY <2>1, OneHolder
<1>4. /\ [i \in Jobs |-> Status(i)]'
           = [[i \in Jobs |-> Status(i)] EXCEPT ![j] = "RUNNING"]
      /\ [i \in Jobs |-> Owner(i)]' = [[i \in Jobs |-> Owner(i)] EXCEPT ![j] = w]
      /\ [i \in Jobs |-> jobs[i].attempts]'
           = [[i \in Jobs |-> jobs[i].attempts] EXCEPT ![j] = @ + 1]
  BY <1>2, <1>30 DEF Status
<1>50. {i \in Jobs : ~jobs[i].retriable}' = {i \in Jobs : ~jobs[i].retriable}
  BY <1>2
<1>5. {i \in Jobs : Status(i) = "RETRYING" /\ jobs[i].retryDue}'
        = {i \in Jobs : Status(i) = "RETRYING" /\ jobs[i].retryDue}
  BY <1>1, <1>2 DEF Status
<1>6. Lifecycle!Take(j, w)
  BY <1>1, <1>3, <1>4, <1>5, <1>50, RestStands DEF Lifecycle!Take
<1> QED BY <1>6 DEF Lifecycle!Evolve

\* Whoever reports owns the lock, and decides by the attempts of the row.
LEMMA ReportLife ==
  ASSUME TypeOK, LockInv, LockInv', SnapFits, SameCrashed, NEW w \in Workers,
         ReportSuccess(w) \/ ReportRetry(w) \/ ReportDead(w)
  PROVE  Lifecycle!Evolve
<1>0. /\ jobs \in [Jobs -> Row] /\ held[w] \in Jobs /\ pc[w] \in {"running", "failed"}
  BY DEF TypeOK, StoreTypeOK, WorkerTypeOK, Holding, ReportSuccess, ReportRetry,
     ReportDead, Go
<1> PICK j \in Jobs : j = held[w]
  BY <1>0
<1>1. /\ Status(j) = "RUNNING" /\ snap[w] = jobs[j].attempts
      /\ Owner(j) = w /\ Owner(j)' = NoWorker /\ \A i \in Jobs : i # j => Owner(i)' = Owner(i)
  <2>1. Executing(w, j)
    BY <1>0 DEF Executing
  <2>2. pc' = [pc EXCEPT ![w] = pc'[w]] /\ held' = held /\ ~Executing(w, j)'
    BY <1>0 DEF ReportSuccess, ReportRetry, ReportDead, Go, Executing, TypeOK, WorkerTypeOK
  <2> QED BY <2>1, <2>2, OneHolder DEF LockInv, LockProtects, SnapFits
<1>2. /\ \A s : /\ Unlocked(jobs[j], s).status = s
                /\ Unlocked(jobs[j], s).retriable = jobs[j].retriable
                /\ Unlocked(jobs[j], s).attempts = jobs[j].attempts
      /\ RetryingRow(jobs[j]).status = "RETRYING"
      /\ RetryingRow(jobs[j]).retriable = jobs[j].retriable
      /\ RetryingRow(jobs[j]).attempts = jobs[j].attempts
      /\ RetryingRow(jobs[j]).retryDue = FALSE
  <2>1. jobs[j] \in Row
    BY <1>0
  <2> QED BY <2>1 DEF Unlocked, RetryingRow, Row
<1>3. /\ [i \in Jobs |-> Owner(i)][j] # NoWorker
      /\ [i \in Jobs |-> jobs[i].attempts][j] = jobs[j].attempts
  BY <1>1, StoreAssumption
<1>4. ASSUME NEW to, jobs'[j].status = to, jobs'[j].retriable = jobs[j].retriable,
             jobs'[j].attempts = jobs[j].attempts, to = "RETRYING" => ~jobs'[j].retryDue,
             \A k \in Jobs : k # j => jobs'[k] = jobs[k],
             \/ to = "SUCCESS"
             \/ to = "RETRYING" /\ jobs[j].attempts < MaxAttempts
             \/ to = "DEAD_LETTER" /\ jobs[j].attempts >= MaxAttempts
      PROVE  Lifecycle!Evolve
  <2>1. Released({j}, "RUNNING", to)
    BY <1>1, <1>4 DEF Released, SameLife, Status
  <2>2. {j} \in SUBSET Jobs /\ Plain({j}, to)
    BY <1>4 DEF Plain
  <2>3. Lifecycle!Release({j}, "RUNNING", to) /\ Quiet
    BY <2>1, <2>2, QuietRelease
  <2>4. {i \in Jobs : ~jobs[i].retriable}' = {i \in Jobs : ~jobs[i].retriable}
    BY <1>4
  <2>5. Lifecycle!Report(j)
    BY <1>3, <1>4, <2>3, <2>4 DEF Lifecycle!Report, Quiet
  <2> QED BY <2>5 DEF Lifecycle!Evolve
<1>5. CASE ReportSuccess(w)
  <2>1. jobs' = [jobs EXCEPT ![j] = Unlocked(jobs[j], "SUCCESS")]
    BY <1>5 DEF ReportSuccess, MarkSuccess
  <2>2. jobs'[j] = Unlocked(jobs[j], "SUCCESS") /\ \A k \in Jobs : k # j => jobs'[k] = jobs[k]
    BY <1>0, <2>1
  <2> QED BY <1>2, <1>4, <2>2
<1>6. CASE ReportRetry(w)
  <2>1. jobs' = [jobs EXCEPT ![j] = RetryingRow(jobs[j])] /\ snap[w] < MaxAttempts
    BY <1>6 DEF ReportRetry, MarkRetrying
  <2>2. jobs'[j] = RetryingRow(jobs[j]) /\ \A k \in Jobs : k # j => jobs'[k] = jobs[k]
    BY <1>0, <2>1
  <2> QED BY <1>1, <1>2, <1>4, <2>1, <2>2
<1>7. CASE ReportDead(w)
  <2>1. jobs' = [jobs EXCEPT ![j] = Unlocked(jobs[j], "DEAD_LETTER")] /\ snap[w] >= MaxAttempts
    BY <1>7 DEF ReportDead, MoveToDeadLetter
  <2>2. jobs'[j] = Unlocked(jobs[j], "DEAD_LETTER") /\ \A k \in Jobs : k # j => jobs'[k] = jobs[k]
    BY <1>0, <2>1
  <2> QED BY <1>1, <1>2, <1>4, <2>1, <2>2
<1> QED BY <1>5, <1>6, <1>7

\* A worker lets go of a failed job without a report where it cannot compute
\* the delay.
LEMMA GiveUpLife ==
  ASSUME TypeOK, LockInv, LockInv', SnapFits, NEW w \in Workers, NoRetryDate(w)
  PROVE  Lifecycle!Evolve
<1>0. /\ pc \in [Workers -> Locations] /\ held[w] \in Jobs /\ pc[w] = "failed"
      /\ pc' = [pc EXCEPT ![w] = "acking"] /\ held' = held /\ jobs' = jobs
      /\ snap[w] < MaxAttempts /\ ~jobs[held[w]].retriable
  BY DEF TypeOK, WorkerTypeOK, Holding, NoRetryDate, Go, storeVars
<1> PICK j \in Jobs : j = held[w]
  BY <1>0
<1>1. /\ Executing(w, j) /\ ~Executing(w, j)'
      /\ pc' = [pc EXCEPT ![w] = pc'[w]]
  BY <1>0 DEF Executing
<1>2. /\ Owner(j) = w /\ Owner(j)' = NoWorker /\ snap[w] = jobs[j].attempts
      /\ \A i \in Jobs : i # j => Owner(i)' = Owner(i)
  BY <1>0, <1>1, OneHolder DEF SnapFits
<1>3. SameCrashed
  BY <1>0 DEF SameCrashed
<1>4. /\ [i \in Jobs |-> Owner(i)][j] # NoWorker
      /\ [i \in Jobs |-> jobs[i].attempts][j] < MaxAttempts
      /\ j \in {i \in Jobs : ~jobs[i].retriable}
      /\ [i \in Jobs |-> Owner(i)]' = [[i \in Jobs |-> Owner(i)] EXCEPT ![j] = NoWorker]
  BY <1>0, <1>2, StoreAssumption
<1>5. /\ [i \in Jobs |-> Status(i)]' = [i \in Jobs |-> Status(i)]
      /\ {i \in Jobs : Status(i) = "RETRYING" /\ jobs[i].retryDue}'
           = {i \in Jobs : Status(i) = "RETRYING" /\ jobs[i].retryDue}
      /\ [i \in Jobs |-> jobs[i].attempts]' = [i \in Jobs |-> jobs[i].attempts]
      /\ {i \in Jobs : ~jobs[i].retriable}' = {i \in Jobs : ~jobs[i].retriable}
  BY <1>0 DEF Status
<1>6. Lifecycle!GiveUp(j)
  BY <1>3, <1>4, <1>5, RestStands DEF Lifecycle!GiveUp
<1> QED BY <1>6 DEF Lifecycle!Evolve

\* A worker that crashes leaves the job it was executing.
LEMMA CrashLife ==
  ASSUME TypeOK, LockInv, LockInv', NEW w \in Workers, CrashWorker(w)
  PROVE  Lifecycle!Evolve
<1>0. /\ jobs' = jobs
      /\ pc \in [Workers -> Locations] /\ held \in [Workers -> Jobs \cup {NoJob}]
      /\ pc' = [pc EXCEPT ![w] = "crashed"]
      /\ \A v \in Workers : v # w => held'[v] = held[v]
  BY DEF CrashWorker, LetGo, storeVars, TypeOK, WorkerTypeOK
<1>1. /\ \A j \in Jobs : ~Executing(w, j)'
      /\ \A v \in Workers, j \in Jobs : v # w => (Executing(v, j)' <=> Executing(v, j))
  BY <1>0 DEF Executing
<1>2. ASSUME NEW j \in Jobs
      PROVE  Owner(j)' = IF Owner(j) = w THEN NoWorker ELSE Owner(j)
  <2>1. CASE Executing(w, j)
    <3>1. \A v \in Workers : ~Executing(v, j)'
      BY <1>1, <2>1 DEF LockInv, LockProtects
    <3> QED BY <2>1, <3>1, OwnerExecutes, OwnerExecutesAfter
  <2>2. CASE ~Executing(w, j)
    BY <1>1, <2>2, OwnerExecutes, OwnerStays
  <2> QED BY <2>1, <2>2
<1>3. {v \in Workers : pc[v] = "crashed"}' = {v \in Workers : pc[v] = "crashed"} \cup {w}
  BY <1>0
<1>4. [i \in Jobs |-> Owner(i)]'
        = [i \in Jobs |-> IF [k \in Jobs |-> Owner(k)][i] = w THEN NoWorker
                          ELSE [k \in Jobs |-> Owner(k)][i]]
  BY <1>2
<1>5. /\ [i \in Jobs |-> Status(i)]' = [i \in Jobs |-> Status(i)]
      /\ [i \in Jobs |-> jobs[i].attempts]' = [i \in Jobs |-> jobs[i].attempts]
      /\ {i \in Jobs : Status(i) = "RETRYING" /\ jobs[i].retryDue}'
           = {i \in Jobs : Status(i) = "RETRYING" /\ jobs[i].retryDue}
      /\ {i \in Jobs : ~jobs[i].retriable}' = {i \in Jobs : ~jobs[i].retriable}
  BY <1>0 DEF Status
<1>6. Lifecycle!Crash(w)
  BY <1>3, <1>4, <1>5 DEF Lifecycle!Crash
<1> QED BY <1>6 DEF Lifecycle!Evolve

\* The sweeps: a retry is promoted when its delay has passed, and a job is
\* taken back when nobody executes it, because no other lock is stale.
LEMMA SweepLife ==
  ASSUME TypeOK, LockInv, LockInv', SameCrashed, SameWork,
         ReclaimDueRetries \/ ReclaimStaleJobs
  PROVE  Lifecycle!Evolve \/ UNCHANGED Lifecycle!lifeVars
<1>0. jobs \in [Jobs -> Row]
  BY DEF TypeOK, StoreTypeOK
<1>1. ASSUME NEW j \in Jobs
      PROVE  /\ Unlocked(jobs[j], "PENDING").status = "PENDING"
             /\ Unlocked(jobs[j], "PENDING").retriable = jobs[j].retriable
             /\ Unlocked(jobs[j], "PENDING").attempts = jobs[j].attempts
  <2>1. jobs[j] \in Row
    BY <1>0
  <2> QED BY <2>1 DEF Unlocked, Row
<1>10. \A j \in Jobs : Owner(j)' = Owner(j)
  BY OwnerStays DEF SameWork
<1>2. CASE ReclaimDueRetries
  <2>1. /\ \A j \in DueRetries : jobs'[j] = Unlocked(jobs[j], "PENDING")
        /\ \A j \in Jobs \ DueRetries : jobs'[j] = jobs[j]
        /\ DueRetries \in SUBSET Jobs
    BY <1>2 DEF ReclaimDueRetries, DueRetries
  <2>2. CASE DueRetries = {}
    BY <1>10, <2>1, <2>2, NothingHappens DEF SameLife
  <2>3. CASE DueRetries # {}
    <3>0. PICK S \in SUBSET Jobs : S = DueRetries
      BY <2>1
    <3> USE <3>0
    <3>01. \A j \in S : Owner(j)' = NoWorker
      BY Unowned DEF DueRetries
    <3>1. Released(S, "RETRYING", "PENDING")
      BY <1>1, <1>10, <2>1, <2>3, <3>01 DEF Released, SameLife, DueRetries, Status
    <3>2. Lifecycle!Release(S, "RETRYING", "PENDING")
      BY <2>1, <3>1, ReleasedRows
    <3>3. \A j \in Jobs : /\ jobs'[j].attempts = jobs[j].attempts
                          /\ jobs'[j].retriable = jobs[j].retriable
      BY <1>1, <2>1
    <3>4. {j \in Jobs : Status(j) = "RETRYING" /\ jobs[j].retryDue}'
            = {j \in Jobs : Status(j) = "RETRYING" /\ jobs[j].retryDue} \ S
      BY <1>1, <2>1 DEF Status, DueRetries
    <3>5. S \subseteq {j \in Jobs : Status(j) = "RETRYING" /\ jobs[j].retryDue}
      BY DEF DueRetries
    <3>6. Lifecycle!Promote(S)
      BY <3>2, <3>3, <3>4, <3>5, RestStands DEF Lifecycle!Promote
    <3> QED BY <3>6 DEF Lifecycle!Evolve
  <2> QED BY <2>2, <2>3
<1>3. CASE ReclaimStaleJobs
  <2>1. /\ \A j \in StaleJobs : jobs'[j] = Unlocked(jobs[j], "PENDING")
        /\ \A j \in Jobs \ StaleJobs : jobs'[j] = jobs[j]
        /\ StaleJobs \in SUBSET Jobs
    BY <1>3 DEF ReclaimStaleJobs, StaleJobs
  <2>2. CASE StaleJobs = {}
    BY <1>10, <2>1, <2>2, NothingHappens DEF SameLife
  <2>3. CASE StaleJobs # {}
    <3>0. PICK S \in SUBSET Jobs : S = StaleJobs
      BY <2>1
    <3> USE <3>0
    <3>01. \A j \in S : Owner(j) = NoWorker
      BY OwnerExecutes, StaleIsUnattended DEF StaleJobs
    <3>1. Released(S, "RUNNING", "PENDING")
      BY <1>1, <1>10, <2>1, <2>3, <3>01 DEF Released, SameLife, StaleJobs, Status
    <3>2. Plain(S, "PENDING")
      BY <1>1, <2>1 DEF Plain
    <3>3. "RUNNING" # "RETRYING"
      OBVIOUS
    <3>4. Lifecycle!Release(S, "RUNNING", "PENDING") /\ Quiet
      BY <2>1, <3>1, <3>2, <3>3, QuietRelease
    <3>5. \A j \in S : [i \in Jobs |-> Owner(i)][j] = NoWorker
      BY <2>1, <3>01
    <3>50. \A j \in Jobs : jobs'[j].retriable = jobs[j].retriable
      BY <1>1, <2>1
    <3>6. Lifecycle!Reclaim(S)
      BY <3>4, <3>5, <3>50, RestStands DEF Lifecycle!Reclaim, Quiet
    <3> QED BY <3>6 DEF Lifecycle!Evolve
  <2> QED BY <2>2, <2>3
<1> QED BY <1>2, <1>3

\* The requests: an id is used once, a cancel looks at the status, and a replay
\* meets a job in DEAD_LETTER.
LEMMA RequestLife ==
  ASSUME TypeOK, LockInv, LockInv', FreshRows, SameCrashed, SameWork, NEW r \in Requests,
         CommitReplay(r) \/ \E j \in Jobs : CreateJob(r, j) \/ CancelJob(r, j)
  PROVE  Lifecycle!Evolve \/ UNCHANGED Lifecycle!lifeVars
<1>0. jobs \in [Jobs -> Row]
  BY DEF TypeOK, StoreTypeOK
<1>0a. \A j \in Jobs : /\ Owner(j)' = Owner(j)
                       /\ Status(j) # "RUNNING" => Owner(j)' = NoWorker
  BY OwnerStays, Unowned DEF SameWork
<1>1. ASSUME NEW j \in Jobs, NEW from, NEW to, from \notin {"RETRYING", "RUNNING"},
             to # "RETRYING", Status(j) = from, Status(j)' = to,
             jobs'[j].attempts = jobs[j].attempts,
             \A k \in Jobs : k # j => jobs'[k] = jobs[k]
      PROVE  Lifecycle!Release({j}, from, to) /\ Quiet
  <2>1. Released({j}, from, to) /\ Plain({j}, to) /\ {j} \in SUBSET Jobs
    BY <1>0a, <1>1 DEF Released, Plain, SameLife
  <2>2. from # "RETRYING"
    BY <1>1
  <2> QED BY <2>1, <2>2, QuietRelease
<1>2. ASSUME NEW j \in Jobs, CreateJob(r, j) PROVE Lifecycle!Evolve
  <2>1. PICK p \in Priorities, s \in Starts, c \in Rules, d \in Retriable :
               j \in Fresh /\ jobs' = [jobs EXCEPT ![j] = NewRow(p, s, c, d)]
    BY <1>2 DEF CreateJob, InsertJob
  <2>2. /\ Status(j) = "ABSENT" /\ Status(j)' = "PENDING"
        /\ jobs'[j].attempts = jobs[j].attempts
        /\ \A k \in Jobs : k # j => jobs'[k] = jobs[k]
    BY <1>0, <2>1 DEF Fresh, FreshRows, NewRow, Status
  <2>3. Lifecycle!Release({j}, "ABSENT", "PENDING") /\ Quiet
    BY <1>1, <2>2
  <2>4. {i \in Jobs : ~jobs[i].retriable}'
           \in {{i \in Jobs : ~jobs[i].retriable}, {i \in Jobs : ~jobs[i].retriable} \cup {j}}
    <3>1. ASSUME jobs'[j].retriable
          PROVE  {i \in Jobs : ~jobs[i].retriable}' = {i \in Jobs : ~jobs[i].retriable}
      BY <2>2, <3>1 DEF FreshRows
    <3>2. ASSUME ~jobs'[j].retriable
          PROVE  {i \in Jobs : ~jobs[i].retriable}'
                   = {i \in Jobs : ~jobs[i].retriable} \cup {j}
      BY <2>2, <3>2
    <3> QED BY <3>1, <3>2
  <2>5. Lifecycle!Submit(j)
    BY <2>3, <2>4 DEF Lifecycle!Submit, Quiet
  <2> QED BY <2>5 DEF Lifecycle!Evolve
<1>3. ASSUME NEW j \in Jobs, CancelJob(r, j)
      PROVE  Lifecycle!Evolve \/ UNCHANGED Lifecycle!lifeVars
  <2>1. CASE Status(j) # "PENDING"
    <3>1. jobs' = jobs
      BY <1>3, <2>1 DEF CancelJob, CancelRow
    <3> QED BY <3>1, RowsStand
  <2>2. CASE Status(j) = "PENDING"
    <3>1. jobs' = [jobs EXCEPT ![j] = Unlocked(jobs[j], "FAILED")] /\ jobs[j] \in Row
      BY <1>0, <1>3, <2>2 DEF CancelJob, CancelRow
    <3>2. /\ Unlocked(jobs[j], "FAILED").status = "FAILED"
          /\ Unlocked(jobs[j], "FAILED").retriable = jobs[j].retriable
          /\ Unlocked(jobs[j], "FAILED").attempts = jobs[j].attempts
      BY <3>1 DEF Unlocked, Row
    <3>3. /\ Status(j)' = "FAILED" /\ jobs'[j].retriable = jobs[j].retriable
          /\ jobs'[j].attempts = jobs[j].attempts
          /\ \A k \in Jobs : k # j => jobs'[k] = jobs[k]
      BY <1>0, <3>1, <3>2 DEF Status
    <3>4. Lifecycle!Release({j}, "PENDING", "FAILED") /\ Quiet
      BY <1>1, <2>2, <3>3
    <3>5. Lifecycle!Cancel(j)
      BY <3>3, <3>4, RestStands DEF Lifecycle!Cancel, Quiet
    <3> QED BY <3>5 DEF Lifecycle!Evolve
  <2> QED BY <2>1, <2>2
<1>4. ASSUME CommitReplay(r) PROVE Lifecycle!Evolve
  <2>1. /\ target[r] \in Jobs /\ letter[r] \in Nat /\ apc[r] = "selected"
        /\ jobs' = [jobs EXCEPT ![target[r]] = ReplayedRow(jobs[target[r]])]
    BY <1>4 DEF CommitReplay, Move, ReplayRow, TypeOK, ApiTypeOK
  <2> PICK j \in Jobs : j = target[r]
    BY <2>1
  <2>2. Status(j) = "DEAD_LETTER"
    BY <2>1 DEF LockInv, SelectedIsThere, LettersFit
  <2>3. /\ ReplayedRow(jobs[j]).status = "PENDING"
        /\ ReplayedRow(jobs[j]).retriable = jobs[j].retriable
        /\ ReplayedRow(jobs[j]).attempts = 0
    <3>1. jobs[j] \in Row
      BY <1>0
    <3> QED BY <3>1 DEF ReplayedRow, Unlocked, Row
  <2>4. /\ Status(j)' = "PENDING" /\ jobs'[j].attempts = 0
        /\ jobs'[j].retriable = jobs[j].retriable
        /\ \A k \in Jobs : k # j => jobs'[k] = jobs[k]
    BY <1>0, <2>1, <2>3 DEF Status
  <2>5. Released({j}, "DEAD_LETTER", "PENDING") /\ {j} \in SUBSET Jobs
    BY <1>0a, <2>2, <2>4 DEF Released, SameLife
  <2>6. Lifecycle!Release({j}, "DEAD_LETTER", "PENDING")
    BY <2>5, ReleasedRows
  <2>7. /\ [i \in Jobs |-> jobs[i].attempts]'
             = [[i \in Jobs |-> jobs[i].attempts] EXCEPT ![j] = 0]
        /\ {i \in Jobs : Status(i) = "RETRYING" /\ jobs[i].retryDue}'
             = {i \in Jobs : Status(i) = "RETRYING" /\ jobs[i].retryDue}
        /\ {i \in Jobs : ~jobs[i].retriable}' = {i \in Jobs : ~jobs[i].retriable}
    BY <2>2, <2>4 DEF Status
  <2>8. Lifecycle!Replay(j)
    BY <2>6, <2>7, RestStands DEF Lifecycle!Replay
  <2> QED BY <2>8 DEF Lifecycle!Evolve
<1> QED BY <1>2, <1>3, <1>4

\* The clocks: only the end of a delay matters to a job.
LEMMA TimeLife ==
  ASSUME TypeOK, LockInv, LockInv', AllNow, SameCrashed, SameWork, NEW j \in Jobs,
         RetryBecomesDue(j) \/ StartBecomesDue(j) \/ LockTurnsStale(j)
  PROVE  Lifecycle!Evolve \/ UNCHANGED Lifecycle!lifeVars
<1>0. jobs \in [Jobs -> Row] /\ jobs[j] \in Row /\ ~StartBecomesDue(j)
  BY DEF TypeOK, StoreTypeOK, StartBecomesDue, AllNow
<1>10. \A k \in Jobs : Owner(k)' = Owner(k)
  BY OwnerStays DEF SameWork
<1>1. CASE LockTurnsStale(j)
  <2>1. \A k \in Jobs : SameLife(k)
    BY <1>0, <1>1, <1>10 DEF LockTurnsStale, SameLife, Row
  <2> QED BY <2>1, NothingHappens
<1>2. CASE RetryBecomesDue(j)
  <2>1. /\ Status(j) = "RETRYING" /\ ~jobs[j].retryDue /\ jobs'[j].retryDue
        /\ \A k \in Jobs : /\ Status(k)' = Status(k)
                           /\ jobs'[k].retriable = jobs[k].retriable
                           /\ jobs'[k].attempts = jobs[k].attempts
                           /\ k # j => jobs'[k] = jobs[k]
    BY <1>0, <1>2 DEF RetryBecomesDue, Status, Row
  <2>2. /\ [i \in Jobs |-> Status(i)]' = [i \in Jobs |-> Status(i)]
        /\ [i \in Jobs |-> Status(i)][j] = "RETRYING"
        /\ [i \in Jobs |-> Owner(i)]' = [i \in Jobs |-> Owner(i)]
        /\ [i \in Jobs |-> jobs[i].attempts]' = [i \in Jobs |-> jobs[i].attempts]
        /\ {i \in Jobs : ~jobs[i].retriable}' = {i \in Jobs : ~jobs[i].retriable}
    BY <1>10, <2>1
  <2>3. /\ j \notin {i \in Jobs : Status(i) = "RETRYING" /\ jobs[i].retryDue}
        /\ {i \in Jobs : Status(i) = "RETRYING" /\ jobs[i].retryDue}'
             = {i \in Jobs : Status(i) = "RETRYING" /\ jobs[i].retryDue} \cup {j}
    BY <2>1
  <2>4. Lifecycle!DelayPasses(j)
    BY <2>2, <2>3, RestStands DEF Lifecycle!DelayPasses
  <2> QED BY <2>4 DEF Lifecycle!Evolve
<1> QED BY <1>0, <1>1, <1>2

\* Every step is a step in the life of a job, or none.
LEMMA LifeStep ==
  ASSUME "db" \notin Faults, TypeOK, LockInv, LockInv', RefInv, LifeInv, [Next]_vars
  PROVE  [Lifecycle!Evolve]_(Lifecycle!lifeVars)
<1>1. CASE jobs' = jobs /\ SameCrashed /\ SameWork
  BY <1>1, RowsStand
<1>2. ASSUME NEW w \in Workers, NoRetryDate(w) \/ CrashWorker(w)
      PROVE  Lifecycle!Evolve
  BY <1>2, GiveUpLife, CrashLife DEF LifeInv
<1>3. ASSUME RowStep, SameCrashed
      PROVE  Lifecycle!Evolve \/ UNCHANGED Lifecycle!lifeVars
  BY <1>3, LockLife, ReportLife, SweepLife, RequestLife, TimeLife, StillWorkersWork
     DEF RowStep, LifeInv
<1> QED BY <1>1, <1>2, <1>3, LifeSteps DEF LifeInv

\* While no timeout expires under a live worker, PostgreSQL answers, there is
\* one replay at most, and clients ask for no date and no rule, the system
\* implements the life of a job that JobLifecycle describes: for every number
\* of jobs, workers and requests, with the scheduler and the standalone reaper,
\* processes that crash, payloads whose delay cannot be computed, requests that
\* break off and a Redis that fails.
THEOREM LifecycleFollowed ==
  ASSUME ~Overrun, "db" \notin Faults, \A q, s \in Replayers : q = s,
         Starts \subseteq {"now"}, Rules \subseteq {FALSE}
  PROVE  Spec => FollowsLifecycle
<1>1. ASSUME Init PROVE LifeInv /\ Lifecycle!Start
  <2>1. \A j \in Jobs : /\ Status(j) = "ABSENT" /\ jobs[j].lockedBy = NoWorker
                        /\ jobs[j].attempts = 0 /\ jobs[j].start = "now" /\ ~jobs[j].recurring
                        /\ jobs[j].retriable
    BY <1>1 DEF Init, StoreInit, Status, AbsentRow, NewRow
  <2>2. \A w \in Workers : pc[w] = "off"
    BY <1>1 DEF Init, WorkerInit
  <2>3. LifeInv
    BY <2>1, <2>2 DEF LifeInv, SnapFits, FreshRows, AllNow, Executing
  <2>4. \A j \in Jobs : Owner(j) = NoWorker
    BY <2>2 DEF Owner, Attended, Executing
  <2> QED BY <2>1, <2>2, <2>3, <2>4 DEF Lifecycle!Start
<1>2. TypeOK /\ LockInv /\ LockInv' /\ LifeInv /\ [Next]_vars => LifeInv'
  BY NextLife
<1>3. TypeOK /\ LockInv /\ LockInv' /\ RefInv /\ LifeInv /\ [Next]_vars
        => [Lifecycle!Evolve]_(Lifecycle!lifeVars)
  BY LifeStep
<1> QED BY <1>1, <1>2, <1>3, LockInvariant, ReferenceInvariant, PTL
        DEF Spec, FollowsLifecycle, Lifecycle!Spec

-----------------------------------------------------------------------------
(* The attempts of a row, with every fault, timeouts that expire under     *)
(* live workers and any number of replays.  A row is locked again as often *)
(* as somebody makes it lockable again, so the invariant counts, beside    *)
(* the attempts, the chances of another one: the row that can be locked,   *)
(* and each worker that may still ask for a retry.  Only a reclaim and a   *)
(* replay add a chance.                                                    *)

\* The workers that would report a failure as a retry.
Entitled(j) == {w \in Workers : Executing(w, j) /\ snap[w] < MaxAttempts}

Chances(j) == Cardinality(Entitled(j)) + (IF Lockable(j) THEN 1 ELSE 0)
Grants(j) == reclaims[j] + Cardinality(ReplaysFor(j))

AttemptsFit(j) ==
  /\ IsFiniteSet(Entitled(j)) /\ IsFiniteSet(ReplaysFor(j))
  /\ Chances(j) <= 1 + Grants(j)
  /\ jobs[j].attempts + Chances(j) <= MaxAttempts + Grants(j)
  /\ Status(j) = "ABSENT" => jobs[j].attempts = 0 /\ Entitled(j) = {}

\* The row of j after a step.
Becomes(j, attempts, reclaimed) ==
  /\ jobs'[j].attempts = attempts
  /\ reclaims'[j] = reclaimed
  /\ Status(j)' # "ABSENT"

\* A step that neither starts the job nor makes it lockable.
NoChance(j) ==
  /\ jobs'[j].attempts = jobs[j].attempts
  /\ reclaims'[j] = reclaims[j]
  /\ Lockable(j)' => Lockable(j)
  /\ Status(j)' = "ABSENT" => Status(j) = "ABSENT"

Started(j) == Lockable(j) /\ ~Lockable(j)' /\ Becomes(j, jobs[j].attempts + 1, reclaims[j])

\* What the steps of a worker do to the row.
LEMMA WorkerChances ==
  ASSUME TypeOK, NEW w \in Workers, WorkerStep(w) \/ Heartbeat(w) \/ WorkerFault(w),
         NEW j \in Jobs
  PROVE  \/ NoChance(j)
         \/ Started(j) /\ ((LockJob(w) /\ held[w] = j) \/ LockFails(w))
         \/ Becomes(j, jobs[j].attempts, reclaims[j]) /\ ReportRetry(w) /\ held[w] = j
         \/ Becomes(j, 0, reclaims[j]) /\ Status(j) = "ABSENT"
<1>0. /\ jobs \in [Jobs -> Row] /\ jobs[j] \in Row
      /\ Holding(w) => held[w] \in Jobs
  BY DEF TypeOK, StoreTypeOK, WorkerTypeOK
<1>1. /\ \A v : /\ LockedRow(jobs[j], v).attempts = jobs[j].attempts + 1
                /\ LockedRow(jobs[j], v).status = "RUNNING"
      /\ \A s : /\ Unlocked(jobs[j], s).attempts = jobs[j].attempts
                /\ Unlocked(jobs[j], s).status = s
      /\ RetryingRow(jobs[j]).attempts = jobs[j].attempts
      /\ RetryingRow(jobs[j]).status = "RETRYING"
  BY <1>0 DEF LockedRow, Unlocked, RetryingRow, Row
<1>2. ASSUME jobs'[j] = jobs[j], reclaims' = reclaims PROVE NoChance(j)
  BY <1>2 DEF NoChance, Lockable, Status
<1>3. ASSUME NEW k \in Jobs, FetchAndLock(k, w)
      PROVE  NoChance(j) \/ (Started(j) /\ k = j)
  <2>1. CASE k = j
    <3>1. Lockable(j) /\ jobs'[j] = LockedRow(jobs[j], w) /\ reclaims' = reclaims
      BY <1>0, <1>3, <2>1 DEF FetchAndLock
    <3> QED BY <1>1, <2>1, <3>1 DEF Started, Becomes, Lockable, Status
  <2>2. CASE k # j
    <3>1. jobs'[j] = jobs[j] /\ reclaims' = reclaims
      BY <1>0, <1>3, <2>2 DEF FetchAndLock
    <3> QED BY <1>2, <3>1
  <2> QED BY <2>1, <2>2
<1>4. ASSUME NEW k \in Jobs, MarkSuccess(k) \/ MoveToDeadLetter(k)
      PROVE  NoChance(j)
  <2>1. CASE k = j
    <3>1. /\ jobs'[j] = Unlocked(jobs[j], "SUCCESS") \/ jobs'[j] = Unlocked(jobs[j], "DEAD_LETTER")
          /\ reclaims' = reclaims
      BY <1>0, <1>4, <2>1 DEF MarkSuccess, MoveToDeadLetter
    <3> QED BY <1>1, <3>1 DEF NoChance, Lockable, Status
  <2>2. CASE k # j
    BY <1>0, <1>2, <1>4, <2>2 DEF MarkSuccess, MoveToDeadLetter
  <2> QED BY <2>1, <2>2
<1>5. CASE LockJob(w)
  BY <1>0, <1>3, <1>5 DEF LockJob, Go, Holding
<1>6. CASE LockFails(w)
  <2>1. held[w] \in Jobs
    BY <1>0, <1>6 DEF LockFails, Holding
  <2> QED BY <1>2, <1>3, <1>6, <2>1 DEF LockFails, storeVars
<1>7. CASE ReportSuccess(w) \/ ReportSuccessFails(w) \/ ReportDead(w)
  <2>1. held[w] \in Jobs
    BY <1>0, <1>7 DEF ReportSuccess, ReportSuccessFails, ReportDead, Go, Holding
  <2> QED BY <1>2, <1>4, <1>7, <2>1 DEF ReportSuccess, ReportSuccessFails, ReportDead, storeVars
<1>8. CASE ReportRetry(w)
  <2>1. CASE held[w] = j
    <3>1. jobs'[j] = RetryingRow(jobs[j]) /\ reclaims' = reclaims
      BY <1>0, <1>8, <2>1 DEF ReportRetry, MarkRetrying
    <3> QED BY <1>1, <1>8, <2>1, <3>1 DEF Becomes, Status
  <2>2. CASE held[w] # j
    BY <1>0, <1>2, <1>8, <2>2 DEF ReportRetry, MarkRetrying
  <2> QED BY <2>1, <2>2
<1>9. ASSUME NEW k \in Jobs, CreateNext(w, k)
      PROVE  NoChance(j) \/ (Becomes(j, 0, reclaims[j]) /\ Status(j) = "ABSENT")
  <2>1. /\ k \in Fresh /\ reclaims' = reclaims
        /\ jobs' = [jobs EXCEPT ![k] = NewRow(jobs[held[w]].priority, "future",
                                              jobs[held[w]].recurring, jobs[held[w]].retriable)]
    BY <1>9 DEF CreateNext, InsertNextOccurrence, InsertJob
  <2>2. CASE k = j
    BY <1>0, <2>1, <2>2 DEF Fresh, NewRow, Becomes, Status
  <2>3. CASE k # j
    <3>1. jobs'[j] = jobs[j] /\ reclaims' = reclaims
      BY <1>0, <2>1, <2>3
    <3> QED BY <1>2, <3>1
  <2> QED BY <2>2, <2>3
<1>10. \/ jobs' = jobs /\ reclaims' = reclaims
       \/ LockJob(w) \/ LockFails(w) \/ ReportSuccess(w) \/ ReportSuccessFails(w)
       \/ ReportDead(w) \/ ReportRetry(w) \/ \E k \in Jobs : CreateNext(w, k)
  BY DEF WorkerStep, Heartbeat, WorkerFault, StartWorker, Reserve, ReserveJob, PopJob,
     StoreReserved, StoreReservedFails, SkipJob, Report, HandlerFails, NoRetryDate,
     ReportFailureFails, Recur, ScheduleNext, AbandonNext, NoMoreOccurrences, AckJob,
     AckFails, StopWorker, CrashWorker, UpsertHeartbeat, MarkWorkerDead, storeVars
<1> QED BY <1>2, <1>5, <1>6, <1>7, <1>8, <1>9, <1>10

\* What everybody else does to the row.
LEMMA OtherChances ==
  ASSUME TypeOK, SchedulerNext \/ ReaperNext \/ ApiNext \/ Time \/ UNCHANGED vars, NEW j \in Jobs
  PROVE  \/ NoChance(j)
         \/ Becomes(j, jobs[j].attempts, reclaims[j] + 1)
         \/ Becomes(j, 0, reclaims[j]) /\ Status(j) = "ABSENT"
         \/ \E r \in Replayers : /\ CommitReplay(r) /\ target[r] = j
                                 /\ Becomes(j, 0, reclaims[j])
<1>0. /\ jobs \in [Jobs -> Row] /\ jobs[j] \in Row /\ reclaims \in [Jobs -> Nat]
  BY DEF TypeOK, StoreTypeOK
<1>1. /\ \A s : /\ Unlocked(jobs[j], s).attempts = jobs[j].attempts
                /\ Unlocked(jobs[j], s).status = s
      /\ ReplayedRow(jobs[j]).attempts = 0
      /\ ReplayedRow(jobs[j]).status = "PENDING"
  BY <1>0 DEF ReplayedRow, Unlocked, Row
<1>2. ASSUME jobs'[j] = jobs[j], reclaims'[j] = reclaims[j] PROVE NoChance(j)
  BY <1>2 DEF NoChance, Lockable, Status
<1>3. CASE SchedulerNext \/ ReaperNext
  <2>1. CASE ReclaimDueRetries
    <3>1. /\ reclaims' = reclaims
          /\ \/ jobs'[j] = jobs[j]
             \/ Status(j) = "RETRYING" /\ jobs'[j] = Unlocked(jobs[j], "PENDING")
      BY <2>1 DEF ReclaimDueRetries, DueRetries
    <3> QED BY <1>1, <1>2, <3>1 DEF NoChance, Lockable, Status
  <2>2. CASE ReclaimStaleJobs
    <3>1. \/ jobs'[j] = jobs[j] /\ reclaims'[j] = reclaims[j]
          \/ jobs'[j] = Unlocked(jobs[j], "PENDING") /\ reclaims'[j] = reclaims[j] + 1
      BY <2>2 DEF ReclaimStaleJobs
    <3> QED BY <1>1, <1>2, <3>1 DEF Becomes, Status
  <2>3. CASE MarkExpiredWorkersDead \/ UNCHANGED storeVars
    BY <1>2, <2>3 DEF MarkExpiredWorkersDead, storeVars
  <2> QED BY <1>3, <2>1, <2>2, <2>3, SweepersSweep DEF SweeperStatement
<1>4. ASSUME NEW r \in Requests, FirstStep(r) \/ LaterStep(r) \/ AbortRequest(r)
      PROVE  \/ NoChance(j)
             \/ Becomes(j, 0, reclaims[j]) /\ Status(j) = "ABSENT"
             \/ \E q \in Replayers : /\ CommitReplay(q) /\ target[q] = j
                                     /\ Becomes(j, 0, reclaims[j])
  <2>1. ASSUME NEW k \in Jobs, CreateJob(r, k)
        PROVE  NoChance(j) \/ (Becomes(j, 0, reclaims[j]) /\ Status(j) = "ABSENT")
    <3>1. PICK p \in Priorities, s \in Starts, c \in Rules, d \in Retriable :
                 /\ k \in Fresh /\ reclaims' = reclaims
                 /\ jobs' = [jobs EXCEPT ![k] = NewRow(p, s, c, d)]
      BY <2>1 DEF CreateJob, InsertJob
    <3>2. CASE k = j
      BY <1>0, <3>1, <3>2 DEF Fresh, NewRow, Becomes, Status
    <3>3. CASE k # j
      <4>1. jobs'[j] = jobs[j] /\ reclaims'[j] = reclaims[j]
        BY <1>0, <3>1, <3>3
      <4> QED BY <1>2, <4>1
    <3> QED BY <3>2, <3>3
  <2>2. ASSUME NEW k \in Jobs, CancelJob(r, k) PROVE NoChance(j)
    <3>1. /\ reclaims' = reclaims
          /\ jobs'[j] = jobs[j] \/ jobs'[j] = Unlocked(jobs[j], "FAILED")
      BY <1>0, <2>2 DEF CancelJob, CancelRow
    <3> QED BY <1>1, <1>2, <3>1 DEF NoChance, Lockable, Status
  <2>3. ASSUME CommitReplay(r)
        PROVE  NoChance(j) \/ (r \in Replayers /\ target[r] = j /\ Becomes(j, 0, reclaims[j]))
    <3>1. /\ r \in Replayers /\ target[r] \in Jobs /\ reclaims' = reclaims
          /\ jobs' = [jobs EXCEPT ![target[r]] = ReplayedRow(jobs[target[r]])]
      BY <2>3 DEF CommitReplay, ReplayRow, Move, TypeOK, ApiTypeOK
    <3>2. CASE target[r] = j
      <4>1. jobs'[j] = ReplayedRow(jobs[j])
        BY <1>0, <3>1, <3>2
      <4> QED BY <1>1, <3>1, <3>2, <4>1 DEF Becomes, Status
    <3>3. CASE target[r] # j
      <4>1. jobs'[j] = jobs[j] /\ reclaims'[j] = reclaims[j]
        BY <1>0, <3>1, <3>3
      <4> QED BY <1>2, <4>1
    <3> QED BY <3>2, <3>3
  <2>4. \/ jobs' = jobs /\ reclaims' = reclaims
        \/ CommitReplay(r) \/ \E k \in Jobs : CreateJob(r, k) \/ CancelJob(r, k)
    BY <1>4 DEF FirstStep, LaterStep, SelectLetter, SubmitJob, PurgeQueue, PurgeSchedule,
       EnqueueReplayed, AbortRequest, storeVars
  <2> QED BY <1>2, <2>1, <2>2, <2>3, <2>4
<1>5. CASE Time
  <2>1. /\ reclaims' = reclaims
        /\ jobs'[j].attempts = jobs[j].attempts /\ Status(j)' = Status(j)
    BY <1>0, <1>5 DEF Time, RetryDue, StartDue, LockOverdue, HeartbeatOverdue,
       LockGoesStale, HeartbeatGoesLate, RetryBecomesDue, StartBecomesDue,
       LockTurnsStale, HeartbeatTurnsLate, Status, Row
  <2> QED BY <2>1 DEF NoChance, Lockable
<1>6. CASE UNCHANGED vars
  BY <1>2, <1>6 DEF vars, storeVars
<1> QED BY <1>3, <1>4, <1>5, <1>6 DEF ApiNext

\* A worker becomes entitled with its lock, if there are attempts left.
LEMMA EntitledStep ==
  ASSUME TypeOK, [Next]_vars, NEW j \in Jobs
  PROVE  \/ Entitled(j)' \subseteq Entitled(j)
         \/ \E w \in Workers : /\ LockJob(w) /\ held[w] = j /\ w \notin Entitled(j)
                               /\ Entitled(j)' \subseteq Entitled(j) \cup {w}
                               /\ w \in Entitled(j)' => jobs'[j].attempts < MaxAttempts
<1>0. pc \in [Workers -> Locations] /\ snap \in [Workers -> Nat]
  BY DEF TypeOK, WorkerTypeOK
<1>1. ASSUME NEW w \in Workers, LockJob(w), held[w] = j
      PROVE  /\ w \notin Entitled(j) /\ Entitled(j)' \subseteq Entitled(j) \cup {w}
             /\ w \in Entitled(j)' => jobs'[j].attempts < MaxAttempts
  BY <1>0, <1>1 DEF LockJob, Go, Entitled, Executing
<1>2. ASSUME ~\E w \in Workers : LockJob(w) /\ held[w] = j
      PROVE  Entitled(j)' \subseteq Entitled(j)
  <2> SUFFICES ASSUME NEW w \in Entitled(j)' PROVE w \in Entitled(j)
    OBVIOUS
  <2>1. w \in Workers /\ Executing(w, j)' /\ snap'[w] < MaxAttempts
    BY DEF Entitled
  <2>2. Executing(w, j) /\ snap'[w] = snap[w]
    BY <1>2, <2>1, ExecutionStarts
  <2> QED BY <2>1, <2>2 DEF Entitled
<1> QED BY <1>1, <1>2

\* The worker that locks the row uses up the chance that it was.
LEMMA LockStarts ==
  ASSUME TypeOK, NEW w \in Workers, NEW j \in Jobs, LockJob(w), held[w] = j
  PROVE  Started(j)
<1>1. /\ jobs \in [Jobs -> Row] /\ jobs[j] \in Row
      /\ jobs' = [jobs EXCEPT ![j] = LockedRow(jobs[j], w)] /\ Lockable(j)
      /\ reclaims' = reclaims
  BY DEF TypeOK, StoreTypeOK, LockJob, FetchAndLock
<1>2. /\ jobs'[j] = LockedRow(jobs[j], w)
      /\ LockedRow(jobs[j], w).attempts = jobs[j].attempts + 1
      /\ LockedRow(jobs[j], w).status = "RUNNING"
  BY <1>1 DEF LockedRow, Row
<1> QED BY <1>1, <1>2 DEF Started, Becomes, Lockable, Status

\* The sets of the invariant after a step.
LEMMA CountsStep ==
  ASSUME TypeOK, [Next]_vars, NEW j \in Jobs, IsFiniteSet(Entitled(j)),
         IsFiniteSet(ReplaysFor(j))
  PROVE  /\ IsFiniteSet(Entitled(j)') /\ Cardinality(Entitled(j)') \in Nat
         /\ IsFiniteSet(ReplaysFor(j)') /\ Cardinality(ReplaysFor(j)') \in Nat
         /\ Cardinality(ReplaysFor(j)) <= Cardinality(ReplaysFor(j)')
         /\ \A r \in Replayers : CommitReplay(r) /\ target[r] = j =>
              Cardinality(ReplaysFor(j)) + 1 <= Cardinality(ReplaysFor(j)')
         /\ \/ Cardinality(Entitled(j)') <= Cardinality(Entitled(j))
            \/ /\ Started(j) /\ jobs'[j].attempts < MaxAttempts
               /\ Cardinality(Entitled(j)') <= Cardinality(Entitled(j)) + 1
         /\ \A w \in Workers : ReportRetry(w) /\ held[w] = j =>
              Cardinality(Entitled(j)') <= Cardinality(Entitled(j)) - 1
<1>1. /\ Cardinality(Entitled(j)) \in Nat /\ Cardinality(ReplaysFor(j)) \in Nat
  BY FS_CardinalityType
<1>2. /\ IsFiniteSet(ReplaysFor(j)') /\ Cardinality(ReplaysFor(j)') \in Nat
      /\ Cardinality(ReplaysFor(j)) <= Cardinality(ReplaysFor(j)')
  <2>1. PICK r : ReplaysFor(j)' \subseteq ReplaysFor(j) \cup {r}
    BY ReplaysStep
  <2>2. IsFiniteSet(ReplaysFor(j) \cup {r})
    BY FS_AddElement
  <2>3. IsFiniteSet(ReplaysFor(j)')
    BY <2>1, <2>2, FS_Subset
  <2>4. ReplaysFor(j) \subseteq ReplaysFor(j)'
    BY ReplaysStep
  <2> QED BY <2>3, <2>4, FS_Subset, FS_CardinalityType
<1>3. ASSUME NEW r \in Replayers, CommitReplay(r), target[r] = j
      PROVE  Cardinality(ReplaysFor(j)) + 1 <= Cardinality(ReplaysFor(j)')
  <2>1. r \notin ReplaysFor(j) /\ ReplaysFor(j) \cup {r} \subseteq ReplaysFor(j)'
    BY <1>3, ReplaysStep
  <2>2. Cardinality(ReplaysFor(j) \cup {r}) = Cardinality(ReplaysFor(j)) + 1
    BY <2>1, FS_AddElement
  <2> QED BY <1>2, <2>1, <2>2, FS_Subset
<1>4. CASE Entitled(j)' \subseteq Entitled(j)
  <2>1. /\ IsFiniteSet(Entitled(j)') /\ Cardinality(Entitled(j)') \in Nat
        /\ Cardinality(Entitled(j)') <= Cardinality(Entitled(j))
    BY <1>4, FS_Subset, FS_CardinalityType
  <2>2. ASSUME NEW w \in Workers, ReportRetry(w), held[w] = j
        PROVE  Cardinality(Entitled(j)') <= Cardinality(Entitled(j)) - 1
    <3>1. w \in Entitled(j) /\ w \notin Entitled(j)'
      BY <2>2 DEF ReportRetry, Go, Entitled, Executing, TypeOK, WorkerTypeOK
    <3>2. /\ IsFiniteSet(Entitled(j) \ {w})
          /\ Cardinality(Entitled(j) \ {w}) = Cardinality(Entitled(j)) - 1
      BY <3>1, FS_RemoveElement
    <3>3. Entitled(j)' \subseteq Entitled(j) \ {w}
      BY <1>4, <3>1
    <3> QED BY <3>2, <3>3, FS_Subset
  <2> QED BY <1>2, <1>3, <2>1, <2>2
<1>5. ASSUME NEW w \in Workers, LockJob(w), held[w] = j, w \notin Entitled(j),
             Entitled(j)' \subseteq Entitled(j) \cup {w},
             w \in Entitled(j)' => jobs'[j].attempts < MaxAttempts,
             ~(Entitled(j)' \subseteq Entitled(j))
      PROVE  /\ IsFiniteSet(Entitled(j)') /\ Cardinality(Entitled(j)') \in Nat
             /\ Started(j) /\ jobs'[j].attempts < MaxAttempts
             /\ Cardinality(Entitled(j)') <= Cardinality(Entitled(j)) + 1
             /\ ~\E v \in Workers : ReportRetry(v) /\ held[v] = j
  <2>1. /\ IsFiniteSet(Entitled(j) \cup {w})
        /\ Cardinality(Entitled(j) \cup {w}) = Cardinality(Entitled(j)) + 1
    BY <1>5, FS_AddElement
  <2>2. /\ IsFiniteSet(Entitled(j)') /\ Cardinality(Entitled(j)') \in Nat
        /\ Cardinality(Entitled(j)') <= Cardinality(Entitled(j)) + 1
    BY <1>5, <2>1, FS_Subset, FS_CardinalityType
  <2>3. Started(j) /\ jobs'[j].attempts < MaxAttempts
    BY <1>5, LockStarts
  <2>4. ASSUME NEW v \in Workers, ReportRetry(v) PROVE FALSE
    BY <1>5, <2>4 DEF LockJob, ReportRetry, Go, TypeOK, WorkerTypeOK
  <2> QED BY <2>2, <2>3, <2>4
<1>6. CASE ~(Entitled(j)' \subseteq Entitled(j))
  <2>1. PICK w \in Workers : /\ LockJob(w) /\ held[w] = j /\ w \notin Entitled(j)
                             /\ Entitled(j)' \subseteq Entitled(j) \cup {w}
                             /\ w \in Entitled(j)' => jobs'[j].attempts < MaxAttempts
    BY <1>6, EntitledStep
  <2> QED BY <1>2, <1>3, <1>5, <1>6, <2>1
<1> QED BY <1>4, <1>6

\* The invariant is inductive: every chance that a step adds is a grant, the
\* first submission, or one that a worker gives back with its retry.
LEMMA NextAttempts ==
  ASSUME TypeOK, TypeOK', [Next]_vars, NEW j \in Jobs, AttemptsFit(j)
  PROVE  AttemptsFit(j)'
<1>0. /\ jobs[j].attempts \in Nat /\ reclaims[j] \in Nat /\ MaxAttempts \in Nat \ {0}
      /\ jobs'[j].attempts \in Nat /\ reclaims'[j] \in Nat
  BY StoreAssumption DEF TypeOK, StoreTypeOK, Row
<1>1. /\ IsFiniteSet(Entitled(j)) /\ IsFiniteSet(ReplaysFor(j))
      /\ Cardinality(Entitled(j)) \in Nat /\ Cardinality(ReplaysFor(j)) \in Nat
      /\ Status(j) = "ABSENT" => jobs[j].attempts = 0 /\ Cardinality(Entitled(j)) = 0
                                   /\ Entitled(j) = {}
  BY FS_CardinalityType, FS_EmptySet DEF AttemptsFit
<1>2. PICK e \in Nat, r \in Nat, l \in {0, 1}, e1 \in Nat, r1 \in Nat, l1 \in {0, 1} :
        /\ e = Cardinality(Entitled(j)) /\ e1 = Cardinality(Entitled(j)')
        /\ r = Cardinality(ReplaysFor(j)) /\ r1 = Cardinality(ReplaysFor(j)')
        /\ l = (IF Lockable(j) THEN 1 ELSE 0) /\ l1 = (IF Lockable(j)' THEN 1 ELSE 0)
  BY <1>1, CountsStep
<1>3. /\ e + l <= 1 + (reclaims[j] + r)
      /\ jobs[j].attempts + (e + l) <= MaxAttempts + (reclaims[j] + r)
  BY <1>2 DEF AttemptsFit, Chances, Grants
<1>4. /\ IsFiniteSet(Entitled(j)') /\ IsFiniteSet(ReplaysFor(j)') /\ r <= r1
      /\ \A q \in Replayers : CommitReplay(q) /\ target[q] = j => r + 1 <= r1
      /\ \/ e1 <= e
         \/ Started(j) /\ jobs'[j].attempts < MaxAttempts /\ e1 <= e + 1
      /\ \A w \in Workers : ReportRetry(w) /\ held[w] = j => e1 <= e - 1
  BY <1>1, <1>2, CountsStep
<1>5. (Started(j) => l = 1 /\ l1 = 0) /\ (NoChance(j) => l1 <= l)
  BY <1>2 DEF Started, NoChance
<1>6. Status(j)' = "ABSENT" => jobs'[j].attempts = 0 /\ Entitled(j)' = {}
  <2> SUFFICES ASSUME Status(j)' = "ABSENT"
               PROVE  jobs'[j].attempts = 0 /\ Entitled(j)' = {}
    OBVIOUS
  <2>1. Status(j) = "ABSENT" /\ jobs'[j] = jobs[j]
    BY EveryStepIsStatement, EffectOfStatement, RowsLast DEF Status
  <2>2. ~Started(j)
    BY <2>1 DEF Started, Lockable
  <2>3. e1 = 0
    BY <1>1, <1>2, <1>4, <2>1, <2>2
  <2>4. Entitled(j)' = {}
    BY <1>2, <1>4, <2>3, FS_EmptySet
  <2> QED BY <1>1, <2>1, <2>4
<1>7. /\ e1 + l1 <= 1 + (reclaims'[j] + r1)
      /\ jobs'[j].attempts + (e1 + l1) <= MaxAttempts + (reclaims'[j] + r1)
  <2>1. CASE Started(j)
    BY <1>0, <1>2, <1>3, <1>4, <1>5, <2>1 DEF Started, Becomes
  <2>2. CASE ~Started(j) /\ NoChance(j)
    BY <1>0, <1>2, <1>3, <1>4, <1>5, <2>2 DEF NoChance
  <2>3. CASE Becomes(j, jobs[j].attempts, reclaims[j]) /\ e1 <= e - 1
    BY <1>0, <1>2, <1>3, <1>4, <2>3 DEF Becomes
  <2>4. CASE ~Started(j) /\ Becomes(j, jobs[j].attempts, reclaims[j] + 1)
    BY <1>0, <1>2, <1>3, <1>4, <2>4 DEF Becomes
  <2>5. CASE ~Started(j) /\ Becomes(j, 0, reclaims[j]) /\ Status(j) = "ABSENT"
    <3>1. e = 0 /\ e1 = 0
      BY <1>1, <1>2, <1>4, <2>5
    <3> QED BY <1>0, <1>2, <1>3, <1>4, <2>5, <3>1 DEF Becomes
  <2>6. CASE ~Started(j) /\ Becomes(j, 0, reclaims[j]) /\ r + 1 <= r1
    BY <1>0, <1>2, <1>3, <1>4, <2>6 DEF Becomes
  <2>7. CASE WorkerNext
    <3>1. PICK w \in Workers : WorkerStep(w) \/ Heartbeat(w) \/ WorkerFault(w)
      BY <2>7 DEF WorkerNext
    <3> QED BY <1>4, <2>1, <2>2, <2>3, <2>5, <3>1, WorkerChances
  <2>8. CASE SchedulerNext \/ ReaperNext \/ ApiNext \/ Time \/ UNCHANGED vars
    <3>1. \/ NoChance(j)
          \/ Becomes(j, jobs[j].attempts, reclaims[j] + 1)
          \/ Becomes(j, 0, reclaims[j]) /\ Status(j) = "ABSENT"
          \/ Becomes(j, 0, reclaims[j]) /\ r + 1 <= r1
      BY <1>4, <2>8, OtherChances
    <3> QED BY <2>1, <2>2, <2>4, <2>5, <2>6, <3>1
  <2> QED BY <2>7, <2>8 DEF Next
<1>8. /\ Chances(j)' = e1 + l1 /\ Grants(j)' = reclaims'[j] + r1
  BY <1>2 DEF Chances, Grants
<1> QED BY <1>4, <1>6, <1>7, <1>8 DEF AttemptsFit

\* A row is locked at most max_attempts times, plus once for every reclaim and
\* every replay: for all values of the constants, with every fault, timeouts
\* that expire under live workers, several references to the row, stale
\* reports, and replays that race.
THEOREM AttemptsAreAccounted == Spec => []AttemptsAccounted
<1> DEFINE Inv == \A j \in Jobs : AttemptsFit(j)
<1>1. Init => Inv
  <2> SUFFICES ASSUME Init, NEW j \in Jobs PROVE AttemptsFit(j)
    OBVIOUS
  <2>1. /\ jobs[j].attempts = 0 /\ Status(j) = "ABSENT" /\ reclaims[j] = 0
        /\ MaxAttempts \in Nat
    BY StoreAssumption DEF Init, StoreInit, AbsentRow, NewRow, Status
  <2>2. Entitled(j) = {} /\ ReplaysFor(j) = {}
    BY DEF Init, WorkerInit, ApiInit, Entitled, Executing, ReplaysFor, Requests
  <2>3. ~Lockable(j)
    BY <2>1 DEF Lockable
  <2>4. IsFiniteSet({}) /\ Cardinality({}) = 0
    BY FS_EmptySet
  <2> QED BY <2>1, <2>2, <2>3, <2>4 DEF AttemptsFit, Chances, Grants
<1>2. TypeOK /\ TypeOK' /\ Inv /\ [Next]_vars => Inv'
  BY NextAttempts
<1>3. TypeOK /\ Inv => AttemptsAccounted
  <2> SUFFICES ASSUME TypeOK, NEW j \in Jobs, AttemptsFit(j)
               PROVE  jobs[j].attempts <= MaxAttempts + reclaims[j] + ReplaysOf(j)
    BY DEF AttemptsAccounted
  <2>1. /\ jobs[j].attempts \in Nat /\ reclaims[j] \in Nat /\ MaxAttempts \in Nat
        /\ Cardinality(Entitled(j)) \in Nat /\ Cardinality(ReplaysFor(j)) \in Nat
    BY StoreAssumption, FS_CardinalityType DEF TypeOK, StoreTypeOK, Row, AttemptsFit
  <2>2. ReplaysOf(j) = Cardinality(ReplaysFor(j))
    BY DEF ReplaysOf, ReplaysFor
  <2> QED BY <2>1, <2>2 DEF AttemptsFit, Chances, Grants
<1> QED BY <1>1, <1>2, <1>3, TypeCorrect, PTL DEF Spec
=============================================================================
