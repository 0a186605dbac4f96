-------------------------- MODULE ReferenceProofs --------------------------
(***************************************************************************)
(* Where the references to a job are and how many, for every value of the  *)
(* constants.                                                              *)
(* SingleReference holds as long as no timeout expires under a live        *)
(* worker, no call to PostgreSQL raises and there is at most one replay    *)
(* request.  The count alone is not inductive: whether a step adds a       *)
(* reference to one that is already there depends on the status of the     *)
(* row, so RefInv says in which states a job may have a reference at all.  *)
(* PriorityKept and ProcessingMatchesHolders compare two counts; what they *)
(* need besides is who has still to change one of them.                    *)
(***************************************************************************)
EXTENDS RowProofs

Kinds == {"list", "worker", "request", "service"}
Places == Tiers \cup Workers \cup Requests \cup {"scheduled", "scheduler", "reaper"}

\* Where a reference to j can be, or what it was used up for.
Has(k, x, j) ==
  \/ k = "list" /\ x \in Tiers /\ queue[x][j] > 0
  \/ k = "worker" /\ x \in Workers /\ (j \in Carries(x) \/ Executing(x, j))
  \/ k = "request" /\ x \in Requests /\ j \in RequestOwes(x)
  \/ k = "service" /\ x = "scheduled" /\ j \in scheduled
  \/ k = "service" /\ x = "scheduler" /\ j \in SchedulerOwes
  \/ k = "service" /\ x = "reaper" /\ j \in ReaperOwes

\* There is one such place, and a list holds j once.
OnePlace(j) ==
  /\ \A k, l \in Kinds, x, y \in Places :
       Has(k, x, j) /\ Has(l, y, j) => k = l /\ x = y
  /\ \A t \in Tiers : queue[t][j] <= 1

\* The states in which a reference to a job may be around: a cancelled job
\* keeps the one it had until somebody meets it.
Referred == {"PENDING", "FAILED"}

Fits(j) ==
  \A k \in Kinds, x \in Places : Has(k, x, j) =>
    Status(j) \in Referred \/ (k = "worker" /\ Executing(x, j))

\* An id without a row, or a row without a date.
NotDelayed(j) == Status(j) = "ABSENT" \/ jobs[j].start = "now"

RefInv ==
  /\ \A j \in Jobs : NotDelayed(j) => OnePlace(j) /\ Fits(j)
  /\ spc = "syncing" => \A j \in sbatch : ~NotDelayed(j)
  /\ rpc = "pushBack" => rcur \notin rbatch

-----------------------------------------------------------------------------
(* What a step has to show.                                                *)

\* No reference is added, and the row stays what it was, or PENDING or FAILED.
Kept(j) ==
  /\ \A k \in Kinds, x \in Places : Has(k, x, j)' => Has(k, x, j)
  /\ \A t \in Tiers : queue'[t][j] <= queue[t][j]
  /\ Status(j) \in Referred => Status(j)' \in Referred
  /\ \A w \in Workers : Executing(w, j) => Executing(w, j)'

\* The reference is at one place, x.
MovedTo(k, x, j) ==
  /\ \A l \in Kinds, y \in Places : Has(l, y, j)' => l = k /\ y = x
  /\ \A t \in Tiers : queue'[t][j] <= 1
  /\ Status(j)' \in Referred \/ (k = "worker" /\ Executing(x, j)')

\* Nothing is left.
UsedUp(j) ==
  /\ \A k \in Kinds, x \in Places : ~Has(k, x, j)'
  /\ \A t \in Tiers : queue'[t][j] <= 1

\* Each of the three keeps the invariant for j.
LEMMA StepKeepsOne ==
  ASSUME NEW j \in Jobs, TypeOK, TypeOK', OnePlace(j), Fits(j),
         \/ Kept(j) \/ UsedUp(j)
         \/ \E k \in Kinds, x \in Places : MovedTo(k, x, j)
  PROVE  OnePlace(j)' /\ Fits(j)'
<1>0. \A t \in Tiers : queue[t][j] \in Nat /\ queue'[t][j] \in Nat
  BY DEF TypeOK, TransportTypeOK
<1>1. CASE Kept(j)
  <2>1. OnePlace(j)'
    BY <1>0, <1>1 DEF Kept, OnePlace
  <2>2. ASSUME NEW k \in Kinds, NEW x \in Places, Has(k, x, j)'
        PROVE  Status(j)' \in Referred \/ (k = "worker" /\ Executing(x, j)')
    <3>1. k = "worker" => x \in Workers
      BY <2>2 DEF Has
    <3> QED BY <1>1, <2>2, <3>1 DEF Kept, Fits
  <2> QED BY <2>1, <2>2 DEF Fits
<1>2. CASE UsedUp(j)
  BY <1>2 DEF UsedUp, OnePlace, Fits
<1>3. ASSUME NEW k \in Kinds, NEW x \in Places, MovedTo(k, x, j)
      PROVE  OnePlace(j)' /\ Fits(j)'
  BY <1>3 DEF MovedTo, OnePlace, Fits
<1> QED BY <1>1, <1>2, <1>3

\* A job in another state than PENDING and FAILED that nobody executes has no
\* reference, and neither has an id without a row.
LEMMA NoReference ==
  ASSUME NEW j \in Jobs, Fits(j), Status(j) \notin Referred,
         \A w \in Workers : ~Executing(w, j)
  PROVE  \A k, x : ~Has(k, x, j)
<1> SUFFICES ASSUME NEW k, NEW x, Has(k, x, j) PROVE FALSE
  OBVIOUS
<1>1. k \in Kinds /\ x \in Places /\ (k = "worker" => x \in Workers)
  BY DEF Has, Kinds, Places
<1> QED BY <1>1 DEF Fits

\* The one place of a reference.
LEMMA OnlyThere ==
  ASSUME NEW j \in Jobs, OnePlace(j), NEW k, NEW x, Has(k, x, j)
  PROVE  \A l, y : Has(l, y, j) => l = k /\ y = x
<1> SUFFICES ASSUME NEW l, NEW y, Has(l, y, j) PROVE l = k /\ y = x
  OBVIOUS
<1>1. k \in Kinds /\ x \in Places /\ l \in Kinds /\ y \in Places
  BY DEF Has, Kinds, Places
<1> QED BY <1>1 DEF OnePlace


-----------------------------------------------------------------------------
(* The steps of a worker.                                                  *)

\* Everybody but w stands still.
OthersStand(w) ==
  /\ UNCHANGED <<schedulerVars, reaperVars, apiVars>>
  /\ \A v \in Workers : v # w => /\ pc'[v] = pc[v] /\ held'[v] = held[v]
                                 /\ next'[v] = next[v]

\* Then a reference is where it was, in Redis or with w.
LEMMA OthersKeep ==
  ASSUME NEW w \in Workers, OthersStand(w), NEW j \in Jobs
  PROVE  /\ \A k, x : Has(k, x, j)' =>
              \/ Has(k, x, j) /\ (k = "worker" => x # w)
              \/ k = "list" /\ x \in Tiers /\ queue'[x][j] > 0
              \/ k = "service" /\ x = "scheduled" /\ j \in scheduled'
              \/ k = "worker" /\ x = w /\ (j \in Carries(w)' \/ Executing(w, j)')
         /\ \A v \in Workers : v # w => Executing(v, j)' = Executing(v, j)
<1>1. ASSUME NEW v \in Workers, v # w
      PROVE  Carries(v)' = Carries(v) /\ Executing(v, j)' = Executing(v, j)
  BY <1>1 DEF OthersStand, Carries, Executing
<1>2. /\ SchedulerOwes' = SchedulerOwes /\ ReaperOwes' = ReaperOwes
      /\ \A r \in Requests : RequestOwes(r)' = RequestOwes(r)
  BY DEF OthersStand, SchedulerOwes, ReaperOwes, RequestOwes, schedulerVars,
     reaperVars, apiVars
<1> QED BY <1>1, <1>2 DEF Has

\* Only w moves.
LEMMA OneWorkerMoves ==
  ASSUME TypeOK, NEW w \in Workers, WorkerStep(w) \/ Heartbeat(w) \/ WorkerFault(w),
         LeavesServices, LeavesApi
  PROVE  OthersStand(w)
<1>0. /\ pc \in [Workers -> Locations] /\ held \in [Workers -> Jobs \cup {NoJob}]
      /\ next \in [Workers -> Jobs \cup {NoJob}]
  BY DEF TypeOK, WorkerTypeOK
<1>1. UNCHANGED <<schedulerVars, reaperVars, apiVars>>
  BY DEF LeavesServices, LeavesApi
<1> QED
  BY <1>0, <1>1 DEF OthersStand, WorkerStep, Heartbeat, WorkerFault, StartWorker, Reserve,
     ReserveJob, PopJob, StoreReserved, StoreReservedFails, LockJob, SkipJob, LockFails,
     Report, HandlerFails, ReportSuccess, ReportSuccessFails, ReportRetry, ReportDead,
     NoRetryDate, ReportFailureFails, Recur, CreateNext, ScheduleNext, AbandonNext,
     NoMoreOccurrences, AckJob, AckFails, StopWorker, CrashWorker, Go, LetGo, workerVars

\* A step of w after which w has no more of j than before, and that leaves
\* the lists, the zset and the row of j as they were.
LEMMA LessInHand ==
  ASSUME TypeOK, NEW w \in Workers, OthersStand(w), NEW j \in Jobs, OnePlace(j), Fits(j),
         UNCHANGED <<jobs, queue, scheduled>>,
         Carries(w)' \subseteq Carries(w),
         Executing(w, j)' => Executing(w, j)
  PROVE  Kept(j) \/ UsedUp(j)
<1>0. /\ \A t \in Tiers : queue'[t][j] = queue[t][j] /\ queue[t][j] \in Nat
      /\ Status(j)' = Status(j)
  BY DEF Status, TypeOK, TransportTypeOK
<1>1. \A k, x : Has(k, x, j)' => Has(k, x, j) /\ (k = "worker" /\ x = w =>
                                   j \in Carries(w)' \/ Executing(w, j)')
  BY OthersKeep DEF Has
<1>2. CASE Executing(w, j) => Executing(w, j)'
  BY <1>0, <1>1, <1>2, OthersKeep DEF Kept
<1>3. CASE Executing(w, j) /\ ~Executing(w, j)'
  <2>1. Has("worker", w, j)
    BY <1>3 DEF Has
  <2>2. \A k, x : Has(k, x, j) => k = "worker" /\ x = w
    BY <2>1, OnlyThere
  <2>3. j \notin Carries(w)
    BY <1>3 DEF Executing, Carries
  <2>4. \A k, x : ~Has(k, x, j)'
    BY <1>1, <1>3, <2>2, <2>3
  <2> QED BY <1>0, <2>4 DEF UsedUp, OnePlace
<1> QED BY <1>2, <1>3

\* Taking a reference off a list.
LEMMA ReserveMoves ==
  ASSUME TypeOK, NEW w \in Workers, OthersStand(w), NEW j \in Jobs, OnePlace(j), Fits(j),
         NEW i \in Jobs, NEW t \in Tiers, ReserveJob(w, i, t) \/ PopJob(w, i, t)
  PROVE  Kept(j) \/ \E k \in Kinds, x \in Places : MovedTo(k, x, j)
<1>0. /\ queue \in [Tiers -> [Jobs -> Nat]] /\ pc \in [Workers -> Locations]
      /\ held \in [Workers -> Jobs \cup {NoJob}]
  BY DEF TypeOK, TransportTypeOK, WorkerTypeOK
<1>1. /\ queue[t][i] > 0 /\ queue' = [queue EXCEPT ![t] = LessOne(@, i)]
      /\ scheduled' = scheduled /\ jobs' = jobs
      /\ pc[w] = "idle" /\ pc'[w] \in {"popped", "reserved"} /\ held'[w] = i
  BY <1>0 DEF ReserveJob, PopJob, MoveToProcessing, BlockingPop, Go, storeVars
<1>2. Carries(w)' = {i} /\ ~Executing(w, j)' /\ ~Executing(w, j) /\ Status(j)' = Status(j)
  BY <1>1 DEF Carries, Executing, Status
<1>3. CASE i # j
  <2>1. \A s \in Tiers : queue'[s][j] = queue[s][j]
    BY <1>0, <1>1, <1>3 DEF LessOne
  <2>2. \A k, x : Has(k, x, j)' => Has(k, x, j)
    BY <1>1, <1>2, <1>3, <2>1, OthersKeep DEF Has
  <2> QED BY <1>0, <1>2, <2>1, <2>2, OthersKeep DEF Kept
<1>4. CASE i = j
  <2>1. Has("list", t, j)
    BY <1>1, <1>4 DEF Has
  <2>2. \A k, x : Has(k, x, j) => k = "list" /\ x = t
    BY <2>1, OnlyThere
  <2>3. /\ queue'[t][j] = 0
        /\ \A s \in Tiers \ {t} : queue'[s][j] = queue[s][j] /\ queue[s][j] = 0
    <3>1. queue[t][j] = 1
      BY <1>0, <1>1, <1>4 DEF OnePlace
    <3>2. ASSUME NEW s \in Tiers, queue[s][j] > 0 PROVE s = t
      <4>1. Has("list", s, j)
        BY <3>2 DEF Has
      <4> QED BY <2>2, <4>1
    <3> QED BY <1>0, <1>1, <1>4, <3>1, <3>2 DEF LessOne
  <2>4. \A k, x : Has(k, x, j)' => k = "worker" /\ x = w
    BY <1>1, <2>2, <2>3, OthersKeep DEF Has
  <2>5. Status(j) \in Referred
    BY <2>1 DEF Fits, Kinds, Places
  <2>6. MovedTo("worker", w, j)
    BY <1>2, <2>3, <2>4, <2>5 DEF MovedTo
  <2> QED BY <2>6 DEF Kinds, Places
<1> QED BY <1>3, <1>4

\* The lock uses the reference up; its place becomes that of the executor.
LEMMA LockMoves ==
  ASSUME TypeOK, LockInv, NEW w \in Workers, OthersStand(w), NEW j \in Jobs,
         OnePlace(j), Fits(j), LockJob(w)
  PROVE  Kept(j) \/ \E k \in Kinds, x \in Places : MovedTo(k, x, j)
<1>0. /\ jobs \in [Jobs -> Row] /\ pc \in [Workers -> Locations]
      /\ \A t \in Tiers : queue[t][j] \in Nat
  BY DEF TypeOK, StoreTypeOK, TransportTypeOK, WorkerTypeOK
<1>1. /\ pc[w] = "reserved" /\ pc'[w] = "running" /\ held' = held /\ held[w] \in Jobs
      /\ queue' = queue /\ scheduled' = scheduled
      /\ \A i \in Jobs : i # held[w] => jobs'[i] = jobs[i]
  BY <1>0 DEF LockJob, Go, transportVars, FetchAndLock, TypeOK, WorkerTypeOK, Holding
<1>2. /\ Carries(w) = {held[w]} /\ Carries(w)' = {} /\ ~Executing(w, j)
      /\ Executing(w, j)' <=> held[w] = j
  BY <1>1 DEF Carries, Executing
<1>3. CASE held[w] # j
  <2>1. \A k, x : Has(k, x, j)' => Has(k, x, j)
    BY <1>1, <1>2, <1>3, OthersKeep DEF Has
  <2> QED BY <1>0, <1>1, <1>2, <1>3, <2>1, OthersKeep DEF Kept, Status
<1>4. CASE held[w] = j
  <2>1. Has("worker", w, j)
    BY <1>2, <1>4 DEF Has
  <2>2. \A k, x : Has(k, x, j) => k = "worker" /\ x = w
    BY <2>1, OnlyThere
  <2>3. \A k, x : Has(k, x, j)' => k = "worker" /\ x = w
    BY <1>1, <2>2, OthersKeep DEF Has
  <2>4. MovedTo("worker", w, j)
    BY <1>1, <1>2, <1>4, <2>3 DEF MovedTo, OnePlace
  <2> QED BY <2>4 DEF Kinds, Places
<1> QED BY <1>3, <1>4

\* The report ends the execution, and nothing is left of the reference.
LEMMA ReportMoves ==
  ASSUME TypeOK, LockInv, NEW w \in Workers, OthersStand(w), NEW j \in Jobs,
         OnePlace(j), Fits(j), ReportSuccess(w) \/ ReportRetry(w) \/ ReportDead(w)
  PROVE  Kept(j) \/ UsedUp(j)
<1>0. /\ jobs \in [Jobs -> Row] /\ pc \in [Workers -> Locations]
      /\ \A t \in Tiers : queue[t][j] \in Nat
  BY DEF TypeOK, StoreTypeOK, TransportTypeOK, WorkerTypeOK
<1>1. /\ pc[w] \in {"running", "failed"} /\ pc'[w] \in {"recurring", "acking"}
      /\ held' = held /\ held[w] \in Jobs
      /\ queue' = queue /\ scheduled' = scheduled
      /\ \A i \in Jobs : i # held[w] => jobs'[i] = jobs[i]
  BY <1>0 DEF ReportSuccess, ReportRetry, ReportDead, Go, transportVars, MarkSuccess,
     MarkRetrying, MoveToDeadLetter, TypeOK, WorkerTypeOK, Holding
<1>2. /\ Carries(w) = {} /\ Carries(w)' = {} /\ ~Executing(w, j)'
      /\ Executing(w, j) <=> held[w] = j
  BY <1>1 DEF Carries, Executing
<1>3. CASE held[w] # j
  <2>1. \A k, x : Has(k, x, j)' => Has(k, x, j)
    BY <1>1, <1>2, <1>3, OthersKeep DEF Has
  <2> QED BY <1>0, <1>1, <1>2, <1>3, <2>1, OthersKeep DEF Kept, Status
<1>4. CASE held[w] = j
  <2>1. Has("worker", w, j)
    BY <1>2, <1>4 DEF Has
  <2>2. \A k, x : Has(k, x, j) => k = "worker" /\ x = w
    BY <2>1, OnlyThere
  <2>3. \A k, x : ~Has(k, x, j)'
    BY <1>1, <1>2, <2>2, OthersKeep DEF Has
  <2> QED BY <1>1, <2>3 DEF UsedUp, OnePlace
<1> QED BY <1>3, <1>4

\* The next occurrence is a delayed job; it goes to the zset once.
LEMMA RecurMoves ==
  ASSUME TypeOK, LockInv, NEW w \in Workers, OthersStand(w), NEW j \in Jobs,
         OnePlace(j), Fits(j), NotDelayed(j)', "db" \notin Faults, Recur(w)
  PROVE  Kept(j) \/ UsedUp(j) \/ \E k \in Kinds, x \in Places : MovedTo(k, x, j)
<1>0. /\ jobs \in [Jobs -> Row] /\ pc \in [Workers -> Locations]
      /\ next \in [Workers -> Jobs \cup {NoJob}]
      /\ \A t \in Tiers : queue[t][j] \in Nat
  BY DEF TypeOK, StoreTypeOK, TransportTypeOK, WorkerTypeOK
<1>1. ASSUME NEW i \in Jobs, CreateNext(w, i) PROVE Kept(j)
  <2>1. /\ pc[w] = "recurring" /\ pc'[w] = "rescheduling" /\ next'[w] = i
        /\ queue' = queue /\ scheduled' = scheduled
        /\ jobs' = [jobs EXCEPT ![i] = NewRow(jobs[held[w]].priority, "future",
                                             jobs[held[w]].recurring, jobs[held[w]].retriable)]
    BY <1>0, <1>1 DEF CreateNext, Go, transportVars, InsertNextOccurrence, InsertJob
  <2>2. i # j
    BY <1>0, <2>1 DEF NotDelayed, Status, NewRow
  <2>3. Carries(w)' = {i} /\ ~Executing(w, j)' /\ ~Executing(w, j)
    BY <2>1 DEF Carries, Executing
  <2>4. \A k, x : Has(k, x, j)' => Has(k, x, j)
    BY <2>1, <2>2, <2>3, OthersKeep DEF Has
  <2>5. jobs'[j] = jobs[j]
    BY <1>0, <2>1, <2>2
  <2> QED BY <1>0, <2>1, <2>3, <2>4, <2>5, OthersKeep DEF Kept, Status
<1>2. CASE ScheduleNext(w)
  <2>1. /\ pc[w] = "rescheduling" /\ pc'[w] = "acking" /\ jobs' = jobs
        /\ queue' = queue /\ scheduled' = scheduled \cup {next[w]}
    BY <1>0, <1>2 DEF ScheduleNext, Go, Schedule, storeVars
  <2>2. /\ Carries(w) = {next[w]} /\ Carries(w)' = {}
        /\ ~Executing(w, j)' /\ ~Executing(w, j) /\ Status(j)' = Status(j)
    BY <2>1 DEF Carries, Executing, Status
  <2>3. CASE next[w] # j
    <3>1. \A k, x : Has(k, x, j)' => Has(k, x, j)
      BY <2>1, <2>2, <2>3, OthersKeep DEF Has
    <3> QED BY <1>0, <2>1, <2>2, <3>1, OthersKeep DEF Kept
  <2>4. CASE next[w] = j
    <3>1. Has("worker", w, j)
      BY <2>2, <2>4 DEF Has
    <3>2. \A k, x : Has(k, x, j) => k = "worker" /\ x = w
      BY <3>1, OnlyThere
    <3>3. \A k, x : Has(k, x, j)' => k = "service" /\ x = "scheduled"
      BY <2>1, <2>2, <3>2, OthersKeep DEF Has
    <3>4. Status(j) \in Referred
      BY <2>2, <3>1 DEF Fits, Kinds, Places
    <3>5. MovedTo("service", "scheduled", j)
      BY <2>1, <2>2, <3>3, <3>4 DEF MovedTo, OnePlace
    <3> QED BY <3>5 DEF Kinds, Places
  <2> QED BY <2>3, <2>4
<1>3. CASE AbandonNext(w) \/ NoMoreOccurrences(w)
  <2>1. /\ pc[w] \in {"recurring", "rescheduling"} /\ pc'[w] = "acking"
        /\ UNCHANGED <<jobs, queue, scheduled>>
    BY <1>0, <1>3 DEF AbandonNext, NoMoreOccurrences, Go, Drop, storeVars, transportVars
  <2>2. Carries(w)' = {} /\ ~Executing(w, j)'
    BY <2>1 DEF Carries, Executing
  <2> QED BY <2>1, <2>2, LessInHand
<1> QED BY <1>1, <1>2, <1>3 DEF Recur

\* Every step of a worker keeps a job that was not delayed at one place.
LEMMA WorkerRefs ==
  ASSUME TypeOK, LockInv, "db" \notin Faults, WorkerNext, LeavesServices, LeavesApi,
         NEW j \in Jobs, OnePlace(j), Fits(j), NotDelayed(j)'
  PROVE  Kept(j) \/ UsedUp(j) \/ \E k \in Kinds, x \in Places : MovedTo(k, x, j)
<1> PICK w \in Workers : WorkerStep(w) \/ Heartbeat(w) \/ WorkerFault(w)
  BY DEF WorkerNext
<1>0. /\ pc \in [Workers -> Locations] /\ held \in [Workers -> Jobs \cup {NoJob}]
      /\ NoJob \notin Jobs
      /\ OthersStand(w)
  BY OneWorkerMoves, StoreAssumption DEF TypeOK, WorkerTypeOK
<1>1. CASE Reserve(w)
  BY <1>0, <1>1, ReserveMoves DEF Reserve
<1>2. CASE LockJob(w)
  BY <1>0, <1>2, LockMoves
<1>3. CASE ReportSuccess(w) \/ ReportRetry(w) \/ ReportDead(w)
  BY <1>0, <1>3, ReportMoves
<1>4. CASE Recur(w)
  BY <1>0, <1>4, RecurMoves
<1>5. CASE StartWorker(w) \/ Heartbeat(w) \/ StopWorker(w)
  <2>1. UNCHANGED <<jobs, queue, scheduled>>
    BY <1>5 DEF StartWorker, Heartbeat, StopWorker, UpsertHeartbeat, MarkWorkerDead,
       storeVars, transportVars
  <2>2. /\ held' = held /\ next' = next
        /\ pc'[w] = pc[w] \/ pc'[w] \in {"idle", "stopped"}
    BY <1>0, <1>5 DEF StartWorker, Heartbeat, StopWorker, Go, workerVars
  <2>3. Carries(w)' \subseteq Carries(w) /\ (Executing(w, j)' => Executing(w, j))
    BY <2>2 DEF Carries, Executing
  <2> QED BY <1>0, <2>1, <2>3, LessInHand
<1>6. CASE StoreReserved(w) \/ SkipJob(w) \/ HandlerFails(w) \/ NoRetryDate(w)
  <2>1. UNCHANGED <<jobs, queue, scheduled>>
    BY <1>6 DEF StoreReserved, SkipJob, HandlerFails, NoRetryDate, PushProcessing,
       storeVars, transportVars
  <2>2. /\ held' = held /\ next' = next
        /\ \/ pc[w] = "popped" /\ pc'[w] = "reserved"
           \/ pc[w] = "reserved" /\ pc'[w] = "acking"
           \/ pc[w] = "running" /\ pc'[w] = "failed"
           \/ pc[w] = "failed" /\ pc'[w] = "acking"
    BY <1>0, <1>6 DEF StoreReserved, SkipJob, HandlerFails, NoRetryDate, Go
  <2>3. Carries(w)' \subseteq Carries(w) /\ (Executing(w, j)' => Executing(w, j))
    BY <2>2 DEF Carries, Executing
  <2> QED BY <1>0, <2>1, <2>3, LessInHand
<1>7. CASE StoreReservedFails(w) \/ AckJob(w) \/ AckFails(w) \/ CrashWorker(w)
  <2>1. UNCHANGED <<jobs, queue, scheduled>>
    BY <1>7 DEF StoreReservedFails, AckJob, AckFails, CrashWorker, Drop, Ack, storeVars,
       transportVars
  <2>2. held'[w] = NoJob /\ pc'[w] \in {"idle", "crashed"}
    BY <1>0, <1>7 DEF StoreReservedFails, AckJob, AckFails, CrashWorker, LetGo
  <2>3. Carries(w)' = {} /\ ~Executing(w, j)'
    BY <2>2 DEF Carries, Executing
  <2> QED BY <1>0, <2>1, <2>3, LessInHand
<1>8. ~(LockFails(w) \/ ReportSuccessFails(w) \/ ReportFailureFails(w))
  BY DEF LockFails, ReportSuccessFails, ReportFailureFails
<1> QED
  BY <1>1, <1>2, <1>3, <1>4, <1>5, <1>6, <1>7, <1>8 DEF WorkerStep, Report, WorkerFault

-----------------------------------------------------------------------------
(* The steps of the others.                                                *)

\* While the workers stand still, a reference is where it was with a worker,
\* or in Redis, or with the scheduler, the reaper or a request.
LEMMA StillWorkersKeep ==
  ASSUME UNCHANGED workerVars, NEW j \in Jobs
  PROVE  /\ \A k, x : Has(k, x, j)' =>
              \/ k = "worker" /\ Has(k, x, j)
              \/ k = "list" /\ x \in Tiers /\ queue'[x][j] > 0
              \/ k = "service" /\ x = "scheduled" /\ j \in scheduled'
              \/ k = "service" /\ x = "scheduler" /\ j \in SchedulerOwes'
              \/ k = "service" /\ x = "reaper" /\ j \in ReaperOwes'
              \/ k = "request" /\ x \in Requests /\ j \in RequestOwes(x)'
         /\ \A v \in Workers : Executing(v, j)' = Executing(v, j)
<1>1. ASSUME NEW v \in Workers
      PROVE  Carries(v)' = Carries(v) /\ Executing(v, j)' = Executing(v, j)
  BY DEF workerVars, Carries, Executing
<1> QED BY <1>1 DEF Has

\* Pushing the reference that a process carries moves it to the list.
LEMMA PushMoves ==
  ASSUME TypeOK, NEW j \in Jobs, OnePlace(j), Fits(j), NEW k, NEW x, Has(k, x, j),
         k \notin {"list", "worker"}, NEW t \in Tiers, Push(j, t),
         Status(j)' = Status(j),
         \A l, y : Has(l, y, j)' => l = "list" \/ (Has(l, y, j) /\ ~(l = k /\ y = x))
  PROVE  \E l \in Kinds, y \in Places : MovedTo(l, y, j)
<1>0. queue \in [Tiers -> [Jobs -> Nat]] /\ k \in Kinds /\ x \in Places
  BY DEF TypeOK, TransportTypeOK, Has, Kinds, Places
<1>1. \A l, y : Has(l, y, j) => l = k /\ y = x
  BY OnlyThere
<1>2. ASSUME NEW s \in Tiers PROVE queue[s][j] = 0
  <2>1. ~Has("list", s, j)
    BY <1>1
  <2> QED BY <1>0, <2>1 DEF Has
<1>3. queue'[t][j] = 1 /\ \A s \in Tiers \ {t} : queue'[s][j] = 0
  BY <1>0, <1>2 DEF Push
<1>4. \A l, y : Has(l, y, j)' => l = "list" /\ y = t
  <2> SUFFICES ASSUME NEW l, NEW y, Has(l, y, j)' PROVE l = "list" /\ y = t
    OBVIOUS
  <2>1. l = "list"
    BY <1>1
  <2>2. y \in Tiers /\ queue'[y][j] > 0
    BY <2>1 DEF Has
  <2> QED BY <1>3, <2>1, <2>2
<1>5. Status(j)' \in Referred
  BY <1>0 DEF Fits
<1>6. MovedTo("list", t, j)
  BY <1>3, <1>4, <1>5 DEF MovedTo
<1> QED BY <1>6 DEF Kinds, Places

\* Pushing another job leaves j alone.
LEMMA PushOther ==
  ASSUME TypeOK, NEW j \in Jobs, NEW i \in Jobs, i # j, NEW t \in Tiers, Push(i, t)
  PROVE  \A s \in Tiers : queue'[s][j] = queue[s][j] /\ queue[s][j] \in Nat
BY DEF TypeOK, TransportTypeOK, Push

\* A row that a sweep takes back has no reference, so that the sweep's is the
\* only one.
LEMMA SweptHasNone ==
  ASSUME TypeOK, LockInv, NEW j \in DueRetries \cup StaleJobs, Fits(j)
  PROVE  \A k, x : ~Has(k, x, j)
<1>1. j \in Jobs /\ Status(j) \notin Referred
  BY DEF DueRetries, StaleJobs, Referred
<1>2. \A w \in Workers : ~Executing(w, j)
  BY StaleIsUnattended DEF DueRetries, LockInv, LockProtects
<1> QED BY <1>1, <1>2, NoReference

\* The sweep moves it to whoever issued the statement.
LEMMA SweepMoves ==
  ASSUME TypeOK, LockInv, NEW j \in Jobs, Fits(j), NEW batch, NEW x \in Places,
         \/ batch = DueRetries /\ ReclaimDueRetries
         \/ batch = StaleJobs /\ ReclaimStaleJobs,
         UNCHANGED <<queue, scheduled, workerVars>>,
         \A k, y : Has(k, y, j)' => Has(k, y, j) \/ (k = "service" /\ y = x /\ j \in batch)
  PROVE  Kept(j) \/ MovedTo("service", x, j)
<1>0. /\ queue \in [Tiers -> [Jobs -> Nat]] /\ jobs \in [Jobs -> Row]
  BY DEF TypeOK, TransportTypeOK, StoreTypeOK
<1>1. CASE j \in batch
  <2>1. \A k, y : ~Has(k, y, j)
    BY <1>1, SweptHasNone
  <2>2. ASSUME NEW s \in Tiers PROVE queue'[s][j] = 0
    <3>1. ~Has("list", s, j)
      BY <2>1
    <3> QED BY <1>0, <3>1 DEF Has
  <2>3. jobs'[j] = Unlocked(jobs[j], "PENDING")
    BY <1>1 DEF ReclaimDueRetries, ReclaimStaleJobs
  <2>4. Status(j)' = "PENDING"
    BY <1>0, <2>3, NewStatus DEF Status
  <2> QED BY <2>1, <2>2, <2>4 DEF MovedTo, Referred
<1>2. CASE j \notin batch
  <2>1. jobs'[j] = jobs[j]
    BY <1>2 DEF ReclaimDueRetries, ReclaimStaleJobs
  <2>2. \A k, y : Has(k, y, j)' => Has(k, y, j)
    BY <1>2
  <2> QED BY <1>0, <2>1, <2>2, StillWorkersKeep DEF Kept, Status
<1> QED BY <1>1, <1>2

\* The scheduler takes back rows that have no reference, and pushes one for
\* each that it took.
LEMMA SchedulerRefs ==
  ASSUME TypeOK, LockInv, RefInv, SchedulerNext, LeavesWorkers, LeavesApi,
         UNCHANGED reaperVars, NEW j \in Jobs, NotDelayed(j), OnePlace(j), Fits(j)
  PROVE  Kept(j) \/ \E k \in Kinds, x \in Places : MovedTo(k, x, j)
<1>0. /\ jobs \in [Jobs -> Row] /\ queue \in [Tiers -> [Jobs -> Nat]]
      /\ \A i \in Jobs : TierOf(jobs[i].priority) \in Tiers
      /\ "scheduler" \in Places /\ "service" \in Kinds
  BY DEF TypeOK, StoreTypeOK, TransportTypeOK, TierOf, Tiers, Places, Kinds
<1>1. /\ UNCHANGED workerVars /\ ReaperOwes' = ReaperOwes
      /\ \A r \in Requests : RequestOwes(r)' = RequestOwes(r)
  BY DEF LeavesWorkers, LeavesApi, ReaperOwes, reaperVars, RequestOwes, apiVars
<1>2. \A k, x : Has(k, x, j)' =>
         \/ Has(k, x, j)
         \/ k = "list" /\ x \in Tiers /\ queue'[x][j] > 0
         \/ k = "service" /\ x = "scheduled" /\ j \in scheduled'
         \/ k = "service" /\ x = "scheduler" /\ j \in SchedulerOwes'
  BY <1>1, StillWorkersKeep DEF Has
<1>3. CASE StartScheduler \/ SkipReaper \/ ExpireWorkers \/ SchedulerFails \/ CrashScheduler
  <2>1. UNCHANGED <<jobs, queue, scheduled>>
    BY <1>3 DEF StartScheduler, SkipReaper, ExpireWorkers, SchedulerFails, CrashScheduler,
       MarkExpiredWorkersDead, Drop, storeVars, transportVars
  <2>2. SchedulerOwes' = {}
    BY <1>3 DEF StartScheduler, SkipReaper, ExpireWorkers, SchedulerFails, CrashScheduler,
       Enter, Advance, SchedulerOwes
  <2>3. \A k, x : Has(k, x, j)' => Has(k, x, j)
    BY <1>2, <2>1, <2>2 DEF Has
  <2> QED BY <1>0, <1>1, <2>1, <2>3, StillWorkersKeep DEF Kept, Status
<1>4. ASSUME NEW i \in Jobs, SyncJob(i) PROVE Kept(j)
  <2>1. /\ i # j /\ UNCHANGED <<jobs, queue>> /\ scheduled' = scheduled \cup {i}
        /\ SchedulerOwes' = {}
    BY <1>4 DEF SyncJob, ServeOne, Schedule, storeVars, RefInv, SchedulerOwes
  <2>2. \A k, x : Has(k, x, j)' => Has(k, x, j)
    BY <1>2, <2>1 DEF Has
  <2> QED BY <1>0, <1>1, <2>1, <2>2, StillWorkersKeep DEF Kept, Status
<1>5. CASE PromoteDelayed
  <2>1. j \notin DueScheduled
    <3>1. SUFFICES ASSUME j \in scheduled PROVE jobs[j].start # "due"
      BY DEF DueScheduled
    <3>2. Has("service", "scheduled", j)
      BY <3>1 DEF Has
    <3>3. Status(j) \in Referred
      BY <3>2 DEF Fits, Kinds, Places
    <3> QED BY <3>3 DEF NotDelayed, Referred
  <2>2. /\ jobs' = jobs /\ scheduled' \subseteq scheduled /\ SchedulerOwes' = {}
        /\ \A t \in Tiers : queue'[t][j] = queue[t][j]
    BY <1>0, <1>5, <2>1 DEF PromoteDelayed, Advance, PromoteDue, storeVars, SchedulerOwes
  <2>3. \A k, x : Has(k, x, j)' => Has(k, x, j)
    BY <1>2, <2>2 DEF Has
  <2> QED BY <1>0, <1>1, <2>2, <2>3, StillWorkersKeep DEF Kept, Status
<1>6. CASE TakeRetries \/ TakeStale
  <2>1. PICK batch : /\ \/ batch = DueRetries /\ ReclaimDueRetries
                        \/ batch = StaleJobs /\ ReclaimStaleJobs
                     /\ sbatch' = batch /\ UNCHANGED <<queue, scheduled>>
    BY <1>6 DEF TakeRetries, TakeStale, Enter, transportVars
  <2>2. \A k, x : Has(k, x, j)' =>
          Has(k, x, j) \/ (k = "service" /\ x = "scheduler" /\ j \in batch)
    BY <1>2, <2>1 DEF SchedulerOwes, Has
  <2>3. Kept(j) \/ MovedTo("service", "scheduler", j)
    BY <1>0, <1>1, <2>1, <2>2, SweepMoves
  <2> QED BY <1>0, <2>3
<1>7. ASSUME NEW i \in Jobs, PushRetry(i) \/ PushStale(i)
      PROVE  Kept(j) \/ \E k \in Kinds, x \in Places : MovedTo(k, x, j)
  <2>1. /\ i \in SchedulerOwes /\ SchedulerOwes' \subseteq SchedulerOwes \ {i}
        /\ UNCHANGED <<jobs, scheduled>> /\ Push(i, TierOf(jobs[i].priority))
    BY <1>7 DEF PushRetry, PushStale, ServeOne, SchedulerOwes, Enqueue, storeVars
  <2>2. CASE i # j
    <3>1. \A s \in Tiers : queue'[s][j] = queue[s][j] /\ queue[s][j] \in Nat
      BY <1>0, <2>1, <2>2, PushOther
    <3>2. \A k, x : Has(k, x, j)' => Has(k, x, j)
      BY <1>2, <2>1, <3>1 DEF Has
    <3> QED BY <1>0, <1>1, <2>1, <3>1, <3>2, StillWorkersKeep DEF Kept, Status
  <2>3. CASE i = j
    <3>1. Has("service", "scheduler", j)
      BY <2>1, <2>3 DEF Has
    <3>2. \A l, y : Has(l, y, j)' => l = "list"
                      \/ (Has(l, y, j) /\ ~(l = "service" /\ y = "scheduler"))
      BY <2>1, <2>3, <1>2 DEF Has
    <3>3. PICK t \in Tiers : t = TierOf(jobs[j].priority)
      BY <1>0
    <3>4. Push(j, t) /\ Status(j)' = Status(j)
      BY <2>1, <2>3, <3>3 DEF Status
    <3>5. "service" \notin {"list", "worker"}
      OBVIOUS
    <3>6. \E l \in Kinds, y \in Places : MovedTo(l, y, j)
      BY <3>1, <3>2, <3>4, <3>5, PushMoves
    <3> QED BY <3>6
  <2> QED BY <2>2, <2>3
<1> QED BY <1>3, <1>4, <1>5, <1>6, <1>7 DEF SchedulerNext, SchedulerStep

\* So does the reaper, whose requeue holds the row between its two commands.
LEMMA ReaperRefs ==
  ASSUME TypeOK, LockInv, RefInv, ReaperNext, LeavesWorkers, LeavesApi,
         UNCHANGED schedulerVars, NEW j \in Jobs, NotDelayed(j), OnePlace(j), Fits(j)
  PROVE  Kept(j) \/ \E k \in Kinds, x \in Places : MovedTo(k, x, j)
<1>0. /\ jobs \in [Jobs -> Row] /\ queue \in [Tiers -> [Jobs -> Nat]]
      /\ "reaper" \in Places /\ "service" \in Kinds /\ "default" \in Tiers
      /\ "service" \notin {"list", "worker"}
      /\ rpc \in {"off", "expire", "reclaim", "retries"} => rbatch = {}
  BY DEF TypeOK, StoreTypeOK, TransportTypeOK, ReaperTypeOK, Tiers, Places, Kinds
<1>1. /\ UNCHANGED workerVars /\ SchedulerOwes' = SchedulerOwes
      /\ \A r \in Requests : RequestOwes(r)' = RequestOwes(r)
  BY DEF LeavesWorkers, LeavesApi, SchedulerOwes, schedulerVars, RequestOwes, apiVars
<1>2. \A k, x : Has(k, x, j)' =>
         \/ Has(k, x, j) /\ x # "reaper"
         \/ k = "list" /\ x \in Tiers /\ queue'[x][j] > 0
         \/ k = "service" /\ x = "scheduled" /\ j \in scheduled'
         \/ k = "service" /\ x = "reaper" /\ j \in ReaperOwes'
         \/ k \in {"worker", "request"} /\ Has(k, x, j)
  BY <1>1, StillWorkersKeep DEF Has
<1>3. ASSUME UNCHANGED <<jobs, queue, scheduled>>, ReaperOwes' \subseteq ReaperOwes
      PROVE  Kept(j)
  <2>1. \A k, x : Has(k, x, j)' => Has(k, x, j)
    BY <1>2, <1>3 DEF Has
  <2> QED BY <1>0, <1>1, <1>3, <2>1, StillWorkersKeep DEF Kept, Status
<1>4. CASE StartReaper \/ ReaperExpires \/ ReaperQueryFails \/ CrashReaper
  <2>1. UNCHANGED <<jobs, queue, scheduled>>
    BY <1>4 DEF StartReaper, ReaperExpires, ReaperQueryFails, CrashReaper,
       MarkExpiredWorkersDead, Drop, storeVars, transportVars
  <2>2. ReaperOwes' \subseteq ReaperOwes
    BY <1>4 DEF StartReaper, ReaperExpires, ReaperQueryFails, CrashReaper, ReaperOwes
  <2> QED BY <1>3, <2>1, <2>2
<1>5. ASSUME NEW i \in Jobs, RequeueRemoves(i) \/ ReaperPushFails(i) PROVE Kept(j)
  <2>1. UNCHANGED <<jobs, queue, scheduled>>
    BY <1>5 DEF RequeueRemoves, ReaperPushFails, Ack, Drop, storeVars
  <2>2. ReaperOwes' \subseteq ReaperOwes
    BY <1>5 DEF RequeueRemoves, ReaperPushFails, NextTurn, ReaperOwes
  <2> QED BY <1>3, <2>1, <2>2
<1>6. CASE ReaperReclaims \/ ReaperTakesRetries
  <2>1. PICK batch : /\ \/ batch = DueRetries /\ ReclaimDueRetries
                        \/ batch = StaleJobs /\ ReclaimStaleJobs
                     /\ rbatch' = batch /\ ReaperOwes' = batch
                     /\ UNCHANGED <<queue, scheduled>>
    BY <1>6 DEF ReaperReclaims, ReaperTakesRetries, NextTurn, ReaperOwes, transportVars
  <2>2. \A k, x : Has(k, x, j)' =>
          Has(k, x, j) \/ (k = "service" /\ x = "reaper" /\ j \in batch)
    BY <1>2, <2>1 DEF Has
  <2>3. Kept(j) \/ MovedTo("service", "reaper", j)
    BY <1>0, <1>1, <2>1, <2>2, SweepMoves
  <2> QED BY <1>0, <2>3
<1>7. ASSUME NEW i \in Jobs, ReaperPushesRetry(i) \/ (RequeuePushes /\ i = rcur)
      PROVE  Kept(j) \/ \E k \in Kinds, x \in Places : MovedTo(k, x, j)
  <2>1. /\ i \in ReaperOwes /\ ReaperOwes' \subseteq ReaperOwes \ {i}
        /\ UNCHANGED <<jobs, scheduled>> /\ Push(i, "default")
    BY <1>7 DEF ReaperPushesRetry, RequeuePushes, NextTurn, ReaperOwes, EnqueueOn,
       storeVars, RefInv
  <2>2. CASE i # j
    <3>1. \A s \in Tiers : queue'[s][j] = queue[s][j] /\ queue[s][j] \in Nat
      BY <1>0, <2>1, <2>2, PushOther
    <3>2. \A k, x : Has(k, x, j)' => Has(k, x, j)
      BY <1>2, <2>1, <3>1 DEF Has
    <3> QED BY <1>0, <1>1, <2>1, <3>1, <3>2, StillWorkersKeep DEF Kept, Status
  <2>3. CASE i = j
    <3>1. Has("service", "reaper", j)
      BY <2>1, <2>3 DEF Has
    <3>2. \A l, y : Has(l, y, j)' => l = "list"
                      \/ (Has(l, y, j) /\ ~(l = "service" /\ y = "reaper"))
      BY <2>1, <2>3, <1>2 DEF Has
    <3>3. Push(j, "default") /\ Status(j)' = Status(j)
      BY <2>1, <2>3 DEF Status
    <3>4. \E l \in Kinds, y \in Places : MovedTo(l, y, j)
      BY <1>0, <3>1, <3>2, <3>3, PushMoves
    <3> QED BY <3>4
  <2> QED BY <2>2, <2>3
<1>8. RequeuePushes => rcur \in Jobs
  BY DEF RequeuePushes, TypeOK, ReaperTypeOK
<1> QED BY <1>4, <1>5, <1>6, <1>7, <1>8 DEF ReaperNext, ReaperStep

\* A request creates the first reference of its job, or resets a dead letter,
\* which has none.
LEMMA ApiRefs ==
  ASSUME TypeOK, TypeOK', LockInv, ApiNext, LeavesWorkers, LeavesServices,
         NEW j \in Jobs, NotDelayed(j), OnePlace(j), Fits(j)
  PROVE  Kept(j) \/ \E k \in Kinds, x \in Places : MovedTo(k, x, j)
<1> PICK r \in Requests : FirstStep(r) \/ LaterStep(r) \/ AbortRequest(r)
  BY DEF ApiNext
<1>0. /\ jobs \in [Jobs -> Row] /\ queue \in [Tiers -> [Jobs -> Nat]]
      /\ queue' \in [Tiers -> [Jobs -> Nat]]
      /\ apc \in [Requests -> ApiLocations] /\ target \in [Requests -> Jobs \cup {NoJob}]
      /\ r \in Places /\ "request" \in Kinds /\ "request" \notin {"list", "worker"}
      /\ "default" \in Tiers
  BY DEF TypeOK, StoreTypeOK, TransportTypeOK, ApiTypeOK, Tiers, Places, Kinds
<1>1. /\ UNCHANGED workerVars /\ SchedulerOwes' = SchedulerOwes
      /\ ReaperOwes' = ReaperOwes
  BY DEF LeavesWorkers, LeavesServices, SchedulerOwes, schedulerVars, ReaperOwes,
     reaperVars
<1>2. ASSUME NEW q \in Requests, q # r PROVE RequestOwes(q)' = RequestOwes(q)
  BY <1>0, <1>2 DEF RequestOwes, FirstStep, LaterStep, AbortRequest, CreateJob, CancelJob,
     SelectLetter, SubmitJob, PurgeQueue, PurgeSchedule, CommitReplay, EnqueueReplayed,
     Move
<1>3. \A k, x : Has(k, x, j)' =>
         \/ Has(k, x, j) /\ ~(k = "request" /\ x = r)
         \/ k = "list" /\ x \in Tiers /\ queue'[x][j] > 0
         \/ k = "service" /\ x = "scheduled" /\ j \in scheduled'
         \/ k = "request" /\ x = r /\ j \in RequestOwes(r)'
  BY <1>1, <1>2, StillWorkersKeep DEF Has
<1>4. ASSUME \A s \in Tiers : queue'[s][j] <= queue[s][j],
             j \in scheduled' => j \in scheduled,
             j \in RequestOwes(r)' => j \in RequestOwes(r),
             Status(j)' = Status(j) \/ Status(j)' = "FAILED"
      PROVE  Kept(j)
  <2>1. \A k, x : Has(k, x, j)' => Has(k, x, j)
    <3>1. \A x \in Tiers : queue'[x][j] > 0 => queue[x][j] > 0
      BY <1>0, <1>4
    <3> QED BY <1>3, <1>4, <3>1 DEF Has
  <2>2. \A v \in Workers : Executing(v, j)' = Executing(v, j)
    BY <1>1, StillWorkersKeep
  <2>3. Status(j) \in Referred => Status(j)' \in Referred
    BY <1>4 DEF Referred
  <2> QED BY <1>4, <2>1, <2>2, <2>3 DEF Kept
\* The row is new for the lists.
<1>5. ASSUME NEW i \in Jobs, UNCHANGED <<queue, scheduled>>, RequestOwes(r)' = {i},
             i = j => Status(j) \notin Referred /\ Status(j)' = "PENDING"
                        /\ \A w \in Workers : ~Executing(w, j),
             i # j => jobs'[j] = jobs[j]
      PROVE  Kept(j) \/ \E k \in Kinds, x \in Places : MovedTo(k, x, j)
  <2>1. CASE i # j
    BY <1>0, <1>4, <1>5, <2>1 DEF Status
  <2>2. CASE i = j
    <3>1. \A k, x : ~Has(k, x, j)
      BY <1>5, <2>2, NoReference
    <3>2. ASSUME NEW s \in Tiers PROVE queue'[s][j] = 0
      <4>1. ~Has("list", s, j)
        BY <3>1
      <4> QED BY <1>0, <1>5, <4>1 DEF Has
    <3>3. \A k, x : Has(k, x, j)' => k = "request" /\ x = r
      BY <1>3, <1>5, <3>1, <3>2 DEF Has
    <3>4. MovedTo("request", r, j)
      BY <1>5, <2>2, <3>2, <3>3 DEF MovedTo, Referred
    <3> QED BY <1>0, <3>4
  <2> QED BY <2>1, <2>2
<1>6. ASSUME NEW i \in Jobs, CreateJob(r, i)
      PROVE  Kept(j) \/ \E k \in Kinds, x \in Places : MovedTo(k, x, j)
  <2>1. /\ UNCHANGED <<queue, scheduled>> /\ RequestOwes(r)' = {i}
        /\ Status(i) = "ABSENT" /\ Status(i)' = "PENDING"
        /\ i # j => jobs'[j] = jobs[j]
    BY <1>0, <1>6 DEF CreateJob, Move, RequestOwes, InsertJob, NewRow, Fresh, Status,
       transportVars
  <2>2. \A w \in Workers : ~Executing(w, i)
    BY <2>1 DEF LockInv, LockProtects
  <2> QED BY <1>5, <2>1, <2>2 DEF Referred
<1>7. CASE CommitReplay(r)
  <2>1. PICK i \in Jobs, n \in Nat : i = target[r] /\ n = letter[r]
    BY <1>7 DEF CommitReplay, Move, TypeOK, ApiTypeOK
  <2>2. Status(i) = "DEAD_LETTER"
    BY <1>7, <2>1 DEF CommitReplay, Move, LockInv, SelectedIsThere, LettersFit
  <2>3. /\ UNCHANGED <<queue, scheduled>> /\ RequestOwes(r)' = {i}
        /\ jobs' = [jobs EXCEPT ![i] = ReplayedRow(jobs[i])]
    BY <1>0, <1>7, <2>1 DEF CommitReplay, Move, RequestOwes, ReplayRow, transportVars
  <2>4. Status(i)' = "PENDING" /\ (i # j => jobs'[j] = jobs[j])
    BY <1>0, <2>3, NewStatus DEF Status
  <2>5. \A w \in Workers : ~Executing(w, i)
    BY <2>2 DEF LockInv, LockProtects
  <2> QED BY <1>5, <2>2, <2>3, <2>4, <2>5 DEF Referred
\* One push, of the reference that the request carried.
<1>8. ASSUME NEW i \in Jobs, NEW t \in Tiers, Push(i, t), i \in RequestOwes(r),
             RequestOwes(r)' = {}, UNCHANGED <<jobs, scheduled>>
      PROVE  Kept(j) \/ \E k \in Kinds, x \in Places : MovedTo(k, x, j)
  <2>1. CASE i # j
    <3>1. \A s \in Tiers : queue'[s][j] = queue[s][j] /\ queue[s][j] \in Nat
      BY <1>8, <2>1, PushOther
    <3> QED BY <1>4, <1>8, <3>1 DEF Status
  <2>2. CASE i = j
    <3>1. Has("request", r, j)
      BY <1>8, <2>2 DEF Has
    <3>2. \A l, y : Has(l, y, j)' => l = "list"
                      \/ (Has(l, y, j) /\ ~(l = "request" /\ y = r))
      BY <1>3, <1>8 DEF Has
    <3>3. Push(j, t) /\ Status(j)' = Status(j)
      BY <1>8, <2>2 DEF Status
    <3>4. \E l \in Kinds, y \in Places : MovedTo(l, y, j)
      <4>1. "request" \notin {"list", "worker"}
        OBVIOUS
      <4> QED BY <3>1, <3>2, <3>3, <4>1, PushMoves
    <3> QED BY <3>4
  <2> QED BY <2>1, <2>2
<1>9. CASE SubmitJob(r)
  <2>1. PICK i \in Jobs : i = target[r]
    BY <1>9 DEF SubmitJob, Move, TypeOK, ApiTypeOK
  <2>2. i \in RequestOwes(r) /\ RequestOwes(r)' = {} /\ jobs' = jobs
    BY <1>0, <1>9, <2>1 DEF SubmitJob, Move, RequestOwes, storeVars
  <2>3. PICK t \in Tiers : t = TierOf(jobs[i].priority)
    BY DEF TierOf, Tiers
  <2>4. CASE jobs[i].start = "now"
    <3>1. Push(i, t) /\ scheduled' = scheduled
      BY <1>9, <2>1, <2>3, <2>4 DEF SubmitJob, Enqueue
    <3> QED BY <1>8, <2>2, <3>1
  <2>5. CASE jobs[i].start # "now"
    <3>1. i # j
      <4>1. SUFFICES ASSUME i = j PROVE FALSE
        OBVIOUS
      <4>2. Has("request", r, j)
        BY <2>2, <4>1 DEF Has
      <4>3. Status(j) \in Referred
        BY <1>0, <4>2 DEF Fits
      <4> QED BY <2>5, <4>1, <4>3 DEF NotDelayed, Referred
    <3>2. queue' = queue /\ scheduled' = scheduled \cup {i}
      BY <1>9, <2>1, <2>5 DEF SubmitJob, Schedule
    <3> QED BY <1>0, <1>4, <2>2, <3>1, <3>2 DEF Status
  <2> QED BY <2>4, <2>5
<1>10. CASE EnqueueReplayed(r)
  <2>1. PICK i \in Jobs : i = target[r]
    BY <1>10 DEF EnqueueReplayed, Move, TypeOK, ApiTypeOK
  <2>2. /\ i \in RequestOwes(r) /\ RequestOwes(r)' = {}
        /\ UNCHANGED <<jobs, scheduled>> /\ Push(i, "default")
    BY <1>0, <1>10, <2>1 DEF EnqueueReplayed, Move, RequestOwes, EnqueueOn, storeVars
  <2> QED BY <1>0, <1>8, <2>2
<1>11. ASSUME NEW i \in Jobs, CancelJob(r, i) PROVE Kept(j)
  <2>1. UNCHANGED <<queue, scheduled>> /\ RequestOwes(r)' = {}
    BY <1>0, <1>11 DEF CancelJob, Move, RequestOwes, transportVars
  <2>2. jobs'[j] = jobs[j] \/ jobs'[j] = Unlocked(jobs[j], "FAILED")
    BY <1>0, <1>11 DEF CancelJob, CancelRow
  <2>3. Status(j)' = Status(j) \/ Status(j)' = "FAILED"
    BY <1>0, <2>2, NewStatus DEF Status
  <2> QED BY <1>0, <1>4, <2>1, <2>3
<1>12. ASSUME \/ \E i \in Jobs : \E n \in 1..letters[i] : SelectLetter(r, i, n)
              \/ PurgeQueue(r) \/ PurgeSchedule(r) \/ AbortRequest(r)
       PROVE  Kept(j)
  <2>1. jobs' = jobs /\ RequestOwes(r)' = {}
    BY <1>0, <1>12 DEF SelectLetter, PurgeQueue, PurgeSchedule, AbortRequest, Move,
       RequestOwes, storeVars
  <2>2. CASE PurgeQueue(r)
    <3>1. PICK i \in Jobs, t \in Tiers : RemoveFrom(i, t)
      BY <2>2 DEF PurgeQueue, Move, Tiers, TypeOK, ApiTypeOK
    <3>2. /\ scheduled' = scheduled
          /\ \A s \in Tiers : queue'[s][j] <= queue[s][j]
      BY <1>0, <3>1 DEF RemoveFrom
    <3> QED BY <1>4, <2>1, <3>2 DEF Status
  <2>3. CASE ~PurgeQueue(r)
    <3>1. scheduled' \subseteq scheduled /\ queue' = queue
      BY <1>12, <2>3 DEF SelectLetter, PurgeSchedule, AbortRequest, Unschedule, Drop,
         transportVars
    <3>2. \A s \in Tiers : queue'[s][j] <= queue[s][j]
      BY <1>0, <3>1
    <3> QED BY <1>4, <2>1, <3>1, <3>2 DEF Status
  <2> QED BY <2>2, <2>3
<1> QED
  BY <1>6, <1>7, <1>9, <1>10, <1>11, <1>12 DEF FirstStep, LaterStep

\* The clocks move nothing.
LEMMA TimeRefs ==
  ASSUME TypeOK, Time, NEW j \in Jobs
  PROVE  Kept(j)
<1>0. jobs \in [Jobs -> Row] /\ queue \in [Tiers -> [Jobs -> Nat]]
  BY DEF TypeOK, StoreTypeOK, TransportTypeOK
<1>1. UNCHANGED <<transportVars, workerVars, schedulerVars, reaperVars, apiVars>>
  BY DEF Time, RetryDue, StartDue, LockOverdue, HeartbeatOverdue, LockGoesStale,
     HeartbeatGoesLate, LeavesWorkers, LeavesServices, LeavesApi
<1>2. Status(j)' = Status(j)
  <2>1. \/ jobs' = jobs
        \/ \E i \in Jobs : RetryBecomesDue(i) \/ StartBecomesDue(i) \/ LockTurnsStale(i)
    BY DEF Time, RetryDue, StartDue, LockOverdue, HeartbeatOverdue, LockGoesStale,
       HeartbeatGoesLate, HeartbeatTurnsLate
  <2>2. ASSUME NEW i \in Jobs, RetryBecomesDue(i) \/ StartBecomesDue(i) \/ LockTurnsStale(i)
        PROVE  Status(j)' = Status(j)
    <3>1. CASE i = j
      <4>1. jobs[j] \in Row
        BY <1>0
      <4>2. \/ jobs' = [jobs EXCEPT ![j].retryDue = TRUE]
            \/ jobs' = [jobs EXCEPT ![j].start = "due"]
            \/ jobs' = [jobs EXCEPT ![j].lockStale = TRUE]
        BY <2>2, <3>1 DEF RetryBecomesDue, StartBecomesDue, LockTurnsStale
      <4> QED BY <1>0, <4>1, <4>2 DEF Status, Row
    <3>2. CASE i # j
      BY <1>0, <2>2, <3>2 DEF RetryBecomesDue, StartBecomesDue, LockTurnsStale, Status
    <3> QED BY <3>1, <3>2
  <2> QED BY <2>1, <2>2 DEF Status
<1>3. \A k, x : Has(k, x, j)' => Has(k, x, j)
  <2>1. /\ SchedulerOwes' = SchedulerOwes /\ ReaperOwes' = ReaperOwes
        /\ \A r \in Requests : RequestOwes(r)' = RequestOwes(r)
    BY <1>1 DEF SchedulerOwes, ReaperOwes, RequestOwes, schedulerVars, reaperVars, apiVars
  <2> QED BY <1>1, <2>1, StillWorkersKeep DEF Has, transportVars
<1> QED BY <1>0, <1>1, <1>2, <1>3, StillWorkersKeep DEF Kept, transportVars

-----------------------------------------------------------------------------
(* The invariant and the count.                                            *)

\* A row that has no date never had one.
LEMMA NotDelayedStays ==
  ASSUME TypeOK, [Next]_vars, NEW j \in Jobs, NotDelayed(j)'
  PROVE  NotDelayed(j)
<1>0. jobs[j] \in Row /\ RowEffect(j)
  BY EveryStepIsStatement, EffectOfStatement DEF TypeOK, StoreTypeOK
<1>1. SUFFICES ASSUME Status(j) # "ABSENT" PROVE jobs[j].start = "now"
  BY DEF NotDelayed
<1>2. jobs'[j].start = "now"
  BY <1>0, <1>1, RowsLast DEF NotDelayed, Status
<1>3. ASSUME \/ \E w \in Workers : jobs'[j] = LockedRow(jobs[j], w)
             \/ \E s \in Statuses \ {"ABSENT"} : jobs'[j] = Unlocked(jobs[j], s)
             \/ jobs'[j] = RetryingRow(jobs[j])
             \/ jobs'[j] = ReplayedRow(jobs[j])
      PROVE  jobs'[j].start = jobs[j].start
  <2>1. \A s : Unlocked(jobs[j], s).start = jobs[j].start
    BY <1>0 DEF Unlocked, Row
  <2>2. \A w : LockedRow(jobs[j], w).start = jobs[j].start
    BY <1>0 DEF LockedRow, Row
  <2>3. /\ RetryingRow(jobs[j]).start = jobs[j].start
        /\ ReplayedRow(jobs[j]).start = jobs[j].start
    BY <1>0 DEF RetryingRow, ReplayedRow, Unlocked, Row
  <2> QED BY <1>3, <2>1, <2>2, <2>3
<1>4. ASSUME \/ jobs'[j] = [jobs[j] EXCEPT !.start = "due"]
             \/ jobs'[j] = [jobs[j] EXCEPT !.retryDue = TRUE]
             \/ jobs'[j] = [jobs[j] EXCEPT !.lockStale = TRUE]
      PROVE  jobs[j].start = "now"
  BY <1>0, <1>2, <1>4 DEF Row
<1> QED BY <1>0, <1>1, <1>2, <1>3, <1>4 DEF RowEffect

\* A scheduler that starts syncs delayed jobs only, and a requeue holds a row
\* that is not in the rest of the batch.
LEMMA BatchesStay ==
  ASSUME TypeOK, RefInv, [Next]_vars
  PROVE  /\ spc' = "syncing" => \A j \in sbatch' : ~NotDelayed(j)'
         /\ rpc' = "pushBack" => rcur' \notin rbatch'
<1>1. ASSUME spc' = "syncing", NEW j \in sbatch' PROVE j \in Jobs /\ ~NotDelayed(j)
  <2>1. CASE UNCHANGED schedulerVars
    BY <1>1, <2>1 DEF RefInv, schedulerVars, TypeOK, SchedulerTypeOK
  <2>2. CASE SchedulerNext
    <3>1. StartScheduler \/ \E i \in Jobs : SyncJob(i)
      BY <1>1, <2>2 DEF SchedulerNext, SchedulerStep, StartScheduler, PromoteDelayed,
         TakeRetries, ExpireWorkers, TakeStale, SyncJob, PushRetry, PushStale, SkipReaper,
         SchedulerFails, CrashScheduler, Enter, Advance, ServeOne
    <3>2. CASE StartScheduler
      BY <1>1, <3>2 DEF StartScheduler, Enter, PendingScheduled, NotDelayed
    <3>3. ASSUME NEW i \in Jobs, SyncJob(i) PROVE j \in Jobs /\ ~NotDelayed(j)
      BY <1>1, <3>3 DEF SyncJob, ServeOne, RefInv, TypeOK, SchedulerTypeOK
    <3> QED BY <3>1, <3>2, <3>3
  <2>3. SchedulerNext \/ UNCHANGED schedulerVars
    BY DEF Next, LeavesServices, Time, RetryDue, StartDue, LockOverdue, HeartbeatOverdue,
       vars
  <2> QED BY <2>1, <2>2, <2>3
<1>2. rpc' = "pushBack" => rcur' \notin rbatch'
  <2>1. CASE UNCHANGED reaperVars
    BY <2>1 DEF RefInv, reaperVars
  <2>2. CASE ReaperNext
    BY <2>2 DEF ReaperNext, ReaperStep, StartReaper, ReaperExpires, ReaperReclaims,
       RequeueRemoves, RequeuePushes, ReaperTakesRetries, ReaperPushesRetry,
       ReaperPushFails, ReaperQueryFails, CrashReaper, NextTurn
  <2>3. ReaperNext \/ UNCHANGED reaperVars
    BY DEF Next, LeavesServices, Time, RetryDue, StartDue, LockOverdue, HeartbeatOverdue,
       vars
  <2> QED BY <2>1, <2>2, <2>3
<1> QED BY <1>1, <1>2, NotDelayedStays

\* The invariant is inductive, beside LockInv.
LEMMA NextRefs ==
  ASSUME TypeOK, TypeOK', LockInv, RefInv, "db" \notin Faults, [Next]_vars
  PROVE  RefInv'
<1>1. ASSUME NEW j \in Jobs, NotDelayed(j)' PROVE OnePlace(j)' /\ Fits(j)'
  <2>0. NotDelayed(j) /\ OnePlace(j) /\ Fits(j)
    BY <1>1, NotDelayedStays DEF RefInv
  <2>1. CASE WorkerNext /\ LeavesServices /\ LeavesApi
    <3>1. Kept(j) \/ UsedUp(j) \/ \E k \in Kinds, x \in Places : MovedTo(k, x, j)
      BY <1>1, <2>0, <2>1, WorkerRefs
    <3> QED BY <2>0, <3>1, StepKeepsOne
  <2>2. CASE SchedulerNext /\ LeavesWorkers /\ LeavesApi /\ UNCHANGED reaperVars
    <3>1. Kept(j) \/ \E k \in Kinds, x \in Places : MovedTo(k, x, j)
      BY <2>0, <2>2, SchedulerRefs
    <3> QED BY <2>0, <3>1, StepKeepsOne
  <2>3. CASE ReaperNext /\ LeavesWorkers /\ LeavesApi /\ UNCHANGED schedulerVars
    <3>1. Kept(j) \/ \E k \in Kinds, x \in Places : MovedTo(k, x, j)
      BY <2>0, <2>3, ReaperRefs
    <3> QED BY <2>0, <3>1, StepKeepsOne
  <2>4. CASE ApiNext /\ LeavesWorkers /\ LeavesServices
    <3>1. Kept(j) \/ \E k \in Kinds, x \in Places : MovedTo(k, x, j)
      BY <2>0, <2>4, ApiRefs
    <3> QED BY <2>0, <3>1, StepKeepsOne
  <2>5. CASE Time
    BY <2>0, <2>5, TimeRefs, StepKeepsOne
  <2>6. CASE UNCHANGED vars
    <3>1. \A k, x : Has(k, x, j)' => Has(k, x, j)
      BY <2>6 DEF Has, vars, Carries, Executing, RequestOwes, SchedulerOwes, ReaperOwes,
         workerVars, transportVars, schedulerVars, reaperVars, apiVars
    <3>2. Status(j)' = Status(j) /\ queue' = queue
          /\ \A w \in Workers : Executing(w, j)' = Executing(w, j)
      BY <2>6 DEF vars, Status, storeVars, transportVars, Executing, workerVars
    <3>3. \A t \in Tiers : queue'[t][j] <= queue[t][j]
      BY <3>2 DEF TypeOK, TransportTypeOK
    <3>4. Kept(j)
      BY <3>1, <3>2, <3>3 DEF Kept
    <3> QED BY <2>0, <3>4, StepKeepsOne
  <2> QED BY <2>1, <2>2, <2>3, <2>4, <2>5, <2>6 DEF Next
<1> QED BY <1>1, BatchesStay DEF RefInv

\* One place means that the count is one at most.
LEMMA OnePlaceCounts ==
  ASSUME TypeOK, NEW j \in Jobs, OnePlace(j)
  PROVE  BagCount(j) + Cardinality(Carriers(j)) <= 1
<1>0. \A t \in Tiers : queue[t][j] \in Nat /\ queue[t][j] <= 1
  BY DEF TypeOK, TransportTypeOK, OnePlace
<1>1. ASSUME NEW x \in Carriers(j)
      PROVE  \E k \in {"worker", "request", "service"} :
               Has(k, x, j) /\ (k = "service" => x # "scheduled")
  BY <1>1 DEF Carriers, Has, Requests
<1>2. /\ \A t \in Tiers : queue[t][j] > 0 => Has("list", t, j)
      /\ j \in scheduled => Has("service", "scheduled", j)
  BY DEF Has
<1>3. \A k, l, x, y : Has(k, x, j) /\ Has(l, y, j) => k = l /\ x = y
  BY OnlyThere
<1>4. /\ "high" \in Tiers /\ "default" \in Tiers /\ "low" \in Tiers
      /\ \A t \in Tiers : t = "high" \/ t = "default" \/ t = "low"
  BY DEF Tiers
<1>5. CASE j \in scheduled \/ \E t \in Tiers : queue[t][j] > 0
  <2>1. Carriers(j) = {}
    BY <1>1, <1>2, <1>3, <1>5
  <2>2. BagCount(j) <= 1
    <3>1. \A s, t \in Tiers : queue[s][j] > 0 /\ queue[t][j] > 0 => s = t
      BY <1>2, <1>3
    <3>2. \A t \in Tiers : ~(j \in scheduled /\ queue[t][j] > 0)
      BY <1>2, <1>3
    <3> QED BY <1>0, <1>4, <3>1, <3>2 DEF BagCount
  <2>3. BagCount(j) \in Nat
    BY <1>0, <1>4 DEF BagCount
  <2> QED BY <2>1, <2>2, <2>3, FS_EmptySet
<1>6. CASE j \notin scheduled /\ \A t \in Tiers : ~(queue[t][j] > 0)
  <2>1. BagCount(j) = 0
    BY <1>0, <1>4, <1>6 DEF BagCount
  <2>2. \A x, y \in Carriers(j) : x = y
    BY <1>1, <1>3
  <2>3. CASE Carriers(j) = {}
    BY <2>1, <2>3, FS_EmptySet
  <2>4. ASSUME NEW x \in Carriers(j)
        PROVE  BagCount(j) + Cardinality(Carriers(j)) <= 1
    <3>1. Carriers(j) = {x}
      BY <2>2, <2>4
    <3>2. Cardinality({x}) = 1
      BY FS_Singleton
    <3> QED BY <2>1, <3>1, <3>2
  <2> QED BY <2>3, <2>4
<1> QED BY <1>5, <1>6

\* RefInv is an invariant, beside LockInv.
LEMMA ReferenceInvariant ==
  ASSUME ~Overrun, "db" \notin Faults, \A q, s \in Replayers : q = s
  PROVE  Spec => []RefInv
<1>1. Init => RefInv
  <2> SUFFICES ASSUME Init PROVE RefInv
    OBVIOUS
  <2>1. ASSUME NEW j \in Jobs PROVE OnePlace(j) /\ Fits(j)
    <3>1. \A k, x : ~Has(k, x, j)
      BY DEF Init, TransportInit, WorkerInit, SchedulerInit, ReaperInit, ApiInit, Has,
         Carries, Executing, RequestOwes, SchedulerOwes, ReaperOwes
    <3>2. \A t \in Tiers : queue[t][j] <= 1
      BY DEF Init, TransportInit
    <3> QED BY <3>1, <3>2 DEF OnePlace, Fits
  <2> QED BY <2>1 DEF Init, SchedulerInit, ReaperInit, RefInv
<1>2. TypeOK /\ TypeOK' /\ LockInv /\ RefInv /\ [Next]_vars => RefInv'
  BY NextRefs
<1> QED BY <1>1, <1>2, LockInvariant, TypeCorrect, PTL DEF Spec

\* While no timeout expires under a live worker, PostgreSQL answers and there
\* is one replay at most, a job that was not delayed has one reference or one
\* executor, never two: for every number of workers and requests, with the
\* scheduler and the standalone reaper, processes that crash and a Redis that
\* fails.
THEOREM OneReference ==
  ASSUME ~Overrun, "db" \notin Faults, \A q, s \in Replayers : q = s
  PROVE  Spec => []SingleReference
<1>1. TypeOK /\ RefInv => SingleReference
  <2> SUFFICES ASSUME TypeOK, RefInv, NEW j \in Jobs, jobs[j].start = "now"
               PROVE  BagCount(j) + Cardinality(Carriers(j)) <= 1
    BY DEF SingleReference
  <2> QED BY OnePlaceCounts DEF RefInv, NotDelayed
<1> QED BY <1>1, ReferenceInvariant, TypeCorrect, PTL

-----------------------------------------------------------------------------
(* The lists of the tiers.                                                 *)

\* The replays of j that were committed.
ReplaysFor(j) ==
  {r \in Replayers : apc[r] \in {"committed", "done", "aborted"} /\ target[r] = j}

\* A request that has replayed a job has done so for good.
LEMMA ReplaysStep ==
  ASSUME TypeOK, [Next]_vars, NEW j \in Jobs
  PROVE  /\ ReplaysFor(j) \subseteq ReplaysFor(j)'
         /\ \E r : ReplaysFor(j)' \subseteq ReplaysFor(j) \cup {r}
         /\ \A r \in Replayers : CommitReplay(r) /\ target[r] = j =>
              r \in ReplaysFor(j)' /\ r \notin ReplaysFor(j)
<1>0. /\ apc \in [Requests -> ApiLocations] /\ target \in [Requests -> Jobs \cup {NoJob}]
      /\ Replayers \subseteq Requests /\ NoJob \notin Jobs
  BY StoreAssumption DEF TypeOK, ApiTypeOK, Requests
<1>1. CASE UNCHANGED apiVars
  <2>1. ReplaysFor(j)' = ReplaysFor(j)
    BY <1>1 DEF apiVars, ReplaysFor
  <2>2. \A r \in Replayers : ~CommitReplay(r)
    BY <1>0, <1>1 DEF apiVars, CommitReplay, Move
  <2> QED BY <2>1, <2>2
<1>2. ASSUME NEW r \in Requests, FirstStep(r) \/ LaterStep(r) \/ AbortRequest(r)
      PROVE  /\ ReplaysFor(j) \subseteq ReplaysFor(j)'
             /\ ReplaysFor(j)' \subseteq ReplaysFor(j) \cup {r}
  <2>1. \A q \in Requests : q # r => apc'[q] = apc[q] /\ target'[q] = target[q]
    BY <1>0, <1>2 DEF FirstStep, LaterStep, AbortRequest, CreateJob, CancelJob,
       SelectLetter, SubmitJob, PurgeQueue, PurgeSchedule, CommitReplay, EnqueueReplayed,
       Move
  <2>2. ASSUME apc[r] \in {"committed", "done", "aborted"}
        PROVE  apc'[r] \in {"committed", "done", "aborted"} /\ target'[r] = target[r]
    BY <1>0, <1>2, <2>2 DEF FirstStep, LaterStep, AbortRequest, CreateJob, CancelJob,
       SelectLetter, SubmitJob, PurgeQueue, PurgeSchedule, CommitReplay, EnqueueReplayed,
       Move
  <2> QED BY <1>0, <2>1, <2>2 DEF ReplaysFor
<1>3. ASSUME NEW r \in Replayers, CommitReplay(r), target[r] = j
      PROVE  r \in ReplaysFor(j)' /\ r \notin ReplaysFor(j)
  BY <1>0, <1>3 DEF CommitReplay, Move, ReplaysFor
<1>4. \/ UNCHANGED apiVars
      \/ \E r \in Requests : FirstStep(r) \/ LaterStep(r) \/ AbortRequest(r)
  BY DEF Next, ApiNext, LeavesApi, Time, RetryDue, StartDue, LockOverdue, HeartbeatOverdue,
     vars
<1> QED BY <1>1, <1>2, <1>3, <1>4

\* The replays of j that have pushed, or given up.
Delivered(j) == {r \in Replayers : apc[r] \in {"done", "aborted"} /\ target[r] = j}

Elsewhere(j) == Tiers \ {TierOf(jobs[j].priority)}

\* Beside the list of its priority, a job waits on queue:default only, once
\* for every replay.  An id without a row waits nowhere (UntouchedBefore), so
\* that its priority may still be chosen.
OnItsTier(j) ==
  /\ IsFiniteSet(Delivered(j)) /\ IsFiniteSet(ReplaysFor(j))
  /\ Status(j) # "ABSENT" /\ jobs[j].start = "now" =>
       /\ \A t \in Elsewhere(j) \ {"default"} : queue[t][j] = 0
       /\ "default" \in Elsewhere(j) => queue["default"][j] <= Cardinality(Delivered(j))

\* The standalone reaper is not started.
ReaperIdle == rpc = "off"

\* A row keeps its priority; one without a date gets none.
LEMMA PriorityStays ==
  ASSUME TypeOK, [Next]_vars, NEW j \in Jobs, Status(j) # "ABSENT"
  PROVE  /\ Status(j)' # "ABSENT"
         /\ jobs'[j].priority = jobs[j].priority
         /\ jobs'[j].start = "now" => jobs[j].start = "now"
<1>0. jobs[j] \in Row
  BY DEF TypeOK, StoreTypeOK
<1>1. Status(j)' # "ABSENT"
  BY EveryStepIsStatement, EffectOfStatement, RowsLast DEF Status
<1>2. \A s : /\ Unlocked(jobs[j], s).priority = jobs[j].priority
             /\ Unlocked(jobs[j], s).start = jobs[j].start
  BY <1>0 DEF Unlocked, Row
<1>3. \A w : /\ LockedRow(jobs[j], w).priority = jobs[j].priority
             /\ LockedRow(jobs[j], w).start = jobs[j].start
  BY <1>0 DEF LockedRow, Row
<1>4. /\ RetryingRow(jobs[j]).priority = jobs[j].priority
      /\ RetryingRow(jobs[j]).start = jobs[j].start
      /\ ReplayedRow(jobs[j]).priority = jobs[j].priority
      /\ ReplayedRow(jobs[j]).start = jobs[j].start
  BY <1>0 DEF RetryingRow, ReplayedRow, Unlocked, Row
<1>5. ASSUME \/ jobs'[j] = [jobs[j] EXCEPT !.start = "due"]
             \/ jobs'[j] = [jobs[j] EXCEPT !.retryDue = TRUE]
             \/ jobs'[j] = [jobs[j] EXCEPT !.lockStale = TRUE]
      PROVE  /\ jobs'[j].priority = jobs[j].priority
             /\ jobs'[j].start = "now" => jobs[j].start = "now"
  BY <1>0, <1>5 DEF Row
<1>6. RowEffect(j)
  BY EveryStepIsStatement, EffectOfStatement
<1> QED BY <1>1, <1>2, <1>3, <1>4, <1>5, <1>6 DEF RowEffect

\* How the commands change the number of references to j.
LEMMA CountsOnLists ==
  ASSUME TransportTypeOK, NEW j \in Jobs, NEW k \in Jobs, NEW t \in Tiers, NEW s \in Tiers
  PROVE  /\ Push(k, t) => queue'[s][j] = IF s = t /\ j = k THEN queue[s][j] + 1 ELSE queue[s][j]
         /\ \/ MoveToProcessing(k, t) \/ BlockingPop(k, t) \/ RemoveFrom(k, t)
            => queue'[s][j] <= queue[s][j]
         /\ PromoteDue /\ jobs[j].start # "due" => queue'[s][j] = queue[s][j]
<1>0. queue \in [Tiers -> [Jobs -> Nat]] /\ queue[s][j] \in Nat
  BY DEF TransportTypeOK
<1>1. Push(k, t) => queue'[s][j] = IF s = t /\ j = k THEN queue[s][j] + 1 ELSE queue[s][j]
  BY <1>0 DEF Push
<1>2. ASSUME MoveToProcessing(k, t) \/ BlockingPop(k, t) PROVE queue'[s][j] <= queue[s][j]
  BY <1>0, <1>2 DEF MoveToProcessing, BlockingPop, LessOne
<1>3. ASSUME RemoveFrom(k, t) PROVE queue'[s][j] <= queue[s][j]
  BY <1>0, <1>3 DEF RemoveFrom
<1>4. ASSUME PromoteDue, jobs[j].start # "due" PROVE queue'[s][j] = queue[s][j]
  <2>1. j \notin DueScheduled
    BY <1>4 DEF DueScheduled
  <2> QED BY <1>0, <1>4, <2>1 DEF PromoteDue, Tiers
<1> QED BY <1>1, <1>2, <1>3, <1>4

\* Without the standalone reaper, a job without a date is pushed on the list of
\* its priority, but for the replays.
LEMMA PushedOnTier ==
  ASSUME TypeOK, [Next]_vars, "reaper" \notin Services, ReaperIdle,
         NEW j \in Jobs, jobs[j].start = "now"
  PROVE  \/ \A t \in Elsewhere(j) : queue'[t][j] <= queue[t][j]
         \/ \E r \in Replayers : /\ EnqueueReplayed(r) /\ target[r] = j
                                 /\ \A t \in Tiers \ {"default"} : queue'[t][j] = queue[t][j]
                                 /\ queue'["default"][j] = queue["default"][j] + 1
<1> DEFINE Falls == \A t \in Elsewhere(j) : queue'[t][j] <= queue[t][j]
<1>0. /\ TransportTypeOK /\ queue \in [Tiers -> [Jobs -> Nat]] /\ Elsewhere(j) \subseteq Tiers
      /\ "default" \in Tiers
      /\ \A k \in Jobs : jobs[k].priority \in Int /\ TierOf(jobs[k].priority) \in Tiers
  BY DEF TypeOK, StoreTypeOK, Row, TransportTypeOK, Elsewhere, TierOf, Tiers
<1>1. ASSUME queue' = queue PROVE Falls
  BY <1>0, <1>1
<1>2. ASSUME NEW k \in Jobs, Enqueue(k, jobs[k].priority) PROVE Falls
  <2>1. Push(k, TierOf(jobs[k].priority)) /\ TierOf(jobs[k].priority) \in Tiers
    BY <1>0, <1>2 DEF Enqueue
  <2> SUFFICES ASSUME NEW t \in Elsewhere(j) PROVE queue'[t][j] <= queue[t][j]
    OBVIOUS
  <2>2. ~(t = TierOf(jobs[k].priority) /\ j = k)
    BY DEF Elsewhere
  <2>3. queue'[t][j] = queue[t][j]
    BY <1>0, <2>1, <2>2, CountsOnLists
  <2> QED BY <1>0, <2>3
<1>3. CASE WorkerNext
  <2>1. PICK w \in Workers : WorkerStep(w) \/ Heartbeat(w) \/ WorkerFault(w)
    BY <1>3 DEF WorkerNext
  <2>2. ASSUME NEW k \in Jobs, NEW t \in Tiers, MoveToProcessing(k, t) \/ BlockingPop(k, t)
        PROVE  Falls
    BY <1>0, <2>2, CountsOnLists
  <2>3. Reserve(w) \/ queue' = queue
    BY <2>1 DEF WorkerStep, Heartbeat, WorkerFault, StartWorker, StoreReserved,
       StoreReservedFails, LockJob, SkipJob, LockFails, Report, HandlerFails,
       ReportSuccess, ReportSuccessFails, ReportRetry, ReportDead, NoRetryDate,
       ReportFailureFails, Recur, CreateNext, ScheduleNext, AbandonNext,
       NoMoreOccurrences, AckJob, AckFails, StopWorker, CrashWorker, transportVars,
       PushProcessing, Ack, Schedule, Drop
  <2>4. CASE Reserve(w)
    <3>1. PICK k \in Jobs, t \in Tiers : MoveToProcessing(k, t) \/ BlockingPop(k, t)
      BY <2>4 DEF Reserve, ReserveJob, PopJob
    <3> QED BY <2>2, <3>1
  <2> QED BY <1>1, <2>3, <2>4
<1>4. CASE SchedulerNext
  <2>1. CASE PromoteDelayed
    <3>1. PromoteDue
      BY <2>1 DEF PromoteDelayed
    <3>2. \A t \in Tiers : queue'[t][j] = queue[t][j]
      BY <1>0, <3>1, CountsOnLists
    <3> QED BY <1>0, <3>2
  <2>2. ASSUME NEW k \in Jobs, PushRetry(k) \/ PushStale(k) PROVE Falls
    <3>1. Enqueue(k, jobs[k].priority)
      BY <2>2 DEF PushRetry, PushStale
    <3> QED BY <1>2, <3>1
  <2>3. \/ queue' = queue \/ PromoteDelayed
        \/ \E k \in Jobs : PushRetry(k) \/ PushStale(k)
    BY <1>4 DEF SchedulerNext, SchedulerStep, StartScheduler, SyncJob, TakeRetries,
       SkipReaper, ExpireWorkers, TakeStale, SchedulerFails, CrashScheduler, Schedule,
       Drop, transportVars
  <2> QED BY <1>1, <2>1, <2>2, <2>3
<1>5. CASE ReaperNext
  BY <1>5 DEF ReaperIdle, ReaperNext, ReaperStep, StartReaper, ReaperExpires,
     ReaperReclaims, RequeueRemoves, RequeuePushes, ReaperTakesRetries,
     ReaperPushesRetry, ReaperPushFails, ReaperQueryFails, CrashReaper
<1>6. ASSUME NEW r \in Requests, FirstStep(r) \/ LaterStep(r) \/ AbortRequest(r)
      PROVE  \/ Falls
             \/ /\ r \in Replayers /\ EnqueueReplayed(r) /\ target[r] = j
                /\ \A t \in Tiers \ {"default"} : queue'[t][j] = queue[t][j]
                /\ queue'["default"][j] = queue["default"][j] + 1
  <2>1. CASE SubmitJob(r)
    <3>1. target[r] \in Jobs
      BY <2>1 DEF SubmitJob, Move, TypeOK, ApiTypeOK
    <3>2. queue' = queue \/ Enqueue(target[r], jobs[target[r]].priority)
      BY <2>1 DEF SubmitJob, Schedule
    <3> QED BY <1>1, <1>2, <3>1, <3>2
  <2>2. CASE PurgeQueue(r)
    <3>1. target[r] \in Jobs
      BY <2>2 DEF PurgeQueue, Move, TypeOK, ApiTypeOK
    <3>2. \E t \in Tiers : RemoveFrom(target[r], t)
      BY <2>2 DEF PurgeQueue, Tiers
    <3> QED BY <1>0, <3>1, <3>2, CountsOnLists
  <2>3. CASE EnqueueReplayed(r)
    <3>1. PICK k \in Jobs : k = target[r] /\ r \in Replayers
      BY <2>3 DEF EnqueueReplayed, Move, TypeOK, ApiTypeOK
    <3>2. Push(k, "default")
      BY <2>3, <3>1 DEF EnqueueReplayed, EnqueueOn
    <3>3. \A t \in Tiers : queue'[t][j] = IF t = "default" /\ j = k THEN queue[t][j] + 1
                                                                     ELSE queue[t][j]
      BY <1>0, <3>2, CountsOnLists
    <3>4. CASE k = j
      BY <1>0, <2>3, <3>1, <3>3, <3>4
    <3>5. CASE k # j
      <4>1. \A t \in Tiers : queue'[t][j] = queue[t][j]
        BY <3>3, <3>5
      <4> QED BY <1>0, <4>1
    <3> QED BY <3>4, <3>5
  <2>4. queue' = queue \/ SubmitJob(r) \/ PurgeQueue(r) \/ EnqueueReplayed(r)
    BY <1>6 DEF FirstStep, LaterStep, CreateJob, CancelJob, SelectLetter, CommitReplay,
       PurgeSchedule, Unschedule, AbortRequest, Drop, transportVars
  <2> QED BY <1>1, <2>1, <2>2, <2>3, <2>4
<1>7. CASE Time \/ UNCHANGED vars
  <2>1. queue' = queue
    BY <1>7 DEF Time, RetryDue, StartDue, LockOverdue, HeartbeatOverdue, LockGoesStale,
       HeartbeatGoesLate, transportVars, vars
  <2> QED BY <1>1, <2>1
<1> QED BY <1>3, <1>4, <1>5, <1>6, <1>7 DEF Next, ApiNext

\* A replay is counted once it has pushed.
LEMMA DeliveredStep ==
  ASSUME TypeOK, [Next]_vars, NEW j \in Jobs, IsFiniteSet(Delivered(j))
  PROVE  /\ IsFiniteSet(Delivered(j)')
         /\ Cardinality(Delivered(j)) \in Nat /\ Cardinality(Delivered(j)') \in Nat
         /\ Cardinality(Delivered(j)) <= Cardinality(Delivered(j)')
         /\ \A r \in Replayers : EnqueueReplayed(r) /\ target[r] = j =>
              Cardinality(Delivered(j)) + 1 <= Cardinality(Delivered(j)')
<1>0. /\ apc \in [Requests -> ApiLocations] /\ target \in [Requests -> Jobs \cup {NoJob}]
      /\ Replayers \subseteq Requests /\ NoJob \notin Jobs
  BY StoreAssumption DEF TypeOK, ApiTypeOK, Requests
<1>1. \E r : /\ Delivered(j) \subseteq Delivered(j)'
             /\ Delivered(j)' \subseteq Delivered(j) \cup {r}
  <2>1. CASE UNCHANGED apiVars
    BY <2>1 DEF apiVars, Delivered
  <2>2. ASSUME NEW r \in Requests, FirstStep(r) \/ LaterStep(r) \/ AbortRequest(r)
        PROVE  /\ Delivered(j) \subseteq Delivered(j)'
               /\ Delivered(j)' \subseteq Delivered(j) \cup {r}
    <3>1. \A q \in Requests : q # r => apc'[q] = apc[q] /\ target'[q] = target[q]
      BY <1>0, <2>2 DEF FirstStep, LaterStep, AbortRequest, CreateJob, CancelJob,
         SelectLetter, SubmitJob, PurgeQueue, PurgeSchedule, CommitReplay,
         EnqueueReplayed, Move
    <3>2. apc[r] \notin {"done", "aborted"}
      BY <2>2 DEF FirstStep, LaterStep, AbortRequest, CreateJob, CancelJob,
         SelectLetter, SubmitJob, PurgeQueue, PurgeSchedule, CommitReplay,
         EnqueueReplayed, Move
    <3> QED BY <1>0, <3>1, <3>2 DEF Delivered
  <2>3. \/ UNCHANGED apiVars
        \/ \E r \in Requests : FirstStep(r) \/ LaterStep(r) \/ AbortRequest(r)
    BY DEF Next, ApiNext, LeavesApi, Time, RetryDue, StartDue, LockOverdue, HeartbeatOverdue,
       vars
  <2> QED BY <2>1, <2>2, <2>3
<1>2. IsFiniteSet(Delivered(j)')
  BY <1>1, FS_AddElement, FS_Subset
<1>3. ASSUME NEW r \in Replayers, EnqueueReplayed(r), target[r] = j
      PROVE  Cardinality(Delivered(j)) + 1 <= Cardinality(Delivered(j)')
  <2>1. r \notin Delivered(j) /\ r \in Delivered(j)'
    BY <1>0, <1>3 DEF EnqueueReplayed, Move, Delivered
  <2>2. Delivered(j) \cup {r} \subseteq Delivered(j)'
    BY <1>1, <2>1
  <2>3. Cardinality(Delivered(j) \cup {r}) = Cardinality(Delivered(j)) + 1
    BY <2>1, FS_AddElement
  <2> QED BY <1>2, <2>2, <2>3, FS_Subset
<1> QED BY <1>1, <1>2, <1>3, FS_Subset, FS_CardinalityType

\* OnItsTier is inductive: the row decides on the list once and for all, when
\* it is inserted, and no reference to it is about then.
LEMMA NextOnItsTier ==
  ASSUME TypeOK, TypeOK', UntouchedBefore, TargetsExist, [Next]_vars,
         "reaper" \notin Services, ReaperIdle, NEW j \in Jobs, OnItsTier(j)
  PROVE  OnItsTier(j)'
<1>0. /\ \A t \in Tiers : queue[t][j] \in Nat /\ queue'[t][j] \in Nat
      /\ Elsewhere(j) \subseteq Tiers /\ Elsewhere(j)' \subseteq Tiers
      /\ "default" \in Tiers
  BY DEF TypeOK, TransportTypeOK, Elsewhere, Tiers
<1>1. PICK d \in Nat, e \in Nat :
        /\ d = Cardinality(Delivered(j)) /\ e = Cardinality(Delivered(j)')
        /\ IsFiniteSet(Delivered(j)') /\ d <= e
        /\ \A r \in Replayers : EnqueueReplayed(r) /\ target[r] = j => d + 1 <= e
  BY DeliveredStep DEF OnItsTier
<1>4. IsFiniteSet(ReplaysFor(j)')
  <2>1. PICK r : ReplaysFor(j)' \subseteq ReplaysFor(j) \cup {r}
    BY ReplaysStep
  <2> QED BY <2>1, FS_AddElement, FS_Subset DEF OnItsTier
<1> SUFFICES ASSUME Status(j)' # "ABSENT", jobs'[j].start = "now"
             PROVE  /\ \A t \in Elsewhere(j)' \ {"default"} : queue'[t][j] = 0
                    /\ "default" \in Elsewhere(j)' => queue'["default"][j] <= e
  BY <1>1, <1>4 DEF OnItsTier
<1>2. CASE Status(j) = "ABSENT"
  <2>1. ~Queued(j)'
    BY <1>2, NobodyTouches DEF NotYet
  <2>2. \A t \in Tiers : queue'[t][j] = 0
    BY <1>0, <2>1 DEF Queued
  <2> QED BY <1>0, <1>1, <2>2
<1>3. CASE Status(j) # "ABSENT"
  <2>1. jobs'[j].priority = jobs[j].priority /\ jobs[j].start = "now"
    BY <1>3, PriorityStays
  <2>2. Elsewhere(j)' = Elsewhere(j)
    BY <2>1 DEF Elsewhere
  <2>3. /\ \A t \in Elsewhere(j) \ {"default"} : queue[t][j] = 0
        /\ "default" \in Elsewhere(j) => queue["default"][j] <= d
    BY <1>1, <1>3, <2>1 DEF OnItsTier
  <2>4. CASE \A t \in Elsewhere(j) : queue'[t][j] <= queue[t][j]
    BY <1>0, <1>1, <2>2, <2>3, <2>4
  <2>5. ASSUME NEW r \in Replayers, EnqueueReplayed(r), target[r] = j,
               \A t \in Tiers \ {"default"} : queue'[t][j] = queue[t][j],
               queue'["default"][j] = queue["default"][j] + 1
        PROVE  /\ \A t \in Elsewhere(j)' \ {"default"} : queue'[t][j] = 0
               /\ "default" \in Elsewhere(j)' => queue'["default"][j] <= e
    BY <1>0, <1>1, <2>2, <2>3, <2>5
  <2> QED BY <2>1, <2>4, <2>5, PushedOnTier
<1> QED BY <1>2, <1>3

\* Without the standalone reaper, whose pushes all go to queue:default, a job that
\* was not delayed waits on the list of its priority, once per replay on
\* queue:default, and nowhere else: with every fault, overrun and crash, and
\* after any number of retries, reclaims and cancel requests.
THEOREM PrioritiesAreKept ==
  ASSUME "reaper" \notin Services
  PROVE  Spec => []PriorityKept
<1> DEFINE Inv == ReaperIdle /\ \A j \in Jobs : OnItsTier(j)
<1>1. Init => Inv
  <2> SUFFICES ASSUME Init, NEW j \in Jobs PROVE ReaperIdle /\ OnItsTier(j)
    BY DEF Init, ReaperInit, ReaperIdle
  <2>1. Delivered(j) = {} /\ ReplaysFor(j) = {} /\ IsFiniteSet({})
    BY FS_EmptySet DEF Init, ApiInit, Delivered, ReplaysFor, Requests
  <2> QED BY <2>1 DEF Init, ReaperInit, ReaperIdle, StoreInit, AbsentRow, NewRow, Status,
          OnItsTier
<1>2. TypeOK /\ TypeOK' /\ UntouchedBefore /\ TargetsExist /\ Inv /\ [Next]_vars => Inv'
  <2> SUFFICES ASSUME TypeOK, TypeOK', UntouchedBefore, TargetsExist, Inv, [Next]_vars
               PROVE  Inv'
    OBVIOUS
  <2>1. ReaperIdle'
    BY DEF ReaperIdle, Next, vars, reaperVars, LeavesServices, ReaperNext, ReaperStep,
       StartReaper, ReaperExpires, ReaperReclaims, RequeueRemoves, RequeuePushes,
       ReaperTakesRetries, ReaperPushesRetry, ReaperPushFails, ReaperQueryFails,
       CrashReaper, Time, RetryDue, StartDue, LockOverdue, HeartbeatOverdue
  <2> QED BY <2>1, NextOnItsTier
<1>3. TypeOK /\ UntouchedBefore /\ Inv => PriorityKept
  <2> SUFFICES ASSUME TypeOK, UntouchedBefore, Inv, NEW j \in Jobs, jobs[j].start = "now",
                      NEW t \in Tiers \ {TierOf(jobs[j].priority)}
               PROVE  queue[t][j] <= (IF t = "default" THEN ReplaysOf(j) ELSE 0)
    BY DEF PriorityKept
  <2>1. Delivered(j) \subseteq ReplaysFor(j) /\ IsFiniteSet(ReplaysFor(j))
    BY DEF Delivered, ReplaysFor, OnItsTier
  <2>2. PICK d \in Nat, e \in Nat : /\ d = Cardinality(Delivered(j)) /\ e = ReplaysOf(j)
                                   /\ d <= e
    BY <2>1, FS_Subset, FS_CardinalityType DEF ReplaysFor, ReplaysOf
  <2>3. CASE Status(j) = "ABSENT"
    BY <2>2, <2>3 DEF UntouchedBefore, NotYet, Queued, TypeOK, TransportTypeOK
  <2>4. CASE Status(j) # "ABSENT"
    <3>1. t \in Elsewhere(j) /\ queue[t][j] \in Nat
      BY DEF Elsewhere, TypeOK, TransportTypeOK
    <3>2. IF t = "default" THEN queue[t][j] <= d ELSE queue[t][j] = 0
      BY <2>2, <2>4, <3>1 DEF OnItsTier
    <3> QED BY <2>2, <3>1, <3>2
  <2> QED BY <2>3, <2>4
<1> QED BY <1>1, <1>2, <1>3, TypeCorrect, UntouchedInvariant, PTL DEF Spec

-----------------------------------------------------------------------------
(* queue:processing.                                                       *)

\* The reaper has still to take the entry of a job that it reclaimed.
ToRemove(j) == IF rpc \in {"requeue", "pushBack"} /\ j \in rbatch THEN 1 ELSE 0

\* No worker crashes, and PostgreSQL and Redis answer.
NothingFails == Mortal = {} /\ Faults = {}

\* The entries fall short of the holders once for every reclaim at most, and not
\* yet for those that the reaper has still to serve.  They exceed them only if
\* a worker leaves one behind.
EntriesFit(j) ==
  /\ IsFiniteSet(InFlight(j))
  /\ Cardinality(InFlight(j)) + ToRemove(j) <= processing[j] + reclaims[j]
  /\ NothingFails => processing[j] <= Cardinality(InFlight(j))

\* What the step of a worker does to the entries of j.
LEMMA WorkerEntries ==
  ASSUME TypeOK, NEW w \in Workers, WorkerStep(w) \/ Heartbeat(w) \/ WorkerFault(w),
         NEW j \in Jobs
  PROVE  \/ InFlight(j)' = InFlight(j) /\ processing'[j] = processing[j]
         \/ /\ w \notin InFlight(j) /\ InFlight(j)' = InFlight(j) \cup {w}
            /\ processing'[j] = processing[j] + 1
         \/ /\ w \in InFlight(j) /\ InFlight(j)' = InFlight(j) \ {w}
            /\ processing'[j] = IF processing[j] > 0 THEN processing[j] - 1 ELSE processing[j]
         \/ /\ ~NothingFails /\ InFlight(j)' = InFlight(j) \ {w}
            /\ processing'[j] = processing[j]
<1>0. /\ pc \in [Workers -> Locations] /\ held \in [Workers -> Jobs \cup {NoJob}]
      /\ processing \in [Jobs -> Nat] /\ NoJob \notin Jobs
      /\ Holding(w) => held[w] \in Jobs
  BY StoreAssumption DEF TypeOK, WorkerTypeOK, TransportTypeOK
<1>1. ASSUME pc'[w] \in {"reserved", "running", "failed", "recurring", "rescheduling", "acking"}
               <=> pc[w] \in {"reserved", "running", "failed", "recurring", "rescheduling",
                              "acking"},
             held' = held, \A v \in Workers \ {w} : pc'[v] = pc[v]
      PROVE  InFlight(j)' = InFlight(j)
  BY <1>0, <1>1 DEF InFlight, Holding
<1>2. ASSUME NEW s \in {"idle", "crashed"}, LetGo(w, s)
      PROVE  InFlight(j)' = InFlight(j) \ {w}
  BY <1>0, <1>2 DEF LetGo, InFlight, Holding
<1>3. ASSUME NEW k \in Jobs, NEW t \in Tiers, ReserveJob(w, k, t)
      PROVE  \/ InFlight(j)' = InFlight(j) /\ processing'[j] = processing[j]
             \/ /\ w \notin InFlight(j) /\ InFlight(j)' = InFlight(j) \cup {w}
                /\ processing'[j] = processing[j] + 1
  <2>1. /\ w \notin InFlight(j)
        /\ InFlight(j)' = IF k = j THEN InFlight(j) \cup {w} ELSE InFlight(j)
    BY <1>0, <1>3 DEF ReserveJob, Go, InFlight, Holding
  <2> QED BY <1>0, <1>3, <2>1 DEF ReserveJob, MoveToProcessing
<1>4. ASSUME NEW k \in Jobs, NEW t \in Tiers, PopJob(w, k, t)
      PROVE  InFlight(j)' = InFlight(j) /\ processing'[j] = processing[j]
  BY <1>0, <1>4 DEF PopJob, Go, BlockingPop, InFlight, Holding
<1>5. CASE StoreReserved(w)
  <2>1. /\ w \notin InFlight(j)
        /\ InFlight(j)' = IF held[w] = j THEN InFlight(j) \cup {w} ELSE InFlight(j)
    BY <1>0, <1>5 DEF StoreReserved, Go, InFlight, Holding
  <2> QED BY <1>0, <1>5, <2>1 DEF StoreReserved, PushProcessing
<1>6. CASE AckJob(w)
  <2>1. InFlight(j)' = InFlight(j) \ {w}
    BY <1>2, <1>6 DEF AckJob
  <2>2. held[w] = j <=> w \in InFlight(j)
    BY <1>6 DEF AckJob, InFlight, Holding
  <2>3. processing' = LessOne(processing, held[w])
    BY <1>6 DEF AckJob, Ack
  <2>4. CASE held[w] = j
    BY <1>0, <2>1, <2>2, <2>3, <2>4 DEF LessOne
  <2>5. CASE held[w] # j
    <3>1. processing'[j] = processing[j]
      BY <1>0, <2>3, <2>5 DEF LessOne
    <3> QED BY <2>1, <2>2, <2>5, <3>1
  <2> QED BY <2>4, <2>5
<1>7. CASE StoreReservedFails(w)
  <2>1. w \notin InFlight(j)
    BY <1>7 DEF StoreReservedFails, InFlight
  <2>2. InFlight(j)' = InFlight(j)
    BY <1>2, <1>7, <2>1 DEF StoreReservedFails
  <2> QED BY <1>7, <2>2 DEF StoreReservedFails, Drop
<1>8. CASE LockFails(w) \/ AckFails(w) \/ CrashWorker(w)
  <2>1. InFlight(j)' = InFlight(j) \ {w} /\ ~NothingFails
    BY <1>2, <1>8 DEF LockFails, AckFails, CrashWorker, NothingFails
  <2>2. processing' = processing
    BY <1>8 DEF LockFails, AckFails, CrashWorker, Drop, transportVars
  <2> QED BY <2>1, <2>2
<1>9. CASE Heartbeat(w)
  <2>1. InFlight(j)' = InFlight(j)
    BY <1>9 DEF Heartbeat, workerVars, InFlight, Holding
  <2> QED BY <1>9, <2>1 DEF Heartbeat, transportVars
<1>10. CASE \/ StartWorker(w) \/ LockJob(w) \/ SkipJob(w) \/ Report(w)
            \/ Recur(w) \/ ReportSuccessFails(w) \/ ReportFailureFails(w) \/ StopWorker(w)
  <2>1. processing' = processing
    BY <1>10 DEF StartWorker, LockJob, SkipJob, Report, HandlerFails, ReportSuccess,
       ReportRetry, ReportDead, NoRetryDate, Recur, CreateNext, ScheduleNext, AbandonNext,
       NoMoreOccurrences, ReportSuccessFails, ReportFailureFails, StopWorker, Schedule,
       Drop, transportVars
  <2>2. /\ pc'[w] \in {"reserved", "running", "failed", "recurring", "rescheduling", "acking"}
             <=> pc[w] \in {"reserved", "running", "failed", "recurring", "rescheduling",
                            "acking"}
        /\ held' = held /\ \A v \in Workers \ {w} : pc'[v] = pc[v]
    BY <1>0, <1>10 DEF StartWorker, LockJob, SkipJob, Report, HandlerFails, ReportSuccess,
       ReportRetry, ReportDead, NoRetryDate, Recur, CreateNext, ScheduleNext, AbandonNext,
       NoMoreOccurrences, ReportSuccessFails, ReportFailureFails, StopWorker, Go
  <2> QED BY <1>1, <2>1, <2>2
<1> QED BY <1>3, <1>4, <1>5, <1>6, <1>7, <1>8, <1>9, <1>10 DEF WorkerStep, WorkerFault,
        Reserve

\* What everybody else does: only the reaper takes an entry, of a job that it
\* has reclaimed.
LEMMA OtherEntries ==
  ASSUME TypeOK, NEW j \in Jobs,
         \/ SchedulerNext /\ UNCHANGED reaperVars
         \/ ReaperNext
         \/ ApiNext /\ LeavesServices
         \/ Time \/ UNCHANGED vars
  PROVE  \/ /\ processing'[j] = processing[j] /\ reclaims[j] <= reclaims'[j]
            /\ ToRemove(j)' <= ToRemove(j)
         \/ /\ processing'[j] = processing[j] /\ reclaims'[j] = reclaims[j] + 1
            /\ ToRemove(j) = 0
         \/ /\ processing'[j] = IF processing[j] > 0 THEN processing[j] - 1 ELSE processing[j]
            /\ reclaims'[j] = reclaims[j] /\ ToRemove(j) = 1 /\ ToRemove(j)' = 0
<1>0. /\ processing \in [Jobs -> Nat] /\ reclaims \in [Jobs -> Nat]
      /\ \A k \in Jobs : ToRemove(k) \in {0, 1}
  BY DEF TypeOK, StoreTypeOK, TransportTypeOK, ToRemove
<1>1. ASSUME SchedulerNext, UNCHANGED reaperVars
      PROVE  /\ processing'[j] = processing[j] /\ reclaims[j] <= reclaims'[j]
             /\ ToRemove(j)' <= ToRemove(j)
  <2>1. processing' = processing
    BY <1>1 DEF SchedulerNext, SchedulerStep, StartScheduler, SyncJob, PromoteDelayed,
       TakeRetries, PushRetry, SkipReaper, ExpireWorkers, TakeStale, PushStale,
       SchedulerFails, CrashScheduler, Schedule, PromoteDue, Enqueue, Drop, transportVars
  <2>2. reclaims[j] <= reclaims'[j]
    BY <1>0, <1>1, SweepersSweep DEF SweeperStatement, ReclaimDueRetries,
       ReclaimStaleJobs, MarkExpiredWorkersDead, storeVars
  <2>3. ToRemove(j)' = ToRemove(j)
    BY <1>1 DEF reaperVars, ToRemove
  <2> QED BY <1>0, <2>1, <2>2, <2>3
<1>2. CASE ReaperNext
  <2>1. CASE ReaperReclaims
    <3>1. /\ processing' = processing /\ ToRemove(j) = 0 /\ rbatch' = StaleJobs
          /\ reclaims'[j] = IF j \in StaleJobs THEN reclaims[j] + 1 ELSE reclaims[j]
      BY <2>1 DEF ReaperReclaims, ReclaimStaleJobs, ToRemove, transportVars
    <3>2. j \notin StaleJobs => ToRemove(j)' = 0
      BY <3>1 DEF ToRemove
    <3> QED BY <1>0, <3>1, <3>2
  <2>2. ASSUME NEW k \in Jobs, RequeueRemoves(k)
        PROVE  \/ /\ processing'[j] = processing[j] /\ reclaims[j] <= reclaims'[j]
                  /\ ToRemove(j)' <= ToRemove(j)
               \/ /\ processing'[j] = IF processing[j] > 0 THEN processing[j] - 1
                                                            ELSE processing[j]
                  /\ reclaims'[j] = reclaims[j] /\ ToRemove(j) = 1 /\ ToRemove(j)' = 0
    <3>1. /\ rpc = "requeue" /\ rpc' = "pushBack" /\ k \in rbatch /\ rbatch' = rbatch \ {k}
          /\ processing' = LessOne(processing, k) /\ reclaims' = reclaims
      BY <2>2 DEF RequeueRemoves, Ack, storeVars
    <3>2. CASE k = j
      <4>1. ToRemove(j) = 1 /\ ToRemove(j)' = 0
        BY <3>1, <3>2 DEF ToRemove
      <4> QED BY <1>0, <3>1, <3>2, <4>1 DEF LessOne
    <3>3. CASE k # j
      <4>1. ToRemove(j)' = ToRemove(j)
        BY <3>1, <3>3 DEF ToRemove
      <4> QED BY <1>0, <3>1, <3>3, <4>1 DEF LessOne
    <3> QED BY <3>2, <3>3
  <2>3. ASSUME \/ StartReaper \/ ReaperExpires \/ RequeuePushes \/ ReaperTakesRetries
               \/ ReaperQueryFails \/ CrashReaper
               \/ \E k \in Jobs : ReaperPushesRetry(k) \/ ReaperPushFails(k)
        PROVE  /\ processing'[j] = processing[j] /\ reclaims[j] <= reclaims'[j]
               /\ ToRemove(j)' <= ToRemove(j)
    <3>1. processing' = processing /\ reclaims' = reclaims
      BY <2>3 DEF StartReaper, ReaperExpires, RequeuePushes, ReaperTakesRetries,
         ReaperQueryFails, CrashReaper, ReaperPushesRetry, ReaperPushFails, EnqueueOn, Drop,
         MarkExpiredWorkersDead, ReclaimDueRetries, transportVars, storeVars
    <3>2. rpc \in {"off", "expire", "reclaim", "retries"} => rbatch = {}
      BY DEF TypeOK, ReaperTypeOK
    <3>3. ToRemove(j)' = 1 => ToRemove(j) = 1
      BY <2>3, <3>2 DEF StartReaper, ReaperExpires, RequeuePushes, ReaperTakesRetries,
         ReaperQueryFails, CrashReaper, ReaperPushesRetry, ReaperPushFails, NextTurn, ToRemove
    <3>4. ToRemove(j)' \in {0, 1}
      BY DEF ToRemove
    <3> QED BY <1>0, <3>1, <3>3, <3>4
  <2> QED BY <1>2, <2>1, <2>2, <2>3 DEF ReaperNext, ReaperStep
<1>3. ASSUME ApiNext, LeavesServices
      PROVE  /\ processing'[j] = processing[j] /\ reclaims[j] <= reclaims'[j]
             /\ ToRemove(j)' <= ToRemove(j)
  <2>1. processing' = processing /\ reclaims' = reclaims
    BY <1>3 DEF ApiNext, FirstStep, LaterStep, CreateJob, CancelJob, SelectLetter, SubmitJob,
       PurgeQueue, PurgeSchedule, CommitReplay, EnqueueReplayed, AbortRequest, InsertJob,
       CancelRow, ReplayRow, Enqueue, EnqueueOn, Schedule, Unschedule, RemoveFrom, Drop,
       transportVars, storeVars
  <2>2. ToRemove(j)' = ToRemove(j)
    BY <1>3 DEF LeavesServices, reaperVars, ToRemove
  <2> QED BY <1>0, <2>1, <2>2
<1>4. ASSUME Time \/ UNCHANGED vars
      PROVE  /\ processing'[j] = processing[j] /\ reclaims[j] <= reclaims'[j]
             /\ ToRemove(j)' <= ToRemove(j)
  <2>1. processing' = processing /\ reclaims' = reclaims /\ UNCHANGED reaperVars
    BY <1>4 DEF Time, RetryDue, StartDue, LockOverdue, HeartbeatOverdue, LockGoesStale,
       HeartbeatGoesLate, RetryBecomesDue, StartBecomesDue, LockTurnsStale,
       HeartbeatTurnsLate, LeavesServices, transportVars, storeVars, vars
  <2>2. ToRemove(j)' = ToRemove(j)
    BY <2>1 DEF reaperVars, ToRemove
  <2> QED BY <1>0, <2>1, <2>2
<1> QED BY <1>1, <1>2, <1>3, <1>4

\* EntriesFit is inductive.
LEMMA NextEntries ==
  ASSUME TypeOK, TypeOK', [Next]_vars, NEW j \in Jobs, EntriesFit(j)
  PROVE  EntriesFit(j)'
<1>1. PICK h \in Nat, d \in {0, 1}, d1 \in {0, 1}, p \in Nat, p1 \in Nat, r \in Nat, r1 \in Nat :
        /\ h = Cardinality(InFlight(j)) /\ d = ToRemove(j) /\ d1 = ToRemove(j)'
        /\ p = processing[j] /\ p1 = processing'[j] /\ r = reclaims[j] /\ r1 = reclaims'[j]
        /\ h + d <= p + r /\ (NothingFails => p <= h)
  BY FS_CardinalityType DEF EntriesFit, ToRemove, TypeOK, StoreTypeOK, TransportTypeOK
<1>2. IsFiniteSet(InFlight(j))
  BY DEF EntriesFit
<1>3. ASSUME NEW h1 \in Nat, IsFiniteSet(InFlight(j)'), h1 = Cardinality(InFlight(j)'),
             h1 + d1 <= p1 + r1, NothingFails => p1 <= h1
      PROVE  EntriesFit(j)'
  BY <1>1, <1>3 DEF EntriesFit, NothingFails
<1>4. ASSUME NEW w \in Workers, WorkerStep(w) \/ Heartbeat(w) \/ WorkerFault(w), LeavesServices
      PROVE  EntriesFit(j)'
  <2>1. d1 = d
    BY <1>1, <1>4 DEF LeavesServices, reaperVars, ToRemove
  <2>2. r1 = r
    BY <1>1, <1>4 DEF WorkerStep, Heartbeat, WorkerFault, StartWorker, Reserve,
       ReserveJob, PopJob, StoreReserved, StoreReservedFails, LockJob, SkipJob, LockFails,
       Report, HandlerFails, ReportSuccess, ReportSuccessFails, ReportRetry, ReportDead,
       NoRetryDate, ReportFailureFails, Recur, CreateNext, ScheduleNext, AbandonNext,
       NoMoreOccurrences, AckJob, AckFails, StopWorker, CrashWorker, UpsertHeartbeat,
       MarkWorkerDead, FetchAndLock, MarkSuccess, MarkRetrying, MoveToDeadLetter,
       InsertNextOccurrence, InsertJob, storeVars
  <2>3. CASE InFlight(j)' = InFlight(j) /\ p1 = p
    BY <1>1, <1>2, <1>3, <2>1, <2>2, <2>3
  <2>4. CASE w \notin InFlight(j) /\ InFlight(j)' = InFlight(j) \cup {w} /\ p1 = p + 1
    <3>1. IsFiniteSet(InFlight(j)') /\ Cardinality(InFlight(j)') = h + 1
      BY <1>1, <1>2, <2>4, FS_AddElement
    <3> QED BY <1>1, <1>3, <2>1, <2>2, <2>4, <3>1
  <2>5. CASE w \in InFlight(j) /\ InFlight(j)' = InFlight(j) \ {w}
    <3>1. IsFiniteSet(InFlight(j)') /\ Cardinality(InFlight(j)') = h - 1
      BY <1>1, <1>2, <2>5, FS_RemoveElement
    <3>2. h - 1 \in Nat
      BY <3>1, FS_CardinalityType
    <3>3. CASE p1 = IF p > 0 THEN p - 1 ELSE p
      <4>1. h - 1 + d1 <= p1 + r1
        BY <1>1, <2>1, <2>2, <3>2, <3>3
      <4>2. NothingFails => p1 <= h - 1
        BY <1>1, <3>2, <3>3
      <4> QED BY <1>3, <3>1, <3>2, <4>1, <4>2
    <3>4. CASE ~NothingFails /\ p1 = p
      BY <1>1, <1>3, <2>1, <2>2, <3>1, <3>2, <3>4
    <3> QED BY <1>1, <1>4, <2>3, <2>4, <2>5, <3>3, <3>4, WorkerEntries
  <2>6. CASE w \notin InFlight(j) /\ InFlight(j)' = InFlight(j) \ {w} /\ p1 = p
    <3>1. InFlight(j)' = InFlight(j)
      BY <2>6
    <3> QED BY <2>3, <2>6, <3>1
  <2> QED BY <1>1, <1>4, <2>3, <2>4, <2>5, <2>6, WorkerEntries
<1>5. ASSUME UNCHANGED workerVars,
             \/ p1 = p /\ r <= r1 /\ d1 <= d
             \/ p1 = p /\ r1 = r + 1 /\ d = 0
             \/ p1 = (IF p > 0 THEN p - 1 ELSE p) /\ r1 = r /\ d = 1 /\ d1 = 0
      PROVE  EntriesFit(j)'
  <2>1. InFlight(j)' = InFlight(j)
    BY <1>5 DEF workerVars, InFlight, Holding
  <2>2. h + d1 <= p1 + r1 /\ p1 <= p
    BY <1>1, <1>5
  <2> QED BY <1>1, <1>2, <1>3, <2>1, <2>2
<1>6. ASSUME ~\E w \in Workers : /\ WorkerStep(w) \/ Heartbeat(w) \/ WorkerFault(w)
                                 /\ LeavesServices
      PROVE  EntriesFit(j)'
  <2>1. /\ \/ SchedulerNext /\ UNCHANGED reaperVars
           \/ ReaperNext
           \/ ApiNext /\ LeavesServices
           \/ Time \/ UNCHANGED vars
        /\ UNCHANGED workerVars
    BY <1>6 DEF Next, WorkerNext, LeavesWorkers, Time, RetryDue, StartDue, LockOverdue,
       HeartbeatOverdue, LockGoesStale, HeartbeatGoesLate, vars
  <2>2. \/ p1 = p /\ r <= r1 /\ d1 <= d
        \/ p1 = p /\ r1 = r + 1 /\ d = 0
        \/ p1 = (IF p > 0 THEN p - 1 ELSE p) /\ r1 = r /\ d = 1 /\ d1 = 0
    BY <1>1, <2>1, OtherEntries
  <2> QED BY <1>5, <2>1, <2>2
<1> QED BY <1>4, <1>6

\* The half of it that needs no assumption: queue:processing lacks the entry of
\* a holder at most once for every reclaim, with every fault and crash.
LEMMA EntriesInvariant == Spec => [](\A j \in Jobs : EntriesFit(j))
<1> DEFINE Inv == \A j \in Jobs : EntriesFit(j)
<1>1. Init => Inv
  <2> SUFFICES ASSUME Init, NEW j \in Jobs PROVE EntriesFit(j)
    OBVIOUS
  <2>1. InFlight(j) = {} /\ IsFiniteSet({}) /\ Cardinality({}) = 0
    BY FS_EmptySet DEF Init, WorkerInit, InFlight, Holding
  <2> QED BY <2>1 DEF Init, StoreInit, TransportInit, ReaperInit, ToRemove, EntriesFit
<1>2. TypeOK /\ TypeOK' /\ Inv /\ [Next]_vars => Inv'
  BY NextEntries
<1> QED BY <1>1, <1>2, TypeCorrect, PTL DEF Spec

\* As long as nobody crashes and the stores answer, queue:processing holds an
\* entry for every worker that has the job in hand, none beyond, and lacks one
\* only for a reclaim: for every number of workers and reapers, with timeouts
\* that expire under live workers, so that stale workers and the reaper race
\* for the same entries, and with a reaper that crashes between its commands.
THEOREM EntriesMatchHolders ==
  ASSUME Mortal = {}, Faults = {}
  PROVE  Spec => []ProcessingMatchesHolders
<1>1. TypeOK /\ (\A j \in Jobs : EntriesFit(j)) => ProcessingMatchesHolders
  <2> SUFFICES ASSUME TypeOK, NEW j \in Jobs, EntriesFit(j)
               PROVE  processing[j] \in
                        (Cardinality(InFlight(j)) - reclaims[j])..Cardinality(InFlight(j))
    BY DEF ProcessingMatchesHolders
  <2>1. PICK h \in Nat, d \in {0, 1} : h = Cardinality(InFlight(j)) /\ d = ToRemove(j)
    BY FS_CardinalityType DEF EntriesFit, ToRemove
  <2>2. processing[j] \in Nat /\ reclaims[j] \in Nat
    BY DEF TypeOK, TransportTypeOK, StoreTypeOK
  <2>3. h + d <= processing[j] + reclaims[j] /\ processing[j] <= h
    BY <2>1 DEF EntriesFit, NothingFails
  <2> QED BY <2>1, <2>2, <2>3
<1> QED BY <1>1, EntriesInvariant, TypeCorrect, PTL
=============================================================================
