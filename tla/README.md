# A TLA+ model of DistribuQ

DistribuQ is a job queue: clients submit jobs over HTTP, PostgreSQL keeps one row per
job, Redis carries references to the rows, workers execute them, and two services bring
back what failed or got lost. This directory models the life of a job through all of
these processes, checks it with TLC, and proves the main safety properties with TLAPS.

    tlc -config locks.cfg MCDistribuQ        # one run
    tlapm RowProofs.tla                      # the proofs of one module

## The system

| component | state | operations | properties that make it correct |
|---|---|---|---|
| PostgreSQL (`db/schema.sql`, `worker/db.py`, `api/db.py`) | tables `jobs`, `workers`, `dead_letters` | one function, one transaction: insert, lock, report, retry, dead-letter, replay, cancel, the sweeps of the reaper, heartbeats | a lock belongs to one worker; attempts are bounded; an outcome is final; a dead job has one dead letter |
| Redis (`api/redis_client.py`) | lists `queue:high`, `queue:default`, `queue:low`, `queue:processing`; sorted set `zset:scheduled` | enqueue, reserve (scan, then BRPOP), ack, requeue, schedule, promote (Lua) | one reference per waiting job, on the list of its priority; in-flight entries match the workers |
| worker (`worker/worker.py`, `heartbeat.py`) | the job in hand, the attempts it was given, the next occurrence | start, reserve, lock, run, report, create the next occurrence, acknowledge, stop | one worker at a time executes a job; every job it takes is reported or reclaimed; a recurring job goes on |
| scheduler (`scheduler/scheduler.py`) | the batch it is pushing | sync at start; promote delayed jobs; promote retries; reaper pass every 5 s | nothing it commits to PENDING is left without a reference; nothing runs early |
| reaper (`worker/reaper.py`) | the batch it is requeueing | expire workers, reclaim, requeue, promote retries | as above; one failing job does not cost the others |
| API (`api/main.py`) | one run of a handler per request | submit, cancel, replay (and read-only endpoints) | a request that does not apply changes nothing |
| backoff, recurrence rules (`worker/retry.py`, `recurrence.py`) | the dates they leave in the row | delay with jitter and cap; next run | delays grow; no run is early or made up for |
| shutdown (`worker/worker.py`, `heartbeat.py`, `POST /dev/kill-worker`) | three tasks per worker, its row in `workers` | signal, kill message, the steps of the shutdown | a worker that is gone is DEAD for good |
| events, WebSocket manager, dashboard (`api/events.py`, `ws_manager.py`, `dashboard/app.js`) | subscription, connections, counters | best-effort publish, fan-out, polling | the counters agree with the table in the end |

The processes share the two stores and nothing else. A worker polls Redis; the scheduler
and the reaper poll PostgreSQL; nobody polls PostgreSQL for PENDING rows, so a PENDING
row without a reference is lost, and a job with two references may be handled twice.
What is hard here is in between: every operation is a transaction and some Redis
commands, one await after the other, in five kinds of processes that crash, raise and
time out independently. `PROJECT.json` lists the hazards one by one with their lines.

## Modules

The first group is one specification: each module extends the one above it, and adds one
component with its variables, its `...Init`, its `...TypeOK`, and one action per await of
the code that can change state. The second group looks closer at what the first abstracts:
each is a specification of its own, with as much of the rest as its questions need.

| module | models | correspondence |
|---|---|---|
| `JobStore` | PostgreSQL | one operator per statement or transaction; `jobs[j]` is the row, `ABSENT` before its INSERT |
| `Transport` | Redis | one operator per command; a list is a bag of references |
| `WorkerProcess` | workers, heartbeats | `pc[w]` is the await in `start()`/`process_job()`, `held` the `job_id`, `snap` the attempts returned by the lock, `next` the next occurrence |
| `SchedulerProcess` | scheduler | `spc` is the pass, `sbatch` the rows its loop has still to push |
| `ReaperProcess` | standalone reaper | `rpc`, `rbatch`, and `rcur`, the row between the LREM and the LPUSH of `requeue_job` |
| `ApiService` | submit, cancel, replay | `apc[r]` is the await in the handler of request `r` |
| `DistribuQ` | the composition, time, fairness, all properties | |
| `JobLifecycle` | the life of a job, as the code lets it be | states, the worker that executes, attempts, due retries; no queues, no processes. An abstraction of the code, not the diagram of `PROJECT_SPEC.md` (see below) |
| `JobRefinement` | `DistribuQ` implements `JobLifecycle` | the state of a job is its row; its owner is the worker that the row names and that executes it; the workers that are gone are the crashed ones |
| `MCDistribuQ` | constants for TLC | |
| `DistribuQProofs`, `RowProofs`, `ReferenceProofs`, `LifecycleProofs` | theorems about `DistribuQ`, each module on top of the one before | rows, references, then the refinement |
| `PriorityLists` | the lists in their order, `priority_reserve_job` command by command, BRPOP | `at[w]` is the next command of worker `w`, `blocked` the clients Redis keeps waiting |
| `WorkerShutdown` | the end of a worker process | `loop`, `beat`, `sub` are the awaits of its three tasks, `registry` its row |
| `EventStream` | publishes, subscriber, WebSockets, snapshots | `channel` and `wire` are the two hops of a message, `answer` a read of the counters not yet used |
| `Dashboard` | the browser, on top of `EventStream` | `shown` is `state.counts`, `chart` the sum of the buckets |
| `Timetable`, `MCTimetable` | backoff and recurrence with a numeric clock | `scheduledFor`, `retryAt` are the columns; one job at a time stands for its chain |
| `PriorityListsProofs`, `ShutdownProofs`, `DashboardProofs`, `TimetableProofs` | theorems about `PriorityLists`, `WorkerShutdown`, `Dashboard`, `Timetable` | |

The worker, `pc[w]`:

    off -> idle -> (popped ->) reserved -> running -> [failed ->] [recurring -> rescheduling ->] acking -> idle
                     BRPOP       |  LPUSH    lock       handler raised    the next occurrence         ack
                                 +-> acking (row not lockable)

Operators named `Wrong...` are not part of the model. Each is a definition with one
plausible mistake in it; `PROJECT.json` says which property notices it.

### Abstractions

* **Time.** A timestamp is kept as the answer to the comparison the code makes with it:
  `lockStale`, `retryDue`, `start`, `LATE`. The actions of `Time` turn an answer at any
  moment the comparison could first come out so. `Overrun` says whether a lock or a
  heartbeat may expire while its worker is alive: a handler that outlasts the visibility
  timeout, or a synchronous handler that holds up the event loop with the heartbeats.
* **Lists** are bags: the properties count references. The scan of
  `priority_reserve_job` is three commands, so a push may overtake it; `ReserveJob` may
  take from any non-empty list, which includes every outcome of such a scan.
  `BlockingPop` keeps the order in which BRPOP serves its lists.
* **Worker ids.** A restarted worker makes a new id, so it is another member of
  `Workers`; a crashed one does not come back.
* **Cancel.** Its SELECT and its guarded UPDATE are one step; the UPDATE tests the status
  again, so a change in between gives the outcome of one of the two orders.
* **The third test of `reclaim_stale_jobs`** (a heartbeat older than the visibility
  timeout) is covered by the second, since the worker timeout is shorter and runs first.
* **Graceful stops** of the scheduler and the reaper are crashes between two rounds.
* **Payloads** matter in one place: `compute_next_retry_at` raises on a `_base_delay` that is
  no number, or too large for this attempt, with every store at work. `retriable` says of a row
  that its payload is harmless (`Retriable` is what clients may send), and `NoRetryDate` is the
  failure report of one that is not: nothing is written, and the `finally` clause
  acknowledges. `ReportFailureFails` is the other case, a statement that raises, for whatever
  reason; it needs `"db"` in `Faults`. A result that is no JSON raises before the UPDATE of
  `mark_job_success` and is a handler that failed (`HandlerFails`).
* `result`, `error`, `jobs_processed`, logging and formatting are left out.
* **`PriorityLists`** gives every job one reference at a time and keeps three notes that no
  process reads (`arrived`, `again`, `passed`), for the properties about order.
* **`WorkerShutdown`** leaves the jobs themselves to `WorkerProcess`. The publish of
  `worker.dead` before the row is DEAD is left out: nothing that is modelled reads it.
* **`EventStream`**: the sends of one broadcast are one step; the changes of the table are
  those of `DistribuQ`, reduced to the status and to what is announced of them. A worker
  announces RUNNING before it runs the handler; no other two announcements are ordered. `GET /stats`
  and the request that the browser makes for it are one (`RefreshStats` is the moment the
  server reads the counters).
* **`Timetable`**: whole seconds, one clock, as on the single host of `docker-compose.yml`.
  `croniter` is external: it returns the first tick strictly after its argument.

### Bounds

`MaxReclaims` (reclaims of one job), `MaxOutages` (crashes of the services), requests that
are sent once, and `Jobs` as the pool of ids (`NoMoreOccurrences`). Nothing else of
`DistribuQ` is bounded; the queues are bounded by what these leave. `MaxReclaims` is 1, and
2 in `progress` and in the runs that end in a counterexample: one reclaim brings the second
execution, beside the first or after it, and with it everything that can go wrong between
two; another one repeats that. The theorems hold for any number of reclaims.

`PriorityLists` and `WorkerShutdown` have no bound besides the sets of constants.
`Dashboard`: `MaxChanges` (changes of the table and no-op cancels), `MaxConnections` (the
last WebSocket stays open), `MaxQueue` (messages on a hop; one is enough for a message to be
overtaken by an answer, and two hops hold two). `Timetable`: `MaxTime` ends the clock, and
the system with it, so deadlock is not checked there; `MaxCrashes`, `MaxRestarts`.
In `WorkerShutdown` the system stops when all workers have ended.

## Properties and runs

| run | instance | checks | what it shows |
|---|---|---|---|
| `locks` | 1 job, of any payload, 2 workers that may crash, both services, a cancel, a replay | `OwnerAttends`, `SoleExecution`, `SingleReference`, `DeadLettersExact`, `TerminalIsFinal`, `FollowsLifecycle` | without overruns, a job has one reference or one executor although two services poll the same rows, and the system implements `JobLifecycle` |
| `overruns` | 1 job, of any payload, 2 workers, timeouts expire under live workers, reaper, two replays | `TypeOK`, `NoStrandedJob`, `AttemptsAccounted`, `DeadLetterKept`, `ProcessingMatchesHolders` | stale workers and racing replays do not strand a job, hide attempts, lose the audit row or fill the in-flight list |
| `faults` | 1 job, 1 worker, both services; every SQL statement and Redis command may raise, every process may crash | `NoStrandedJob` | a lost job is always one that a failing process owed a reference |
| `recurring` | 3 occurrences, delayed starts, a crash, a restart of the scheduler, failing Redis commands | `ChainContinues`, `ChainDoesNotFork`, `NotBeforeItsTime` | one successor, and not before its time |
| `progress` | fair processes with the scheduler, 1 job of any payload, a crash of a worker and of the scheduler, delayed starts, a high priority | `EventuallySettled`, `AbandonedLocksEnd`, `PriorityKept` | every accepted job reaches an outcome; a lock does not outlast its use, whether its owner died or lives on; priorities survive retries and reclaims |
| `lists` | 3 jobs, 2 workers that crash and return, all tiers | `NoSleepWhileWaiting`, `OvertakenOnce`, `TierIsFifo`, `HighServed` | what the scan of three commands and BRPOP may reorder, and what not |
| `shutdown` | 2 workers, a kill request, failing statements, broken connections | `ExitedIsDead`, `KillIsHeeded`, `GoneIsNoticed` | the races of the three tasks end with a DEAD row |
| `dashboard` | 1 job with 3 changes, 2 connections, a request and two snapshots under way | `EventuallyAccurate`, `ChartCountsOnce` | lost, late and overtaking messages do no lasting harm; the chart counts what was announced, once |
| `timetable` | 12 s, interval and ticks of 3 s, 4 attempts, a cap of 5 s, bases -3 to 2, a crash, a restart | `DelaysGrow`, `RetrySpacing`, `NoBurst`, `DatesAdvance` | jitter and cap keep the order of delays; outages do not lead to bursts |

Two workers are enough for the lock properties: a violation needs one stale and one new
executor. One job is enough where jobs do not interact in the code (every statement and
command names one id); `recurring` has three, because a chain relates jobs, and so has
`lists`, where one waits, one is pushed and one is in hand. That a failure in the middle of a
batch costs only the jobs of that batch is covered for any number of jobs by the theorem
`NoJobStranded`. Symmetry of the jobs is used in `recurring`, of the workers and replays in `locks` and
`overruns`: they check invariants and formulas `[][A]_v`, no liveness. `Retriable` is `{TRUE}`
where no property is about failure reports (`faults` has a report that raises anyway).
`progress` has no replay: a second life of the job would double a liveness check that takes two
minutes, and brings no state that the first life has not; `PriorityKept` after replays is the
theorem `PrioritiesAreKept`. It has the scheduler and not the standalone reaper: that the
reaper alone brings jobs to an outcome is not checked.
In `timetable` the cap lies between the second and the third delay of base 2, so that a
jitter is cut off by it, and four intervals fit before the end.

**Fairness** (`Fairness` in `DistribuQ`). Weak fairness of the steps of every live worker
and request (an asyncio task whose await returned goes on; handlers return), of the
scheduler and the reaper (`restart: unless-stopped` in `docker-compose.yml`), and of the
clocks. Strong fairness of `ExpireWorkers` alone: the scheduler's reaper pass is due every
5 s, while the rounds in between skip it. Failures, crashes and new requests are not fair.

The other modules: in `PriorityLists` weak fairness of every worker (Redis answers, handlers
return, `restart: unless-stopped`), none of the traffic. In `WorkerShutdown` weak
fairness of the tasks of a live worker, of the clock that makes a heartbeat late and of
`ExpireWorkers`; that the loop takes jobs is not fair, so it may also idle. `ReserveNothing`
and the job are fair because BRPOP has a timeout of one second. In `Dashboard`
weak fairness of every task and timer (the ten-second poll of `app.js`) and strong fairness
of `ApplyAnswer`: a request may fail any number of times, but not every time.

**The refinement.** `FollowsLifecycle` is `Lifecycle!Spec`, with `Lifecycle` the instance of
`JobLifecycle` in `JobRefinement`. `JobLifecycle` says that only the worker that executes a job
reports, with its own count of attempts; that it lets go without a report only by a crash
or, while attempts are left, of a job whose delay cannot be computed (`GiveUp`); that a job is
taken back only when nobody executes it; and that a retry starts after its delay and its
promotion. It holds without overruns, with one replay and without delayed jobs;
`stale_overwrite` is a step that it does not allow.

## Where code and documentation differ

Each of these runs has a counterexample that follows the code; `PROJECT.json` quotes the
line it contradicts.

| run | property | in short |
|---|---|---|
| `lost_on_crash` | `NeverLost` | a crash between the reservation and the lock leaves a PENDING row that nobody carries |
| `cancel_strands` | `CancelIsNoOpOtherwise` | a cancel that does not apply still removes references |
| `stale_overwrite` | `SuccessIsFinal` | a stale worker turns SUCCESS into RETRYING |

More differences can be read off the models; no run is spent on them.

* A reclaimed job is locked again although its attempts are used up: `AttemptsAccounted`
  allows one more for every reclaim, while `api/models.py:21` speaks of a maximum.
* A restart of the scheduler adds a second reference to a delayed job that waits on a list
  already; that reference runs a retry before `next_retry_at` (`doubled` in `Timetable`).
* Two replays of one dead letter give two executions (`SoleExecution` holds with one).
* Promotion of a delayed job ignores its priority (`PromoteDue` pushes on `queue:default`;
  `PriorityKept` is about jobs that were not delayed). The reaper does the same to retries.
* `PROJECT_SPEC.md:121-126` draws RUNNING -> FAILED -> RETRYING -> RUNNING and FAILED ->
  DEAD_LETTER. The code goes from RUNNING to RETRYING or DEAD_LETTER at once and back from
  RETRYING by way of PENDING; FAILED is what a cancelled job becomes. `JobLifecycle` has the
  arrows of the code, with those the diagram does not draw (cancel, reclaim, replay).
* A worker acknowledges a job although its report raised (`ReportFailureFails`). With a
  `_base_delay` in the payload that cannot be computed with, this needs no failing store
  (`NoRetryDate`): the row stays RUNNING under a live worker that does other work, until the
  visibility timeout, and so after every attempt but the last. `OwnerAttends` and
  `JobLifecycle` name this case; `AbandonedLocksEnd` says that it ends.
* The entry that a crashed worker leaves in `queue:processing` is removed only if the standalone
  reaper takes the job back, not if the scheduler does (`ProcessingMatchesHolders` is about
  workers that do not crash).
* A crash between the success of a recurring job and the insertion of its next occurrence
  ends the chain (`ChainContinues` has `dropped` for this case).
* The docstring of `priority_reserve_job` says that a busy high-priority queue does not starve
  the lower ones; the scan begins with `queue:high` every time, so it does.
  `HighServed` has no counterpart for the other lists.
* "The worker receives it" (`api/main.py:371`): not if its subscriber is broken or has not
  subscribed yet. `KillIsHeeded` is about messages that were delivered.
* A cancel that changes nothing is announced all the same, and charted once more.

The passing runs state what the code does keep in the same places: `NoStrandedJob` names
every way to lose a job, `AttemptsAccounted` bounds the extra attempts, `TerminalIsFinal`
holds as long as no timeout expires under a live worker, and so on.

## What is proved

All theorems hold for every value of the constants that satisfies the `ASSUME`s of the
modules (any number of jobs, workers and requests), and rest on no other assumption than
those named in their statements.

* `TypeCorrect` : `Spec => []TypeOK`. The component lemmas go bottom up: rows, statements,
  commands, then the processes. `TypeOK` also holds the facts about program points that the other
  proofs need (the reaper's batch is empty outside of its loops, a request is at points
  of its own handler, a new request has no target).
* `NoJobStranded` : `Spec => []NoStrandedJob`, with all faults and overruns.
  `TypeOK /\ NoStrandedJob` is inductive. A step of a process can only disturb it for the row it
  makes PENDING and the reference it takes; `OwnReference` states for a worker's step
  where that reference is afterwards.
* `OwnersAttend` : `Spec => []OwnerAttends` if no call to PostgreSQL raises, for all payloads
  and also with overruns. Only `fetch_and_lock_job` makes a row RUNNING, and every way out of the
  execution writes another status first, or is a crash, or is `NoRetryDate`. That a
  job given up has attempts left is a matter of the worker's own count, so the induction needs
  `OwnerCounts`: the owner that executes a job knows the attempts of the row.
* `SoleExecutor`, `OutcomeIsFinal` : `SoleExecution` and `TerminalIsFinal` without
  overruns, without faults of PostgreSQL and with at most one replay request. Neither
  is inductive: a row does not know which worker is at work. `LockInv` adds that an
  executing worker holds a fresh lock of its own, that the heartbeat of a live worker is
  recent (so that no sweep meets its lock), and that a job has a dead letter only in
  DEAD_LETTER, at most one, which a replay that selected it finds (so that a replay never
  resets a job that is being executed). The three assumptions are needed: `stale_overwrite` is
  what happens with overruns, two replays of one dead letter give two executions, and a
  `mark_job_success` that commits and raises is followed by the report of a failure over SUCCESS.
* `DeadLettersAreKept`, `DeadLettersAreExact` : `DeadLetterKept` with all faults, overruns
  and any number of replays, since every way into DEAD_LETTER inserts its row in the same
  transaction; together with `LockInv`, and under its assumptions, `DeadLettersExact`.
* `ChainGoesOn`, `ChainIsALine` : `ChainContinues` if no call to PostgreSQL raises, also with
  overruns; `ChainDoesNotFork` under the assumptions of `LockInv`. The invariant of the
  second, `OneContinuation`, says that no job without SUCCESS has a next occurrence, that at
  most one worker is about to insert one, and that the job has none yet.
* `NothingRunsEarly` : `Spec => []NotBeforeItsTime`, with all faults and overruns. The
  inductive form, `UntouchedBefore`, follows the job through every process: nobody has an id
  without a row, or a row whose time has not come, in hand, but the requests that created or
  cancelled it and the scheduler while it syncs.
* `OneReference` : `SingleReference` under the assumptions of `LockInv`. The count is not
  inductive, since whether a step adds a reference to one that is already there depends on the
  row. `RefInv` lists the places of a reference (the lists, a worker, a request, the services),
  says that a job which was not delayed has one place at most, and that it has one only while
  its row is PENDING, or FAILED for a job that was cancelled on its way, or while the worker is
  executing it. So whoever commits a row to PENDING finds no reference to it.
* `LifecycleFollowed` : the refinement, under the same assumptions and without delayed or
  recurring jobs. Every statement that a step can be (`EveryStepIsStatement`) is mapped to a
  step of `JobLifecycle` or to none. `LockInv` shows that the owner of a job is the one worker that
  executes it (`OwnerExecutes`), so that whoever reports or gives up is the owner, and a reclaim
  meets none; `RefInv` that the one who locks finds a PENDING row (a retry has no reference before
  its promotion); and `LifeInv` that the attempts a worker has read are those of the row. Delayed
  jobs are left out because the sync of a scheduler adds again the id of a row it read before
  the job was promoted and failed: that reference locks a RETRYING row, a step that
  `JobLifecycle` does not have.
* `AttemptsAreAccounted` : `AttemptsAccounted`, with all faults, overruns and any number of
  replays. `AttemptsFit` counts chances (a row that can be locked, and every worker that may
  still report its failure as a retry) against grants (reclaims and replays): attempts and
  chances together never exceed `MaxAttempts` and the grants.
* `PrioritiesAreKept` : `PriorityKept` where the standalone reaper is not deployed, as in
  `docker-compose.yml`; it pushes everything on `queue:default`. All faults, overruns and
  crashes are allowed. The inductive form, `OnItsTier`, is about jobs with a row; that an id
  without one waits nowhere is `UntouchedBefore`, and is what allows the INSERT to choose the
  priority.
* `EntriesMatchHolders` : `ProcessingMatchesHolders` as long as no worker crashes and the
  stores answer; timeouts may expire under live workers. In `EntriesFit`, an entry is missing
  for a reclaim at most, and not yet for those that the reaper has still to serve: this half
  holds without any assumption. An entry in excess is what a crashed worker leaves, which is
  the purpose of the list, or one whose LREM raised.
* `NobodyOversleeps`, `InversionIsBounded` : `NoSleepWhileWaiting` and `OvertakenOnce`.
  `ListsInv` adds that a reference is in one place (`Apart`), and that what a worker has passed
  over still waits, on a list that its scan has not passed since (`Noted`): a second inversion
  would need the scan to find the list empty.
* `OutcomesCountOnce` : `ChartCountsOnce`. `ChartInv` says that the chart, the messages on both
  hops and the announcements that are owed are together no more than the outcomes.
* `ShutdownIsRecorded` : `Spec => []ExitedIsDead`. What makes it inductive is `BeatIsOver`: the
  heartbeat task has ended before `mark_worker_dead` is called.
* `OutagesDoNotBurst`, `DatesOnlyAdvance` : `NoBurst` and `DatesAdvance`. `TimetableInv` adds
  that what is on a list, or was given to a worker, has reached its date, and that the date of
  an interval job is an interval after the success before; `TickIsLater` is the arithmetic of
  cron's next tick. Multiples of the period are the model's picture of cron's ticks.
* `RetriesKeepTheirDistance` : `RetrySpacing`. `RetryInv` says that an occurrence which failed
  waits for its date, and that one which was promoted has reached it; `OneWaits`, that without
  a doubled reference nothing else can start it.
* `DelaysDoGrow` : `DelaysGrow`. `GrowInv` bounds the last delay by the exponential of the next
  attempt: jitter adds half, an attempt doubles, and the cap cuts off both alike.
  `PowerOfTwoDef` shows that the recursive function is defined, by steps from a least
  counterexample.

The theorems about `PriorityLists`, `WorkerShutdown`, `Dashboard` and `Timetable` rest on no
assumption besides the `ASSUME`s. `RowProofs` has two parts: the first is about locks; the
second shows that a step of any process is one of a dozen statements (`EveryStepIsStatement`),
and what each makes of a row (`EffectOfStatement`). The later modules argue by statement, and
not by process, wherever a row is all that counts.

Only model-checked: `TierIsFifo`, which compares positions in two sequences; and all liveness
(`EventuallySettled`, `AbandonedLocksEnd`, `HighServed`, `KillIsHeeded`,
`GoneIsNoticed`, `EventuallyAccurate`), which is out of reach of the prover.

## What is not modelled

* Handlers (user code), request validation, and the endpoints that only read.
* The regular expression of `parse_interval`, and cron expressions (a library).
* `worker.dead` and the lists of workers and jobs on the dashboard: they are replaced
  as a whole by the next poll.
* Two clocks. With a worker whose clock is behind the scheduler's, `DatesAdvance` fails: the
  tick that has just run is computed again.
* A restart of Redis from its last snapshot, and a client that stops reading its WebSocket.
* Benchmarks and demo scripts (clients), functions without a caller (`mark_job_failed`,
  `atomic_reserve_job`, `emit_worker_heartbeat`), configuration.

## Plan

Done: all modules above and the theorems listed. Left: `TierIsFifo`. Its invariant
says that a list is in the order of `arrived`, the oldest on the right, with the requeued ones
to the right of all others, and needs of `Arrive` which reference goes to whom.
