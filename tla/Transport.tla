----------------------------- MODULE Transport -----------------------------
(***************************************************************************)
(* The Redis side of DistribuQ: the three priority lists, the list of      *)
(* in-flight jobs and the sorted set of delayed jobs, with one operator    *)
(* for each command api/redis_client.py sends.  A list is a bag of job     *)
(* references here: the properties of the composition count references     *)
(* and never compare their positions.                                      *)
(***************************************************************************)
EXTENDS JobStore

VARIABLES
  queue,       \* queue:high, queue:default, queue:low: references per job
  scheduled,   \* zset:scheduled
  processing,  \* queue:processing: references per job
  dropped      \* bookkeeping: jobs to which a process that failed or
               \* crashed still owed a reference or a next occurrence

transportVars == <<queue, scheduled, processing, dropped>>

Tiers == {"high", "default", "low"}

\* The order in which a worker looks at the lists.
Before(s, t) == \/ s = "high" /\ t # "high"
                \/ s = "default" /\ t = "low"

TransportTypeOK ==
  /\ queue \in [Tiers -> [Jobs -> Nat]]
  /\ scheduled \subseteq Jobs
  /\ processing \in [Jobs -> Nat]
  /\ dropped \subseteq Jobs

TransportInit ==
  /\ queue = [t \in Tiers |-> [j \in Jobs |-> 0]]
  /\ scheduled = {}
  /\ processing = [j \in Jobs |-> 0]
  /\ dropped = {}

Queued(j) == \E t \in Tiers : queue[t][j] > 0
InRedis(j) == Queued(j) \/ j \in scheduled
Empty(t) == \A j \in Jobs : queue[t][j] = 0

TierOf(priority) == IF priority > 0 THEN "high"
                    ELSE IF priority < 0 THEN "low" ELSE "default"

\* LPUSH (or RPUSH) of one reference; LREM with count 1; LREM with count 0.
Push(j, t) == queue' = [queue EXCEPT ![t][j] = @ + 1]
\* Mutant: a counter that is decremented whether or not LREM found an entry.
WrongLessOne(bag, j) == [bag EXCEPT ![j] = @ - 1]

LessOne(bag, j) == [bag EXCEPT ![j] = IF @ > 0 THEN @ - 1 ELSE 0]

Enqueue(j, priority) ==
  /\ Push(j, TierOf(priority))
  /\ UNCHANGED <<scheduled, processing, dropped>>

EnqueueOn(j, t) ==
  /\ Push(j, t)
  /\ UNCHANGED <<scheduled, processing, dropped>>

\* RPOPLPUSH into the in-flight list.
MoveToProcessing(j, t) ==
  /\ queue[t][j] > 0
  /\ queue' = [queue EXCEPT ![t] = LessOne(@, j)]
  /\ processing' = [processing EXCEPT ![j] = @ + 1]
  /\ UNCHANGED <<scheduled, dropped>>

\* BRPOP on the three lists: it serves the first that is not empty.
BlockingPop(j, t) ==
  /\ queue[t][j] > 0
  /\ \A s \in Tiers : Before(s, t) => Empty(s)
  /\ queue' = [queue EXCEPT ![t] = LessOne(@, j)]
  /\ UNCHANGED <<scheduled, processing, dropped>>

PushProcessing(j) ==
  /\ processing' = [processing EXCEPT ![j] = @ + 1]
  /\ UNCHANGED <<queue, scheduled, dropped>>

Ack(j) ==
  /\ processing' = LessOne(processing, j)
  /\ UNCHANGED <<queue, scheduled, dropped>>

\* ZADD: a member that is already there only gets its score again.
Schedule(j) ==
  /\ scheduled' = scheduled \cup {j}
  /\ UNCHANGED <<queue, processing, dropped>>

\* Mutant: ZRANGE without the bound on the score.
WrongDueScheduled == scheduled

\* The Lua script runs atomically; it pushes on target_queue, which is
\* queue:default, whatever the priority of the job.
DueScheduled == {j \in scheduled : jobs[j].start = "due"}

PromoteDue ==
  /\ scheduled' = scheduled \ DueScheduled
  /\ queue' = [queue EXCEPT !["default"] =
                 [j \in Jobs |-> @[j] + (IF j \in DueScheduled THEN 1 ELSE 0)]]
  /\ UNCHANGED <<processing, dropped>>

RemoveFrom(j, t) ==
  /\ queue' = [queue EXCEPT ![t][j] = 0]
  /\ UNCHANGED <<scheduled, processing, dropped>>

Unschedule(j) ==
  /\ scheduled' = scheduled \ {j}
  /\ UNCHANGED <<queue, processing, dropped>>

\* A process goes away or gives up while it owes something to these jobs.
Drop(owed) ==
  /\ dropped' = dropped \cup owed
  /\ UNCHANGED <<queue, scheduled, processing>>
=============================================================================
