--------------------------- MODULE JobRefinement ---------------------------
(***************************************************************************)
(* DistribuQ implements JobLifecycle: the state of a job is its row, its   *)
(* owner is the worker that its row names and that executes it, and the    *)
(* workers that are gone are those that crashed.                           *)
(***************************************************************************)
EXTENDS DistribuQ

Attended(j) == \E w \in Workers : jobs[j].lockedBy = w /\ Executing(w, j)
Owner(j) == IF Attended(j) THEN jobs[j].lockedBy ELSE NoWorker

Lifecycle == INSTANCE JobLifecycle WITH
  status   <- [j \in Jobs |-> Status(j)],
  owner    <- [j \in Jobs |-> Owner(j)],
  attempts <- [j \in Jobs |-> jobs[j].attempts],
  due      <- {j \in Jobs : Status(j) = "RETRYING" /\ jobs[j].retryDue},
  awkward  <- {j \in Jobs : ~jobs[j].retriable},
  gone     <- {w \in Workers : pc[w] = "crashed"}

\* While no timeout expires under a live worker, and with one replay at a
\* time, every step of every process is a step of the abstract life of a
\* job or leaves it alone: only the worker that executes it reports, with the
\* number of attempts of its own lock; it lets go without a report only of a
\* job whose delay cannot be computed; a job is taken back only when nobody
\* executes it; a retry starts after its delay and after its promotion; a
\* replay finds the job in DEAD_LETTER.
FollowsLifecycle == Lifecycle!Spec
=============================================================================
