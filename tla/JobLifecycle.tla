---------------------------- MODULE JobLifecycle ----------------------------
(***************************************************************************)
(* What DistribuQ promises about a job, without queues, references or      *)
(* processes: the states of a job, the worker that attends to a RUNNING    *)
(* one, the attempts it has used, and the retries whose delay has passed.  *)
(* Each action is a change of one row (or of one batch of rows) that the   *)
(* code commits, or the moment a worker lets go of a row without changing  *)
(* it; module JobRefinement maps the system onto these variables.          *)
(*                                                                         *)
(* The arrows are those of the code, not of the diagram in PROJECT_SPEC.md,*)
(* where a failure passes through FAILED, and a retry goes from RETRYING   *)
(* to RUNNING at once: worker/db.py writes RETRYING or DEAD_LETTER over    *)
(* RUNNING, a retry is PENDING again before it starts, and FAILED is what  *)
(* a cancelled job becomes.                                                *)
(***************************************************************************)
EXTENDS Integers

CONSTANTS Jobs, Workers, NoWorker, MaxAttempts

VARIABLES
  status,    \* the state of a job
  owner,     \* the worker that executes a RUNNING job, if one does
  attempts,  \* how often it was started since it was submitted or replayed
  due,       \* the RETRYING jobs whose delay has passed
  awkward,   \* the jobs whose delay cannot always be computed
  gone       \* the workers that crashed

lifeVars == <<status, owner, attempts, due, awkward, gone>>

Start == /\ status = [j \in Jobs |-> "ABSENT"]
         /\ owner = [j \in Jobs |-> NoWorker]
         /\ attempts = [j \in Jobs |-> 0]
         /\ due = {}
         /\ awkward = {}
         /\ gone = {}

\* The jobs of S go from one state to another, and nobody owns them.
Release(S, from, to) ==
  /\ S # {}
  /\ \A j \in S : status[j] = from
  /\ status' = [j \in Jobs |-> IF j \in S THEN to ELSE status[j]]
  /\ owner' = [j \in Jobs |-> IF j \in S THEN NoWorker ELSE owner[j]]

Submit(j) ==
  /\ Release({j}, "ABSENT", "PENDING")
  /\ awkward' \in {awkward, awkward \cup {j}}
  /\ UNCHANGED <<attempts, due, gone>>

Cancel(j) ==
  Release({j}, "PENDING", "FAILED") /\ UNCHANGED <<attempts, due, awkward, gone>>

\* Only a PENDING job starts: a retry is promoted first.
Take(j, w) ==
  /\ status[j] = "PENDING"
  /\ w \notin gone
  /\ status' = [status EXCEPT ![j] = "RUNNING"]
  /\ owner' = [owner EXCEPT ![j] = w]
  /\ attempts' = [attempts EXCEPT ![j] = @ + 1]
  /\ UNCHANGED <<due, awkward, gone>>

\* The outcome is reported by the owner, while it lives.
Report(j) ==
  /\ owner[j] # NoWorker
  /\ \/ Release({j}, "RUNNING", "SUCCESS")
     \/ attempts[j] < MaxAttempts /\ Release({j}, "RUNNING", "RETRYING")
     \/ attempts[j] >= MaxAttempts /\ Release({j}, "RUNNING", "DEAD_LETTER")
  /\ UNCHANGED <<attempts, due, awkward, gone>>

\* The owner cannot report a failure, and goes on to other work.
GiveUp(j) ==
  /\ owner[j] # NoWorker
  /\ j \in awkward
  /\ attempts[j] < MaxAttempts
  /\ owner' = [owner EXCEPT ![j] = NoWorker]
  /\ UNCHANGED <<status, attempts, due, awkward, gone>>

DelayPasses(j) ==
  /\ status[j] = "RETRYING"
  /\ j \notin due
  /\ due' = due \cup {j}
  /\ UNCHANGED <<status, owner, attempts, awkward, gone>>

Promote(S) ==
  /\ S \subseteq due
  /\ Release(S, "RETRYING", "PENDING")
  /\ due' = due \ S
  /\ UNCHANGED <<attempts, awkward, gone>>

\* Only a job that nobody executes any more is taken back.
Reclaim(S) ==
  /\ \A j \in S : owner[j] = NoWorker
  /\ Release(S, "RUNNING", "PENDING")
  /\ UNCHANGED <<attempts, due, awkward, gone>>

Replay(j) ==
  /\ Release({j}, "DEAD_LETTER", "PENDING")
  /\ attempts' = [attempts EXCEPT ![j] = 0]
  /\ UNCHANGED <<due, awkward, gone>>

\* A worker that crashes leaves what it owned, and owns nothing ever after.
Crash(w) ==
  /\ gone' = gone \cup {w}
  /\ owner' = [j \in Jobs |-> IF owner[j] = w THEN NoWorker ELSE owner[j]]
  /\ UNCHANGED <<status, attempts, due, awkward>>

Evolve ==
  \/ \E j \in Jobs : \/ Submit(j) \/ Cancel(j) \/ Report(j) \/ GiveUp(j)
                     \/ DelayPasses(j) \/ Replay(j)
                     \/ \E w \in Workers : Take(j, w)
  \/ \E S \in SUBSET Jobs : Promote(S) \/ Reclaim(S)
  \/ \E w \in Workers : Crash(w)

Spec == Start /\ [][Evolve]_lifeVars
=============================================================================
