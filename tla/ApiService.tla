----------------------------- MODULE ApiService -----------------------------
(***************************************************************************)
(* The three request handlers of the API that change a job (api/main.py):  *)
(* submit, cancel and replay.  A request is one run of its handler; the    *)
(* handlers of different requests interleave at every await.               *)
(***************************************************************************)
EXTENDS ReaperProcess

CONSTANTS
  Submitters,   \* requests POST /jobs
  Cancellers,   \* requests POST /jobs/{id}/cancel
  Replayers,    \* requests POST /dead-letters/{id}/replay
  ApiFails      \* TRUE: a handler may end early, by a Redis error or
                \* because the API process goes down

Requests == Submitters \cup Cancellers \cup Replayers

ASSUME ApiAssumption ==
  /\ Submitters \cap Cancellers = {}
  /\ Submitters \cap Replayers = {}
  /\ Cancellers \cap Replayers = {}
  /\ ApiFails \in BOOLEAN

VARIABLES
  apc,     \* where a request is in its handler
  target,  \* the job it is about
  letter   \* the dead letter a replay selected

apiVars == <<apc, target, letter>>

ApiLocations == {"new", "inserted", "purge_default", "purge_high",
                 "purge_low", "unschedule", "selected", "committed",
                 "done", "aborted"}

\* The rest of a cancel request, once its statement is committed.
Purging == {"purge_default", "purge_high", "purge_low", "unschedule"}

ApiTypeOK ==
  /\ apc \in [Requests -> ApiLocations]
  /\ target \in [Requests -> Jobs \cup {NoJob}]
  /\ letter \in [Requests -> Nat]
  /\ \A r \in Requests : IF apc[r] = "new" THEN target[r] = NoJob
                                            ELSE target[r] \in Jobs
  /\ \A r \in Requests : /\ apc[r] = "inserted" => r \in Submitters
                         /\ apc[r] \in Purging => r \in Cancellers
                         /\ apc[r] \in {"selected", "committed"} => r \in Replayers

ApiInit ==
  /\ apc = [r \in Requests |-> "new"]
  /\ target = [r \in Requests |-> NoJob]
  /\ letter = [r \in Requests |-> 0]

Move(r, from, to) == apc[r] = from /\ apc' = [apc EXCEPT ![r] = to]

\* The job whose first reference only this request still carries.
RequestOwes(r) == IF apc[r] \in {"inserted", "committed"} THEN {target[r]} ELSE {}

-----------------------------------------------------------------------------
(* submit_job: insert, then enqueue or schedule.                           *)

CreateJob(r, j) ==
  /\ Move(r, "new", "inserted")
  /\ \E p \in Priorities, s \in Starts, c \in Rules, d \in Retriable :
       InsertJob(j, NewRow(p, s, c, d), NoJob)
  /\ target' = [target EXCEPT ![r] = j]
  /\ UNCHANGED <<letter, transportVars>>

\* Mutant: a scheduled_for that has passed is neither enqueued nor scheduled.
WrongSubmitJob(r) ==
  LET j == target[r] IN
  /\ Move(r, "inserted", "done")
  /\ CASE jobs[j].start = "now" -> Enqueue(j, jobs[j].priority)
       [] jobs[j].start = "future" -> Schedule(j)
       [] jobs[j].start = "due" -> UNCHANGED transportVars
  /\ UNCHANGED <<target, letter, storeVars>>

\* The handler looks at the request's scheduled_for, not at the clock.
SubmitJob(r) ==
  LET j == target[r] IN
  /\ Move(r, "inserted", "done")
  /\ IF jobs[j].start = "now" THEN Enqueue(j, jobs[j].priority)
                              ELSE Schedule(j)
  /\ UNCHANGED <<target, letter, storeVars>>

-----------------------------------------------------------------------------
(* cancel_job_by_id: the row, then the four removals, whatever the row's   *)
(* status turned out to be.                                                *)

CancelJob(r, j) ==
  /\ Move(r, "new", "purge_default")
  /\ j \notin Fresh
  /\ CancelRow(j)
  /\ target' = [target EXCEPT ![r] = j]
  /\ UNCHANGED <<letter, transportVars>>

PurgeQueue(r) ==
  /\ \/ Move(r, "purge_default", "purge_high") /\ RemoveFrom(target[r], "default")
     \/ Move(r, "purge_high", "purge_low") /\ RemoveFrom(target[r], "high")
     \/ Move(r, "purge_low", "unschedule") /\ RemoveFrom(target[r], "low")
  /\ UNCHANGED <<target, letter, storeVars>>

PurgeSchedule(r) ==
  /\ Move(r, "unschedule", "done")
  /\ Unschedule(target[r])
  /\ UNCHANGED <<target, letter, storeVars>>

-----------------------------------------------------------------------------
(* replay_dead_letter_job: select a dead letter, delete it and reset the   *)
(* job in one transaction, enqueue without a priority.                     *)

SelectLetter(r, j, n) ==
  /\ <<j, n>> \in deadLetters
  /\ Move(r, "new", "selected")
  /\ target' = [target EXCEPT ![r] = j]
  /\ letter' = [letter EXCEPT ![r] = n]
  /\ UNCHANGED <<storeVars, transportVars>>

\* Mutant: a replay that finds its dead letter gone answers before the push,
\* but it has reset the job.
WrongCommitReplay(r) ==
  /\ apc[r] = "selected"
  /\ apc' = [apc EXCEPT ![r] = IF <<target[r], letter[r]>> \in deadLetters
                               THEN "committed" ELSE "done"]
  /\ ReplayRow(target[r], letter[r])
  /\ UNCHANGED <<target, letter, transportVars>>

CommitReplay(r) ==
  /\ Move(r, "selected", "committed")
  /\ ReplayRow(target[r], letter[r])
  /\ UNCHANGED <<target, letter, transportVars>>

EnqueueReplayed(r) ==
  /\ Move(r, "committed", "done")
  /\ EnqueueOn(target[r], "default")
  /\ UNCHANGED <<target, letter, storeVars>>

-----------------------------------------------------------------------------
AbortRequest(r) ==
  /\ ApiFails
  /\ apc[r] \notin {"new", "done", "aborted"}
  /\ apc' = [apc EXCEPT ![r] = "aborted"]
  /\ Drop(RequestOwes(r))
  /\ UNCHANGED <<target, letter, storeVars>>

FirstStep(r) ==
  \/ r \in Submitters /\ \E j \in Jobs : CreateJob(r, j)
  \/ r \in Cancellers /\ \E j \in Jobs : CancelJob(r, j)
  \/ r \in Replayers /\ \E j \in Jobs : \E n \in 1..letters[j] : SelectLetter(r, j, n)

LaterStep(r) ==
  \/ SubmitJob(r) \/ PurgeQueue(r) \/ PurgeSchedule(r)
  \/ CommitReplay(r) \/ EnqueueReplayed(r)

ApiNext == \E r \in Requests : FirstStep(r) \/ LaterStep(r) \/ AbortRequest(r)
=============================================================================
