--------------------------- MODULE PriorityLists ---------------------------
(***************************************************************************)
(* The order inside the three priority lists of api/redis_client.py, which *)
(* Transport abstracts to bags: lists as Redis keeps them (LPUSH adds on   *)
(* the left, a pop takes from the right), the scan of priority_reserve_job *)
(* one command at a time, and the workers that wait in BRPOP, which Redis  *)
(* serves in the order they came, together with the command that pushes.   *)
(* Every reference is another job here; a crashed worker is replaced.      *)
(***************************************************************************)
EXTENDS Integers, SequencesExt

CONSTANTS Refs, Workers, NoRef

ASSUME ListsAssumption == NoRef \notin Refs

VARIABLES
  lists,    \* queue:high, queue:default, queue:low
  delayed,  \* zset:scheduled
  at,       \* the list a worker looks at next, or where it is otherwise
  hand,     \* the reference a worker has taken
  blocked,  \* the workers in BRPOP, the first to come first
  orphans,  \* the entries of queue:processing whose worker crashed
  moving,   \* the reference the reaper has off queue:processing
  arrived,  \* bookkeeping: references waiting or taken, by last push
  again,    \* bookkeeping: references pushed last by requeue_job
  passed    \* bookkeeping: who took what stood behind a waiting reference

vars == <<lists, delayed, at, hand, blocked, orphans, moving, arrived, again, passed>>

Tiers == {"high", "default", "low"}
Above == [high |-> {}, default |-> {"high"}, low |-> {"high", "default"}]

\* Mutant: the three keys in the order high, low, default.
WrongNextLook == [high |-> "low", low |-> "default", default |-> "brpop"]

NextLook == [high |-> "default", default |-> "low", low |-> "brpop"]

Waiting(t) == ToSet(lists[t])
Held == {hand[w] : w \in Workers} \ {NoRef}
Free == Refs \ ((UNION {Waiting(t) : t \in Tiers}) \cup delayed \cup Held \cup {moving})

Init ==
  /\ lists = [t \in Tiers |-> <<>>]
  /\ at = [w \in Workers |-> "high"]
  /\ hand = [w \in Workers |-> NoRef]
  /\ blocked = <<>> /\ arrived = <<>>
  /\ delayed = {} /\ orphans = {} /\ again = {} /\ passed = {}
  /\ moving = NoRef

-----------------------------------------------------------------------------
(* Pushing.                                                                *)

\* A command or script has left `list' on tier t: Redis hands what is on its
\* right end to the waiting workers, the first to come first.
Arrive(t, list) ==
  LET n == IF Len(list) < Len(blocked) THEN Len(list) ELSE Len(blocked)
      served == SubSeq(blocked, 1, n)
      share == [i \in 1..n |-> list[Len(list) + 1 - i]]
      turn(w) == CHOOSE i \in 1..n : served[i] = w
  IN /\ lists' = [lists EXCEPT ![t] = SubSeq(list, 1, Len(list) - n)]
     /\ blocked' = SubSeq(blocked, n + 1, Len(blocked))
     /\ at' = [w \in Workers |-> IF Contains(served, w) THEN "popped" ELSE at[w]]
     /\ hand' = [w \in Workers |-> IF Contains(served, w) THEN share[turn(w)] ELSE hand[w]]

\* Mutant: RPUSH, which makes a stack of the list.
WrongPush(t, batch) ==
  /\ Arrive(t, lists[t] \o batch)
  /\ arrived' = arrived \o batch
  /\ again' = again \ ToSet(batch)
  /\ orphans' = orphans \ ToSet(batch)

\* LPUSH of one reference after the other.
Push(t, batch) ==
  /\ Arrive(t, Reverse(batch) \o lists[t])
  /\ arrived' = arrived \o batch
  /\ again' = again \ ToSet(batch)
  /\ orphans' = orphans \ ToSet(batch)

Enqueue(r, t) ==
  /\ r \in Free
  /\ Push(t, <<r>>)
  /\ UNCHANGED <<delayed, moving, passed>>

Delay(r) ==
  /\ r \in Free \ orphans
  /\ delayed' = delayed \cup {r}
  /\ UNCHANGED <<lists, at, hand, blocked, orphans, moving, arrived, again, passed>>

\* The script pushes all that is due, the smallest score first.
Promote ==
  /\ \E due \in (SUBSET delayed) \ {{}} :
       /\ \E batch \in SetToSeqs(due) : Push("default", batch)
       /\ delayed' = delayed \ due
  /\ UNCHANGED <<moving, passed>>

\* LREM of a cancelled job.
Cancel(r, t) ==
  /\ r \in Waiting(t)
  /\ lists' = [lists EXCEPT ![t] = RemoveFirst(@, r)]
  /\ arrived' = RemoveFirst(arrived, r)
  /\ passed' = passed \ (Workers \X {r})
  /\ UNCHANGED <<delayed, at, hand, blocked, orphans, moving, again>>

-----------------------------------------------------------------------------
(* Reserving.                                                              *)

Overtaken(w, t) == {w} \X UNION {Waiting(s) : s \in Above[t]}

TakeFrom(w, t, to) ==
  /\ lists[t] # <<>>
  /\ lists' = [lists EXCEPT ![t] = Front(@)]
  /\ hand' = [hand EXCEPT ![w] = Last(lists[t])]
  /\ at' = [at EXCEPT ![w] = to]
  /\ passed' = (passed \cup Overtaken(w, t)) \ (Workers \X {Last(lists[t])})
  /\ UNCHANGED <<delayed, blocked, orphans, moving, arrived, again>>

Reserve(w) == at[w] \in Tiers /\ TakeFrom(w, at[w], "working")

LookOn(w) ==
  /\ at[w] \in Tiers
  /\ lists[at[w]] = <<>>
  /\ at' = [at EXCEPT ![w] = NextLook[@]]
  /\ UNCHANGED <<lists, delayed, hand, blocked, orphans, moving, arrived, again, passed>>

PopFirst(w) ==
  /\ at[w] = "brpop"
  /\ \E t \in Tiers : (\A s \in Above[t] : lists[s] = <<>>) /\ TakeFrom(w, t, "popped")

\* Mutant: the server looks at the key it was asked for first only.
WrongBlock(w) ==
  /\ at[w] = "brpop"
  /\ lists["high"] = <<>>
  /\ at' = [at EXCEPT ![w] = "blocked"]
  /\ blocked' = Append(blocked, w)
  /\ UNCHANGED <<lists, delayed, hand, orphans, moving, arrived, again, passed>>

Block(w) ==
  /\ at[w] = "brpop"
  /\ \A t \in Tiers : lists[t] = <<>>
  /\ at' = [at EXCEPT ![w] = "blocked"]
  /\ blocked' = Append(blocked, w)
  /\ UNCHANGED <<lists, delayed, hand, orphans, moving, arrived, again, passed>>

\* After a second of waiting the loop starts over.
Timeout(w) ==
  /\ at[w] = "blocked"
  /\ at' = [at EXCEPT ![w] = "high"]
  /\ blocked' = RemoveFirst(blocked, w)
  /\ UNCHANGED <<lists, delayed, hand, orphans, moving, arrived, again, passed>>

StoreReserved(w) ==
  /\ at[w] = "popped"
  /\ at' = [at EXCEPT ![w] = "working"]
  /\ UNCHANGED <<lists, delayed, hand, blocked, orphans, moving, arrived, again, passed>>

-----------------------------------------------------------------------------
(* Acknowledging, crashing, requeueing.                                    *)

LetGo(w) ==
  /\ at' = [at EXCEPT ![w] = "high"]
  /\ hand' = [hand EXCEPT ![w] = NoRef]
  /\ blocked' = RemoveFirst(blocked, w)
  /\ arrived' = RemoveFirst(arrived, hand[w])
  /\ UNCHANGED <<lists, delayed, moving, again, passed>>

AckJob(w) == at[w] = "working" /\ LetGo(w) /\ UNCHANGED orphans

\* What the worker has stored stays in queue:processing.
Crash(w) ==
  /\ LetGo(w)
  /\ orphans' = orphans \cup (IF at[w] = "working" THEN {hand[w]} ELSE {})

RequeueRemoves(r) ==
  /\ r \in orphans \cap Free
  /\ moving = NoRef
  /\ moving' = r
  /\ orphans' = orphans \ {r}
  /\ UNCHANGED <<lists, delayed, at, hand, blocked, arrived, again, passed>>

\* Mutant: LPUSH, behind all that waits.
WrongRequeuePushes ==
  /\ moving # NoRef
  /\ Arrive("default", <<moving>> \o lists["default"])
  /\ arrived' = Append(arrived, moving)
  /\ again' = again \cup {moving}
  /\ moving' = NoRef
  /\ UNCHANGED <<delayed, orphans, passed>>

\* RPUSH: a requeued job is the next of its list.
RequeuePushes ==
  /\ moving # NoRef
  /\ Arrive("default", Append(lists["default"], moving))
  /\ arrived' = Append(arrived, moving)
  /\ again' = again \cup {moving}
  /\ moving' = NoRef
  /\ UNCHANGED <<delayed, orphans, passed>>

-----------------------------------------------------------------------------
WorkerStep(w) == \/ Reserve(w) \/ LookOn(w) \/ PopFirst(w) \/ Block(w)
                 \/ Timeout(w) \/ StoreReserved(w) \/ AckJob(w)

Next ==
  \/ \E w \in Workers : WorkerStep(w) \/ Crash(w)
  \/ \E r \in Refs : \/ Delay(r) \/ RequeueRemoves(r)
                     \/ \E t \in Tiers : Enqueue(r, t) \/ Cancel(r, t)
  \/ Promote \/ RequeuePushes

\* Redis answers, handlers return, and a crashed worker is restarted.  The
\* traffic on the lists is not bounded.
Fairness == \A w \in Workers : WF_vars(WorkerStep(w))

Spec == Init /\ [][Next]_vars /\ Fairness

-----------------------------------------------------------------------------
\* A worker whose scan has passed a list takes at most one reference from a
\* list below while another waits there: the inversion that the scan
\* allows is bounded by one job per worker, however many are pushed.
OvertakenOnce ==
  [][\A w \in Workers, t \in Tiers :
       Reserve(w) /\ at[w] = t => passed \cap Overtaken(w, t) = {}]_vars

\* A job that a worker is given, by a pop or while it waits in BRPOP, is
\* the oldest of its list, and none that was requeued is left behind it.
TierIsFifo ==
  [][\A w \in Workers, t \in Tiers :
       LET r == hand'[w] IN
         /\ r # hand[w] /\ r # NoRef /\ r \notin again'
         /\ \A u \in Tiers \ {t} : r \notin Waiting(u)
         => \A s \in ToSet(lists'[t]) :
              s \notin again' /\ SelectInSeq(arrived', LAMBDA x : x = r)
                                   < SelectInSeq(arrived', LAMBDA x : x = s)]_vars

\* No worker sleeps in BRPOP while a reference waits on any list.
NoSleepWhileWaiting == blocked # <<>> => \A t \in Tiers : lists[t] = <<>>

\* A reference on queue:high is taken, whatever goes on arriving on any list
\* and whoever crashes.  (Nothing of the kind holds for the lists below.)
HighServed ==
  \A r \in Refs : r \in Waiting("high") ~> r \notin Waiting("high")
=============================================================================
