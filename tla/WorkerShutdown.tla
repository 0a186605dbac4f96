--------------------------- MODULE WorkerShutdown ---------------------------
(***************************************************************************)
(* How a worker process ends (worker/worker.py, worker/heartbeat.py): its  *)
(* three asyncio tasks (the job loop, the heartbeat loop and the           *)
(* subscriber of its kill channel), the two ways to tell it to stop, a     *)
(* signal and POST /dev/kill-worker, and its row in the table workers.     *)
(* WorkerProcess takes all of this as one step, StopWorker; here every     *)
(* await of the shutdown is a step.                                        *)
(***************************************************************************)
EXTENDS Naturals

CONSTANTS
  Workers, NoWorker,
  ChaosRequests,  \* requests POST /dev/kill-worker
  DbFails         \* TRUE: the statements of the heartbeat may raise

ASSUME ShutdownAssumption == NoWorker \notin Workers /\ DbFails \in BOOLEAN

VARIABLES
  loop,      \* where the job loop of start() is
  running,   \* self.running
  beat,      \* the heartbeat task
  sub,       \* the task of _kill_subscriber
  inbox,     \* a kill message waits in the subscriber's socket
  registry,  \* the table workers; LATE is ALIVE with an old heartbeat
  unmarked,  \* bookkeeping: workers whose mark_worker_dead raised
  victim     \* what a chaos request selected, "done" after the publish

vars == <<loop, running, beat, sub, inbox, registry, unmarked, victim>>
tasks == <<loop, running, beat, sub>>

Left == {"exited", "aborted", "crashed"}
Up(w) == loop[w] \notin Left \cup {"off"}

Init ==
  /\ loop = [w \in Workers |-> "off"]
  /\ running = [w \in Workers |-> FALSE]
  /\ beat = [w \in Workers |-> "none"]
  /\ sub = [w \in Workers |-> "none"]
  /\ inbox = [w \in Workers |-> FALSE]
  /\ registry = [w \in Workers |-> "ABSENT"]
  /\ unmarked = {}
  /\ victim = [r \in ChaosRequests |-> NoWorker]

Goto(w, from, to) == loop[w] = from /\ loop' = [loop EXCEPT ![w] = to]
Subscriber(w, from, to) == sub[w] \in from /\ sub' = [sub EXCEPT ![w] = to]

\* The UPSERT makes any row ALIVE again; a statement may fail instead.
Upsert(w) == \/ registry' = [registry EXCEPT ![w] = "ALIVE"]
             \/ DbFails /\ UNCHANGED registry

\* Mutant: self.running is cleared, but nobody cancels the task.
WrongEndHeartbeat(w) == UNCHANGED <<beat, registry>>

\* The task is cancelled and awaited; an UPSERT that is under way may
\* still be committed, but not later than that.
EndHeartbeat(w) ==
  /\ beat' = [beat EXCEPT ![w] = "none"]
  /\ \/ UNCHANGED registry
     \/ beat[w] = "upserting" /\ Upsert(w)

-----------------------------------------------------------------------------
(* The job loop.                                                           *)

StartUp(w) ==
  /\ Goto(w, "off", "top")
  /\ running' = [running EXCEPT ![w] = TRUE]
  /\ Upsert(w)
  /\ beat' = [beat EXCEPT ![w] = "asleep"]
  /\ sub' = [sub EXCEPT ![w] = "subscribing"]
  /\ UNCHANGED <<inbox, unmarked, victim>>

\* while self.running
Turn(w) ==
  /\ Goto(w, "top", IF running[w] THEN "reserving" ELSE "closing")
  /\ UNCHANGED <<running, beat, sub, inbox, registry, unmarked, victim>>

ReserveJob(w) ==
  /\ Goto(w, "reserving", "job")
  /\ UNCHANGED <<running, beat, sub, inbox, registry, unmarked, victim>>

\* Mutant: BRPOP without a timeout.
WrongReserveNothing(w) == FALSE /\ UNCHANGED vars

\* The BRPOP of one second times out, or a command raises.
ReserveNothing(w) ==
  /\ Goto(w, "reserving", "top")
  /\ UNCHANGED <<running, beat, sub, inbox, registry, unmarked, victim>>

FinishJob(w) ==
  /\ Goto(w, "job", "top")
  /\ UNCHANGED <<running, beat, sub, inbox, registry, unmarked, victim>>

\* await kill_task: a task that ended with an exception raises it here, and
\* shutdown() is not called.
JoinSubscriber(w) ==
  /\ \/ sub[w] = "ended" /\ Goto(w, "closing", "stopping")
     \/ sub[w] = "broken" /\ Goto(w, "closing", "aborting")
  /\ UNCHANGED <<running, beat, sub, inbox, registry, unmarked, victim>>

StopHeartbeat(w) ==
  /\ Goto(w, "stopping", "marking")
  /\ EndHeartbeat(w)
  /\ UNCHANGED <<running, sub, inbox, unmarked, victim>>

MarkDead(w) ==
  /\ Goto(w, "marking", "exited")
  /\ \/ /\ registry' = [registry EXCEPT ![w] = IF @ = "ABSENT" THEN @ ELSE "DEAD"]
        /\ UNCHANGED unmarked
     \/ /\ DbFails
        /\ unmarked' = unmarked \cup {w}
        /\ UNCHANGED registry
  /\ UNCHANGED <<running, beat, sub, inbox, victim>>

\* The exception leaves start(); asyncio.run cancels what is left.
Abort(w) ==
  /\ Goto(w, "aborting", "aborted")
  /\ EndHeartbeat(w)
  /\ UNCHANGED <<running, sub, inbox, unmarked, victim>>

-----------------------------------------------------------------------------
(* The other tasks of the process.                                         *)

BeginBeat(w) ==
  /\ beat[w] = "asleep"
  /\ beat' = [beat EXCEPT ![w] = "upserting"]
  /\ UNCHANGED <<loop, running, sub, inbox, registry, unmarked, victim>>

EndBeat(w) ==
  /\ beat[w] = "upserting"
  /\ beat' = [beat EXCEPT ![w] = "asleep"]
  /\ Upsert(w)
  /\ UNCHANGED <<loop, running, sub, inbox, unmarked, victim>>

Subscribe(w) ==
  /\ Subscriber(w, {"subscribing"}, "listening")
  /\ UNCHANGED <<loop, running, beat, inbox, registry, unmarked, victim>>

\* subscribe() or listen() raises a ConnectionError: the task ends with it,
\* and nobody looks at the task before the worker stops.
LoseSubscription(w) ==
  /\ Subscriber(w, {"subscribing", "listening"}, "broken")
  /\ inbox' = [inbox EXCEPT ![w] = FALSE]
  /\ UNCHANGED <<loop, running, beat, registry, unmarked, victim>>

ReceiveKill(w) ==
  /\ inbox[w]
  /\ Subscriber(w, {"listening"}, "ended")
  /\ running' = [running EXCEPT ![w] = FALSE]
  /\ inbox' = [inbox EXCEPT ![w] = FALSE]
  /\ UNCHANGED <<loop, beat, registry, unmarked, victim>>

CancelSubscriber(w) ==
  /\ loop[w] = "closing"
  /\ Subscriber(w, {"subscribing", "listening"}, "ended")
  /\ inbox' = [inbox EXCEPT ![w] = FALSE]
  /\ UNCHANGED <<loop, running, beat, registry, unmarked, victim>>

-----------------------------------------------------------------------------
(* What happens to the process from outside.                               *)

Signal(w) ==
  /\ Up(w)
  /\ running[w]
  /\ running' = [running EXCEPT ![w] = FALSE]
  /\ UNCHANGED <<loop, beat, sub, inbox, registry, unmarked, victim>>

Crash(w) ==
  /\ Up(w)
  /\ loop' = [loop EXCEPT ![w] = "crashed"]
  /\ beat' = [beat EXCEPT ![w] = "none"]
  /\ sub' = [sub EXCEPT ![w] = "ended"]
  /\ inbox' = [inbox EXCEPT ![w] = FALSE]
  /\ UNCHANGED <<running, registry, unmarked, victim>>

HeartbeatTurnsLate(w) ==
  /\ registry[w] = "ALIVE"
  /\ registry' = [registry EXCEPT ![w] = "LATE"]
  /\ UNCHANGED <<tasks, inbox, unmarked, victim>>

\* Mutant: the comparison the other way round.
WrongExpireWorkers ==
  /\ \E w \in Workers : registry[w] = "ALIVE"
  /\ registry' = [w \in Workers |-> IF registry[w] = "ALIVE" THEN "DEAD" ELSE registry[w]]
  /\ UNCHANGED <<tasks, inbox, unmarked, victim>>

ExpireWorkers ==
  /\ \E w \in Workers : registry[w] = "LATE"
  /\ registry' = [w \in Workers |-> IF registry[w] = "LATE" THEN "DEAD" ELSE registry[w]]
  /\ UNCHANGED <<tasks, inbox, unmarked, victim>>

SelectVictim(r, w) ==
  /\ victim[r] = NoWorker
  /\ registry[w] \in {"ALIVE", "LATE"}
  /\ victim' = [victim EXCEPT ![r] = w]
  /\ UNCHANGED <<tasks, inbox, registry, unmarked>>

\* PUBLISH reaches whoever listens at that moment.
PublishKill(r) ==
  /\ victim[r] \in Workers
  /\ inbox' = [inbox EXCEPT ![victim[r]] = @ \/ sub[victim[r]] = "listening"]
  /\ victim' = [victim EXCEPT ![r] = "done"]
  /\ UNCHANGED <<tasks, registry, unmarked>>

-----------------------------------------------------------------------------
LoopStep(w) == \/ Turn(w) \/ ReserveNothing(w) \/ FinishJob(w) \/ JoinSubscriber(w)
               \/ StopHeartbeat(w) \/ MarkDead(w) \/ Abort(w)
TaskStep(w) == Subscribe(w) \/ ReceiveKill(w) \/ CancelSubscriber(w)
BeatStep(w) == BeginBeat(w) \/ EndBeat(w)

Next ==
  \/ \E w \in Workers : \/ StartUp(w) \/ LoopStep(w) \/ ReserveJob(w) \/ TaskStep(w)
                        \/ BeatStep(w) \/ LoseSubscription(w) \/ Signal(w)
                        \/ Crash(w) \/ HeartbeatTurnsLate(w)
                        \/ \E r \in ChaosRequests : SelectVictim(r, w)
  \/ ExpireWorkers
  \/ \E r \in ChaosRequests : PublishKill(r)

\* The tasks of a live process get their turns, jobs end, clocks advance,
\* and the scheduler runs its reaper pass.
Fairness ==
  /\ \A w \in Workers : /\ WF_vars(LoopStep(w)) /\ WF_vars(TaskStep(w))
                        /\ WF_vars(HeartbeatTurnsLate(w))
  /\ WF_vars(ExpireWorkers)

Spec == Init /\ [][Next]_vars /\ Fairness

-----------------------------------------------------------------------------
\* A worker that went through its shutdown is DEAD in the registry and
\* stays so, whatever its heartbeat task was doing; unless the last
\* statement itself failed.
ExitedIsDead ==
  \A w \in Workers : loop[w] = "exited" /\ w \notin unmarked =>
                       registry[w] \in {"DEAD", "ABSENT"}

\* A kill message that was delivered ends the worker, however many jobs there
\* are, or none, unless the connection breaks before the subscriber reads it.
KillIsHeeded ==
  \A w \in Workers : inbox[w] ~> loop[w] \in Left \/ sub[w] = "broken"

\* A worker that is gone, by a shutdown, by the exception of its subscriber or by
\* a crash, becomes DEAD in the registry for good.
GoneIsNoticed ==
  \A w \in Workers : loop[w] \in Left ~> [](registry[w] \in {"DEAD", "ABSENT"})
=============================================================================
