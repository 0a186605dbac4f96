--------------------------- MODULE ShutdownProofs ---------------------------
(***************************************************************************)
(* ExitedIsDead for every number of workers and kill requests, whether or  *)
(* not the statements of the heartbeat raise.  The registry cannot tell    *)
(* why a DEAD row stays DEAD: what protects it is that the heartbeat task  *)
(* is over before mark_worker_dead is called.                              *)
(***************************************************************************)
EXTENDS WorkerShutdown, TLAPS

Shapes ==
  /\ loop = [w \in Workers |-> loop[w]]
  /\ beat = [w \in Workers |-> beat[w]]
  /\ registry = [w \in Workers |-> registry[w]]

\* The heartbeat does not outlive StopHeartbeat, nor does it come back.
BeatIsOver ==
  \A w \in Workers : loop[w] \in {"off", "marking", "exited"} => beat[w] = "none"

ShutdownInv == Shapes /\ BeatIsOver /\ ExitedIsDead

LEMMA ShutdownInit == Init => ShutdownInv
BY DEF Init, ShutdownInv, Shapes, BeatIsOver, ExitedIsDead

\* A step that touches the tasks and the row of one worker only.
LEMMA OneWorker ==
  ASSUME ShutdownInv, NEW w \in Workers,
         Shapes', unmarked \subseteq unmarked',
         \A v \in Workers \ {w} : loop'[v] = loop[v] /\ beat'[v] = beat[v],
         \A v \in Workers \ {w} :
           registry[v] \in {"DEAD", "ABSENT"} => registry'[v] \in {"DEAD", "ABSENT"},
         loop'[w] \in {"off", "marking", "exited"} => beat'[w] = "none",
         loop'[w] = "exited" /\ w \notin unmarked' => registry'[w] \in {"DEAD", "ABSENT"}
  PROVE  ShutdownInv'
BY DEF ShutdownInv, BeatIsOver, ExitedIsDead

LEMMA ShutdownStep == ShutdownInv /\ [Next]_vars => ShutdownInv'
<1> SUFFICES ASSUME ShutdownInv, [Next]_vars
             PROVE  ShutdownInv'
  OBVIOUS
<1>1. ASSUME NEW w \in Workers,
             \/ StartUp(w) \/ LoopStep(w) \/ ReserveJob(w) \/ TaskStep(w)
             \/ BeatStep(w) \/ LoseSubscription(w) \/ Signal(w)
             \/ Crash(w) \/ HeartbeatTurnsLate(w)
      PROVE  ShutdownInv'
  <2> USE DEF Goto, Shapes, tasks
  <2>1. CASE StartUp(w)
    BY <2>1, OneWorker DEF StartUp, Upsert, ShutdownInv
  <2>2. CASE Turn(w) \/ ReserveJob(w) \/ ReserveNothing(w) \/ FinishJob(w)
               \/ JoinSubscriber(w)
    BY <2>2, OneWorker DEF Turn, ReserveJob, ReserveNothing, FinishJob,
       JoinSubscriber, ShutdownInv, BeatIsOver
  <2>3. CASE StopHeartbeat(w) \/ Abort(w)
    BY <2>3, OneWorker DEF StopHeartbeat, Abort, EndHeartbeat, Upsert, ShutdownInv
  <2>4. CASE MarkDead(w)
    BY <2>4, OneWorker DEF MarkDead, ShutdownInv, BeatIsOver
  <2>5. CASE TaskStep(w) \/ LoseSubscription(w) \/ Signal(w)
    BY <2>5 DEF TaskStep, Subscribe, Subscriber, ReceiveKill, CancelSubscriber,
       LoseSubscription, Signal, ShutdownInv, BeatIsOver, ExitedIsDead
  <2>6. CASE BeatStep(w)
    BY <2>6, OneWorker DEF BeatStep, BeginBeat, EndBeat, Upsert, ShutdownInv,
       BeatIsOver, ExitedIsDead
  <2>7. CASE Crash(w)
    BY <2>7, OneWorker DEF Crash, ShutdownInv
  <2>8. CASE HeartbeatTurnsLate(w)
    BY <2>8, OneWorker DEF HeartbeatTurnsLate, ShutdownInv, BeatIsOver, ExitedIsDead
  <2> QED
    BY <1>1, <2>1, <2>2, <2>3, <2>4, <2>5, <2>6, <2>7, <2>8 DEF LoopStep
<1>2. ASSUME \/ ExpireWorkers
             \/ \E r \in ChaosRequests :
                  PublishKill(r) \/ \E w \in Workers : SelectVictim(r, w)
      PROVE  ShutdownInv'
  BY <1>2 DEF ExpireWorkers, PublishKill, SelectVictim, tasks, ShutdownInv, Shapes,
     BeatIsOver, ExitedIsDead
<1>3. CASE UNCHANGED vars
  BY <1>3 DEF vars, tasks, ShutdownInv, Shapes, BeatIsOver, ExitedIsDead
<1> QED
  BY <1>1, <1>2, <1>3 DEF Next

\* A worker that went through its shutdown is DEAD in the registry, whatever
\* its heartbeat task was doing when it was told to stop, unless the last
\* statement failed.
THEOREM ShutdownIsRecorded == Spec => []ExitedIsDead
<1>1. ShutdownInv => ExitedIsDead
  BY DEF ShutdownInv
<1> QED
  BY <1>1, ShutdownInit, ShutdownStep, PTL DEF Spec
=============================================================================
