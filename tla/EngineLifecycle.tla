--------------------------- MODULE EngineLifecycle ---------------------------
(***************************************************************************)
(* The end of the process: main in cmd/api/main.go, WorkerEngine.Stop,     *)
(* WorkerPool.Stop, and the two wait groups they wait on.                  *)
(*                                                                         *)
(* The state starts where WorkerEngine.Start has returned.  Start adds     *)
(* each worker to the pool's wait group, and the retry manager and the     *)
(* metrics clean-up to the engine's; but Worker.Run signs off at the       *)
(* engine's.  The retry manager and the clean-up stop only with the        *)
(* context that main cancels when it returns, so they never sign off       *)
(* before; the engine's group starts with them and keeps them.             *)
(***************************************************************************)
EXTENDS Integers, FiniteSets

CONSTANT Workers

WorkersAssumption == IsFiniteSet(Workers)

\* The pool's own goroutines, which sign off at the pool's group.
Monitors == {"scaling", "health", "dispatcher", "metrics"}

VARIABLES
    main,        \* where main is
    worker,      \* worker[w]: where Worker.Run is
    stopCh,      \* stopCh[w]: whether w has been told to stop
    monitor,     \* monitor[m]: whether goroutine m of the pool runs
    poolStopCh,  \* whether the pool's stopCh is closed
    stopper,     \* where the goroutine of WorkerPool.Stop is
    engineWg,    \* counter of engine.wg
    poolWg       \* counter of pool.wg

vars == <<main, worker, stopCh, monitor, poolStopCh, stopper, engineWg, poolWg>>

\* Mutant: nobody is added to the engine's wait group.
Added_Nobody == 0

\* WorkerEngine.Start: the retry manager and the metrics clean-up.
Added == 2

\* WorkerPool.Start and createWorker.
PoolAdded == Cardinality(Workers) + Cardinality(Monitors)

Init ==
    /\ main = "serving"
    /\ worker = [w \in Workers |-> "select"]
    /\ stopCh = [w \in Workers |-> FALSE]
    /\ monitor = [m \in Monitors |-> TRUE]
    /\ poolStopCh = FALSE
    /\ stopper = "none"
    /\ engineWg = Added
    /\ poolWg = PoolAdded

\* The process is up until main returns or a goroutine panics; the runtime
\* panics when the counter of a wait group goes below zero.
Panicked == engineWg < 0 \/ poolWg < 0
Up == main # "exited" /\ ~Panicked

-----------------------------------------------------------------------------
(* Worker.Run.                                                             *)

TakeTask(w) ==
    /\ Up /\ worker[w] = "select"
    /\ worker' = [worker EXCEPT ![w] = "busy"]
    /\ UNCHANGED <<main, stopCh, monitor, poolStopCh, stopper, engineWg, poolWg>>

FinishTask(w) ==
    /\ Up /\ worker[w] = "busy"
    /\ worker' = [worker EXCEPT ![w] = "select"]
    /\ UNCHANGED <<main, stopCh, monitor, poolStopCh, stopper, engineWg, poolWg>>

\* Mutant: signs off where it was added.
WorkerExit_PoolDone(w) ==
    /\ Up /\ worker[w] = "select" /\ stopCh[w]
    /\ worker' = [worker EXCEPT ![w] = "exited"]
    /\ poolWg' = poolWg - 1
    /\ UNCHANGED <<main, stopCh, monitor, poolStopCh, stopper, engineWg>>

WorkerExit(w) ==
    /\ Up /\ worker[w] = "select" /\ stopCh[w]
    /\ worker' = [worker EXCEPT ![w] = "exited"]
    /\ engineWg' = engineWg - 1
    /\ UNCHANGED <<main, stopCh, monitor, poolStopCh, stopper, poolWg>>

MonitorExit(m) ==
    /\ Up /\ monitor[m] /\ poolStopCh
    /\ monitor' = [monitor EXCEPT ![m] = FALSE]
    /\ poolWg' = poolWg - 1
    /\ UNCHANGED <<main, worker, stopCh, poolStopCh, stopper, engineWg>>

-----------------------------------------------------------------------------
(* main, from the signal on, and the goroutine of WorkerPool.Stop.         *)

\* The signal; WorkerEngine.Stop up to the select in WorkerPool.Stop.
Signal ==
    /\ Up /\ main = "serving"
    /\ main' = "stopping pool"
    /\ poolStopCh' = TRUE
    /\ stopper' = "stopping workers"
    /\ UNCHANGED <<worker, stopCh, monitor, engineWg, poolWg>>

StopWorkers ==
    /\ Up /\ stopper = "stopping workers"
    /\ stopCh' = [w \in Workers |-> TRUE]
    /\ stopper' = "waiting"
    /\ UNCHANGED <<main, worker, monitor, poolStopCh, engineWg, poolWg>>

\* The stopper's pool.wg.Wait() has returned, or 30 seconds are over.
PoolStopped ==
    /\ Up /\ main = "stopping pool"
    /\ main' = "waiting"
    /\ UNCHANGED <<worker, stopCh, monitor, poolStopCh, stopper, engineWg, poolWg>>

\* e.wg.Wait() returns; main shuts the HTTP server down, 15 seconds at most.
EngineStopped ==
    /\ Up /\ main = "waiting" /\ engineWg = 0
    /\ main' = "exited"
    /\ UNCHANGED <<worker, stopCh, monitor, poolStopCh, stopper, engineWg, poolWg>>

Next ==
    \/ \E w \in Workers : TakeTask(w) \/ FinishTask(w) \/ WorkerExit(w)
    \/ \E m \in Monitors : MonitorExit(m)
    \/ Signal \/ StopWorkers \/ PoolStopped \/ EngineStopped

Spec == Init /\ [][Next]_vars

\* Every goroutine goes on when it can, and a select that finds stopCh closed
\* again and again takes it in the end; a signal need never come.
FairSpec ==
    /\ Spec
    /\ \A w \in Workers : WF_vars(FinishTask(w)) /\ SF_vars(WorkerExit(w))
    /\ \A m \in Monitors : WF_vars(MonitorExit(m))
    /\ WF_vars(StopWorkers) /\ WF_vars(PoolStopped) /\ WF_vars(EngineStopped)

-----------------------------------------------------------------------------
(* Properties.                                                             *)

TypeOK ==
    /\ main \in {"serving", "stopping pool", "waiting", "exited"}
    /\ worker \in [Workers -> {"select", "busy", "exited"}]
    /\ stopCh \in [Workers -> BOOLEAN]
    /\ monitor \in [Monitors -> BOOLEAN]
    /\ poolStopCh \in BOOLEAN
    /\ stopper \in {"none", "stopping workers", "waiting"}
    /\ engineWg \in Int
    /\ poolWg \in Nat

\* main does not return while a worker is in the middle of a task.
NoTaskCutOff == main = "exited" => \A w \in Workers : worker[w] # "busy"

\* "Server exited gracefully": a signal ends in main's return.
GracefulExit == main = "stopping pool" ~> main = "exited"
=============================================================================
