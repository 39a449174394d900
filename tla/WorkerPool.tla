----------------------------- MODULE WorkerPool -----------------------------
(***************************************************************************)
(* The worker pool of internal/worker/pool.go: one dispatcher that takes   *)
(* tasks off the Redis queue and puts each on the channel of the least     *)
(* loaded usable worker, workers that run them, a monitor that scales the  *)
(* pool, and the goroutine by which Stop stops the workers.                *)
(*                                                                         *)
(* A task here is one answer of Dequeue.  The state starts where Start     *)
(* returns: the initial workers are in the map and their goroutines have   *)
(* been created but may not have run yet.                                  *)
(*                                                                         *)
(* workersMutex is a read-write lock.  The dispatcher reads under it from  *)
(* its first look at a worker to the end of the dispatch; the monitor and  *)
(* Stop write under it.  Readers that hold it for a moment are covered by  *)
(* the guard that nobody writes (module PoolLocks has the lock itself).    *)
(***************************************************************************)
EXTENDS Integers, Sequences, FiniteSetsExt

CONSTANTS
    Tasks,        \* tasks the queue will hand out
    NoTask,
    MinWorkers,   \* minWorkers: workers created by Start
    MaxWorkers,   \* maxWorkers
    ChanSize      \* config.TaskChannelSize

PoolAssumption ==
    /\ MinWorkers \in Nat \ {0}
    /\ MaxWorkers \in Nat /\ MinWorkers <= MaxWorkers
    /\ ChanSize \in Nat \ {0}
    /\ NoTask \notin Tasks

\* Ids are handed out upwards by getNextWorkerID.
Ids == 0..(MaxWorkers - 1)
NoWorker == -1

VARIABLES
    upcoming,     \* tasks Dequeue has not answered yet
    members,      \* workers: the ids in the map
    run,          \* run[w]: where Worker.Run of w is
    active,       \* isActive
    healthy,      \* isHealthy
    stopped,      \* whether the worker's stopCh is closed
    tasksCh,      \* tasksCh[w]: its buffered channel
    running,      \* running[w]: the task w is processing
    currentLoad,  \* engine.currentLoad
    disp,         \* where the dispatcher is
    offered,      \* the task the dispatcher holds
    seen, best, lowest,  \* its scan: workers seen, bestWorker, lowestLoad
    scaler,       \* where the scaling monitor is
    stopping,     \* whether the pool's stopCh is closed
    stopper,      \* where Stop's goroutine is
    dropped,      \* tasks given up by a dispatch that returned false
    done          \* tasks processed, whatever the outcome

workerVars == <<members, run, active, healthy, stopped, running>>
scanVars == <<offered, seen, best, lowest>>
stopVars == <<stopping, stopper>>
vars == <<upcoming, workerVars, tasksCh, currentLoad, disp, scanVars, scaler,
          stopVars, dropped, done>>

\* The dispatcher holds a read lock while it scans, sends and counts.
Reading == disp \in {"scan", "count"}

\* removeWorker takes the write lock and, before it returns, asks for a read
\* lock (recordScalingEvent, calculateAverageLoad): it is never given back.
Frozen == scaler = "stuck"

Queued == MapThenSumSet(LAMBDA w : Len(tasksCh[w]), members)

Init ==
    /\ upcoming = Tasks
    /\ members = 0..(MinWorkers - 1)
    /\ run = [w \in Ids |-> IF w < MinWorkers THEN "new" ELSE "none"]
    /\ active = [w \in Ids |-> FALSE]
    /\ healthy = [w \in Ids |-> TRUE]
    /\ stopped = [w \in Ids |-> FALSE]
    /\ tasksCh = [w \in Ids |-> <<>>]
    /\ running = [w \in Ids |-> NoTask]
    /\ currentLoad = 0
    /\ disp = "head"
    /\ offered = NoTask /\ seen = {} /\ best = NoWorker /\ lowest = ChanSize + 1
    /\ scaler = "tick"
    /\ stopping = FALSE /\ stopper = "idle"
    /\ dropped = {} /\ done = {}

-----------------------------------------------------------------------------
(* enhancedTaskDispatcher and dispatchToOptimalWorker.                     *)

\* The select at the head of the loop: stopCh, when closed, wins over default.
DispatcherHead ==
    /\ disp = "head"
    /\ disp' = IF stopping THEN "exited" ELSE "dequeue"
    /\ UNCHANGED <<upcoming, workerVars, tasksCh, currentLoad, scanVars, scaler,
                   stopVars, dropped, done>>

\* Dequeue answers with a task, or with an error (an empty queue is one).
Dequeue ==
    /\ disp = "dequeue"
    /\ \/ \E t \in upcoming :
             /\ upcoming' = upcoming \ {t}
             /\ offered' = t
             /\ disp' = "lock"
       \/ disp' = "head" /\ UNCHANGED <<upcoming, offered>>
    /\ UNCHANGED <<workerVars, tasksCh, currentLoad, seen, best, lowest, scaler,
                   stopVars, dropped, done>>

StartScan ==
    /\ disp = "lock"
    /\ ~Frozen
    /\ disp' = "scan"
    /\ seen' = {} /\ best' = NoWorker /\ lowest' = ChanSize + 1
    /\ UNCHANGED <<upcoming, workerVars, tasksCh, currentLoad, offered, scaler,
                   stopVars, dropped, done>>

\* Mutant: the health of the worker is not looked at.
Usable_AnyHealth(w) == active[w]

Usable(w) == active[w] /\ healthy[w]

\* One worker is read, under its own mutex; the map's order is arbitrary.
Look(w) ==
    /\ disp = "scan"
    /\ w \in members \ seen
    /\ seen' = seen \cup {w}
    /\ IF Usable(w) /\ Len(tasksCh[w]) < lowest
       THEN best' = w /\ lowest' = Len(tasksCh[w])
       ELSE UNCHANGED <<best, lowest>>
    /\ UNCHANGED <<upcoming, workerVars, tasksCh, currentLoad, disp, offered,
                   scaler, stopVars, dropped, done>>

Drop ==
    /\ disp' = "head"
    /\ dropped' = dropped \cup {offered}
    /\ offered' = NoTask

NobodyUsable ==
    /\ disp = "scan" /\ seen = members /\ best = NoWorker
    /\ Drop
    /\ UNCHANGED <<upcoming, workerVars, tasksCh, currentLoad, seen, best, lowest,
                   scaler, stopVars, done>>

\* The non-blocking send to the chosen worker, whatever became of it since it
\* was looked at.
Send ==
    /\ disp = "scan" /\ seen = members /\ best # NoWorker
    /\ IF Len(tasksCh[best]) < ChanSize
       THEN /\ tasksCh' = [tasksCh EXCEPT ![best] = Append(@, offered)]
            /\ disp' = "count"
            /\ offered' = NoTask
            /\ UNCHANGED dropped
       ELSE Drop /\ UNCHANGED tasksCh
    /\ UNCHANGED <<upcoming, workerVars, currentLoad, seen, best, lowest, scaler,
                   stopVars, done>>

\* The atomic add follows the send: the worker may already be done.
CountLoad ==
    /\ disp = "count"
    /\ currentLoad' = currentLoad + 1
    /\ disp' = "head"
    /\ UNCHANGED <<upcoming, workerVars, tasksCh, scanVars, scaler, stopVars,
                   dropped, done>>

Dispatcher ==
    \/ DispatcherHead \/ Dequeue \/ StartScan
    \/ \E w \in Ids : Look(w)
    \/ NobodyUsable \/ Send \/ CountLoad

-----------------------------------------------------------------------------
(* Worker.Run and processTaskEnhanced.                                     *)

\* Run sets isActive, even if Stop has already reset it.
StartRun(w) ==
    /\ run[w] = "new"
    /\ run' = [run EXCEPT ![w] = "select"]
    /\ active' = [active EXCEPT ![w] = TRUE]
    /\ UNCHANGED <<upcoming, members, healthy, stopped, tasksCh, running,
                   currentLoad, disp, scanVars, scaler, stopVars, dropped, done>>

TakeTask(w) ==
    /\ run[w] = "select" /\ tasksCh[w] # <<>>
    /\ run' = [run EXCEPT ![w] = "busy"]
    /\ running' = [running EXCEPT ![w] = Head(tasksCh[w])]
    /\ tasksCh' = [tasksCh EXCEPT ![w] = Tail(@)]
    /\ UNCHANGED <<upcoming, members, active, healthy, stopped, currentLoad, disp,
                   scanVars, scaler, stopVars, dropped, done>>

\* processTask has returned, with or without an error.
Judge(w) ==
    /\ run[w] = "busy"
    /\ \E ok \in BOOLEAN : healthy' = [healthy EXCEPT ![w] = ok]
    /\ run' = [run EXCEPT ![w] = "judged"]
    /\ UNCHANGED <<upcoming, members, active, stopped, tasksCh, running,
                   currentLoad, disp, scanVars, scaler, stopVars, dropped, done>>

\* Mutant: the load is given back only when the task succeeded.
Finish_OnlySuccess(w) ==
    /\ run[w] = "judged"
    /\ run' = [run EXCEPT ![w] = "select"]
    /\ running' = [running EXCEPT ![w] = NoTask]
    /\ done' = done \cup {running[w]}
    /\ currentLoad' = IF healthy[w] THEN currentLoad - 1 ELSE currentLoad
    /\ UNCHANGED <<upcoming, members, active, healthy, stopped, tasksCh, disp,
                   scanVars, scaler, stopVars, dropped>>

\* The deferred function.
Finish(w) ==
    /\ run[w] = "judged"
    /\ run' = [run EXCEPT ![w] = "select"]
    /\ running' = [running EXCEPT ![w] = NoTask]
    /\ done' = done \cup {running[w]}
    /\ currentLoad' = currentLoad - 1
    /\ UNCHANGED <<upcoming, members, active, healthy, stopped, tasksCh, disp,
                   scanVars, scaler, stopVars, dropped>>

\* Mutant: the idle timeout ends the worker instead of being logged.
ExitRun_Idle(w) ==
    /\ run[w] = "select" /\ (stopped[w] \/ tasksCh[w] = <<>>)
    /\ run' = [run EXCEPT ![w] = "exited"]
    /\ UNCHANGED <<upcoming, members, active, healthy, stopped, tasksCh, running,
                   currentLoad, disp, scanVars, scaler, stopVars, dropped, done>>

\* When both are ready, the select picks stopCh or the channel at random.
ExitRun(w) ==
    /\ run[w] = "select" /\ stopped[w]
    /\ run' = [run EXCEPT ![w] = "exited"]
    /\ UNCHANGED <<upcoming, members, active, healthy, stopped, tasksCh, running,
                   currentLoad, disp, scanVars, scaler, stopVars, dropped, done>>

Worker(w) == StartRun(w) \/ TakeTask(w) \/ Judge(w) \/ Finish(w) \/ ExitRun(w)

-----------------------------------------------------------------------------
(* scalingMonitor: evaluateAndScale, scaleUp, scaleDown.  Time since the   *)
(* last scaling is not modelled: a tick may come at any moment.  The       *)
(* emergency branch is left out, because getQueueLength asks Redis for the *)
(* length of a list "workflow_queue" that nothing pushes to, and gets 0.   *)

Overloaded == 10 * Queued > 8 * Cardinality(members)
Underloaded == 10 * Queued < 3 * Cardinality(members)

\* Tested when the monitor decides to grow, and again by scaleUp.
HasRoom == Cardinality(members) < MaxWorkers

\* evaluateAndScale, up to its decision.
Evaluate ==
    /\ scaler = "tick"
    /\ \/ /\ Overloaded /\ HasRoom
          /\ scaler' = "grow"
       \/ /\ Underloaded /\ Cardinality(members) > MinWorkers
          /\ scaler' = "shrink"
    /\ UNCHANGED <<upcoming, workerVars, tasksCh, currentLoad, disp, scanVars,
                   stopVars, dropped, done>>

\* scaleUp: createWorker, under the write lock.
Grow ==
    /\ scaler = "grow"
    /\ ~Reading
    /\ HasRoom
    /\ LET w == Max(members) + 1
       IN  /\ members' = members \cup {w}
           /\ run' = [run EXCEPT ![w] = "new"]
    /\ scaler' = "tick"
    /\ UNCHANGED <<upcoming, active, healthy, stopped, tasksCh, running,
                   currentLoad, disp, scanVars, stopVars, dropped, done>>

\* Mutant: the write lock is given back.
Shrink_Unlocks ==
    /\ scaler = "shrink"
    /\ ~Reading
    /\ LET w == Min(members)
       IN  /\ active' = [active EXCEPT ![w] = FALSE]
           /\ stopped' = [stopped EXCEPT ![w] = TRUE]
    /\ scaler' = "tick"
    /\ UNCHANGED <<upcoming, members, run, healthy, tasksCh, running, currentLoad,
                   disp, scanVars, stopVars, dropped, done>>

\* removeWorker of the oldest worker: it is stopped at once, its removal from
\* the map is left to a goroutine, and the write lock is kept for ever.
Shrink ==
    /\ scaler = "shrink"
    /\ ~Reading
    /\ LET w == Min(members)
       IN  /\ active' = [active EXCEPT ![w] = FALSE]
           /\ stopped' = [stopped EXCEPT ![w] = TRUE]
    /\ scaler' = "stuck"
    /\ UNCHANGED <<upcoming, members, run, healthy, tasksCh, running, currentLoad,
                   disp, scanVars, stopVars, dropped, done>>

\* The goroutine's delete, five seconds later, under no lock.
DeleteStopped ==
    /\ scaler = "stuck"
    /\ Min(members) < MinWorkers /\ stopped[Min(members)]
    /\ members' = members \ {Min(members)}
    /\ UNCHANGED <<upcoming, run, active, healthy, stopped, tasksCh, running,
                   currentLoad, disp, scanVars, scaler, stopVars, dropped, done>>

ScalerExit ==
    /\ scaler = "tick" /\ stopping
    /\ scaler' = "exited"
    /\ UNCHANGED <<upcoming, workerVars, tasksCh, currentLoad, disp, scanVars,
                   stopVars, dropped, done>>

Scaler == Evaluate \/ Grow \/ Shrink \/ DeleteStopped \/ ScalerExit

-----------------------------------------------------------------------------
(* Stop.                                                                   *)

Stop ==
    /\ ~stopping
    /\ stopping' = TRUE
    /\ stopper' = "lock"
    /\ UNCHANGED <<upcoming, workerVars, tasksCh, currentLoad, disp, scanVars,
                   scaler, dropped, done>>

\* Under the write lock.  Closing a channel twice panics.
StopWorkers ==
    /\ stopper = "lock"
    /\ ~Reading /\ ~Frozen
    /\ active' = [w \in Ids |-> active[w] /\ w \notin members]
    /\ stopped' = [w \in Ids |-> stopped[w] \/ w \in members]
    /\ stopper' = "wait"
    /\ UNCHANGED <<upcoming, members, run, healthy, tasksCh, running, currentLoad,
                   disp, scanVars, scaler, stopping, dropped, done>>

Next ==
    \/ Dispatcher
    \/ \E w \in Ids : Worker(w)
    \/ Scaler
    \/ Stop \/ StopWorkers

Spec == Init /\ [][Next]_vars

\* Every goroutine that can run is scheduled.  The dispatcher keeps getting an
\* answer from the queue, and a task an answer in the end; that the pool is
\* stopped, or a scaling decided, is up to the environment.
FairSpec ==
    /\ Spec
    /\ WF_vars(Dispatcher)
    /\ SF_vars(Dequeue /\ upcoming' # upcoming)
    /\ \A w \in Ids : WF_vars(Worker(w))
    /\ WF_vars(Grow \/ Shrink)
    /\ WF_vars(StopWorkers)

-----------------------------------------------------------------------------
(* Properties.                                                             *)

TypeOK ==
    /\ upcoming \in SUBSET Tasks
    /\ members \in SUBSET Ids
    /\ run \in [Ids -> {"none", "new", "select", "busy", "judged", "exited"}]
    /\ active \in [Ids -> BOOLEAN]
    /\ healthy \in [Ids -> BOOLEAN]
    /\ stopped \in [Ids -> BOOLEAN]
    /\ tasksCh \in [Ids -> Seq(Tasks)]
    /\ \A w \in Ids : Len(tasksCh[w]) <= ChanSize
    /\ running \in [Ids -> Tasks \cup {NoTask}]
    /\ currentLoad \in Int
    /\ disp \in {"head", "dequeue", "lock", "scan", "count", "exited"}
    /\ offered \in Tasks \cup {NoTask}
    /\ seen \in SUBSET Ids
    /\ best \in Ids \cup {NoWorker}
    /\ lowest \in 0..(ChanSize + 1)
    /\ scaler \in {"tick", "grow", "shrink", "stuck", "exited"}
    /\ stopping \in BOOLEAN
    /\ stopper \in {"idle", "lock", "wait"}
    /\ dropped \in SUBSET Tasks
    /\ done \in SUBSET Tasks

\* The tasks w has accepted and not finished.
Holds(w) == Range(tasksCh[w]) \cup ({running[w]} \ {NoTask})

\* The engine's load counter is the number of accepted, unfinished tasks: the
\* add comes after the send and races with the worker's own subtraction, so it
\* may be one behind (and then even negative), never more, and never for good.
LoadExact ==
    currentLoad + (IF disp = "count" THEN 1 ELSE 0) = Cardinality(UNION {Holds(w) : w \in Ids})

\* A task the queue has answered is in one place: on offer, accepted by one
\* worker, given up, or done.
RunOnce ==
    \A t \in Tasks :
        Cardinality({w \in Ids : t \in Holds(w)})
        + (IF t \in upcoming THEN 1 ELSE 0) + (IF t = offered THEN 1 ELSE 0)
        + (IF t \in dropped THEN 1 ELSE 0) + (IF t \in done THEN 1 ELSE 0) = 1

\* Only a task's success makes a worker healthy again, and an unhealthy worker
\* gets no task: one that has failed its last task is out of use for good.
Quarantined(w) ==
    /\ run[w] \in {"select", "exited"} /\ ~healthy[w] /\ tasksCh[w] = <<>>
    /\ disp = "scan" => best # w

\* When that has happened to every worker of a running pool, the load is 0, so
\* the monitor never adds one: every later task is given up, until a restart.
DeadPool ==
    /\ scaler # "grow"
    /\ \A w \in members : Quarantined(w)

DeadPoolStaysDead ==
    [][DeadPool => DeadPool']_vars

\* Stopping the pool closes no worker's channel a second time.
NoDoubleClose ==
    [][StopWorkers => \A w \in members : ~stopped[w]]_vars

\* An accepted task is processed, unless the worker that holds it is told to stop.
AcceptedIsProcessed ==
    \A t \in Tasks :
        (\E w \in Ids : t \in Holds(w))
            ~> (t \in done \/ \E w \in Ids : t \in Holds(w) /\ stopped[w])
=============================================================================
