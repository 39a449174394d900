------------------------------- MODULE MCPool -------------------------------
(***************************************************************************)
(* The worker pool for TLC: its tasks and workers (two tasks, one worker   *)
(* at the start and room for more, channels of one place), and its locks.  *)
(* The modules share no variable: `part' says which of them moves, the     *)
(* other stays as it begins.                                               *)
(***************************************************************************)
EXTENDS WorkerPool, TLC

CONSTANTS Threads, NoThread   \* of PoolLocks

VARIABLES part, todo, readers, announced, inside, turnedAway, deleting

Locking == INSTANCE PoolLocks

ASSUME Parameters == PoolAssumption /\ Locking!PoolLocksAssumption

-----------------------------------------------------------------------------
lockVars == <<todo, readers, announced, inside, turnedAway, deleting>>
allVars == <<part, vars, lockVars>>

AllInit == part \in {"pool", "locks"} /\ Init /\ Locking!Init

PoolStep(A) == part = "pool" /\ A /\ UNCHANGED <<part, lockVars>>
LocksStep(A) == part = "locks" /\ A /\ UNCHANGED <<part, vars>>

AllNext == PoolStep(Next) \/ LocksStep(Locking!Next)

\* The fairness of each module, for the part that moves.  As only one ever does, a condition
\* on one part is joined with one on the other, which is the same and costs less.
Announces(t) == LocksStep(\E l \in Locking!Locks : Locking!Announce(t, l))
AllSpec ==
    /\ AllInit /\ [][AllNext]_allVars
    /\ WF_allVars(PoolStep(Dispatcher) \/ LocksStep(Locking!Step("dispatcher")))
    /\ WF_allVars(PoolStep(Grow \/ Shrink) \/ LocksStep(Locking!Step("scaling")))
    /\ WF_allVars(PoolStep(StopWorkers) \/ LocksStep(Locking!Step("stop")))
    /\ \A t \in {"health", "stats"} : WF_allVars(LocksStep(Locking!Step(t)))
    /\ \A w \in Ids : WF_allVars(PoolStep(Worker(w)))
    /\ SF_allVars(PoolStep(Dequeue /\ upcoming' # upcoming) \/ Announces("scaling"))
    /\ SF_allVars(Announces("health")) /\ SF_allVars(Announces("stop"))

-----------------------------------------------------------------------------
(* The properties, of the part that moves.                                 *)

\* A task the queue has answered is run once at most and is in one place, and the
\* engine's load is the number of those that were accepted and not finished.
TasksAccounted == part = "pool" => TypeOK /\ RunOnce /\ LoadExact

\* A task a worker has accepted is processed, unless the worker was told to stop.
AcceptedEnds == part = "pool" => AcceptedIsProcessed

\* The map of workers is never written while another goroutine reads it.
NoMapRace == Locking!NoMapRace

\* Every call of the pool's functions gets its locks, until removeWorker or GetStats blocks
\* itself, or GetStats and the health check each other.
EveryCallReturns == Locking!EveryCallReturns
=============================================================================
