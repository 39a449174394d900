------------------------------ MODULE PoolLocks ------------------------------
(***************************************************************************)
(* The two locks of the worker pool (internal/worker/pool.go): workers     *)
(* (workersMutex) and health (healthChecker.mutex), and what each function *)
(* of the pool does with them, in order.  A goroutine runs one function    *)
(* after another; the functions are sequences of lock operations.          *)
(*                                                                         *)
(* Both locks are sync.RWMutex.  A writer first announces itself, which    *)
(* turns later readers away, then waits for the readers inside to leave;   *)
(* when it unlocks, the readers it turned away go in first.  The lock of   *)
(* a single worker is left out: it is always innermost.  So is             *)
(* scalingMutex, which only the monitor takes.                             *)
(***************************************************************************)
EXTENDS Naturals, Sequences, FiniteSets

CONSTANTS
    Threads,      \* goroutines, see Calls
    NoThread

Locks == {"workers", "health"}

\* One operation on a lock; "go" starts the goroutine that deletes a worker.
Op(what, lock) == [what |-> what, lock |-> lock]

RLock(l) == Op("RLock", l)
RUnlock(l) == Op("RUnlock", l)
Lock(l) == Op("Lock", l)
Unlock(l) == Op("Unlock", l)
GoDelete == Op("go", "workers")

-----------------------------------------------------------------------------
(* The functions of the pool.                                              *)

\* GetWorkerCount and calculateAverageLoad.
Count == <<RLock("workers"), RUnlock("workers")>>

\* Mutant: the workers are counted under the lock, as GetStats does.
dispatchToOptimalWorker_Counts == <<RLock("workers")>> \o Count \o <<RUnlock("workers")>>

dispatchToOptimalWorker == <<RLock("workers"), RUnlock("workers")>>

updateMetrics == <<RLock("workers"), RUnlock("workers")>>

performHealthCheck ==
    <<Lock("health"), RLock("workers"), RUnlock("workers"), Unlock("health")>>

\* The load and the count are read first; scaleUp and scaleDown count again.
evaluateLoad == Count \o Count

\* recordScalingEvent, which reads the average load, follows the unlock.
createWorker == <<Lock("workers"), Unlock("workers")>> \o Count

\* Mutant: the record of the event is written after the lock is given back.
removeWorker_Unnested == <<Lock("workers"), GoDelete, Unlock("workers")>> \o Count

\* recordScalingEvent is called before the deferred unlock.
removeWorker == <<Lock("workers"), GoDelete>> \o Count \o <<Unlock("workers")>>

scaleUp == evaluateLoad \o Count \o createWorker
scaleDown == evaluateLoad \o Count \o removeWorker

\* Stop's goroutine.
stopWorkers == <<Lock("workers"), Unlock("workers")>>

\* calculateAverageLoad and GetHealthStatus, under the lock for reading.
GetStats ==
    <<RLock("workers")>> \o Count \o <<RLock("health"), RUnlock("health"), RUnlock("workers")>>

\* The goroutines of the pool, as Start leaves them, that of Stop, the requests for the
\* statistics, which come one at a time, and what each calls.
Calls ==
    [dispatcher |-> {dispatchToOptimalWorker},
     scaling |-> {evaluateLoad, scaleUp, scaleDown},
     health |-> {performHealthCheck},
     metrics |-> {updateMetrics},
     stop |-> {stopWorkers},
     stats |-> {GetStats}]

PoolLocksAssumption == Threads \subseteq DOMAIN Calls /\ NoThread \notin Threads

-----------------------------------------------------------------------------
VARIABLES
    todo,         \* todo[t]: what is left of the function t runs
    readers,      \* readers[l]: how often each goroutine has l for reading
    announced,    \* announced[l]: the writer inside l, or waiting to go in
    inside,       \* inside[l]: whether that writer is in
    turnedAway,   \* turnedAway[l]: readers that came after it
    deleting      \* whether the goroutine that deletes a worker is pending

vars == <<todo, readers, announced, inside, turnedAway, deleting>>

Init ==
    /\ todo = [t \in Threads |-> <<>>]
    /\ readers = [l \in Locks |-> [t \in Threads |-> 0]]
    /\ announced = [l \in Locks |-> NoThread]
    /\ inside = [l \in Locks |-> FALSE]
    /\ turnedAway = [l \in Locks |-> {}]
    /\ deleting = FALSE

Call(t) ==
    /\ todo[t] = <<>>
    /\ \E f \in Calls[t] : todo' = [todo EXCEPT ![t] = f]
    /\ UNCHANGED <<readers, announced, inside, turnedAway, deleting>>

At(t, what, l) == todo[t] # <<>> /\ Head(todo[t]) = Op(what, l)

Advance(ts) ==
    todo' = [t \in Threads |-> IF t \in ts THEN Tail(todo[t]) ELSE todo[t]]

StartRead(t, l) ==
    /\ At(t, "RLock", l) /\ t \notin turnedAway[l]
    /\ IF announced[l] = NoThread
       THEN /\ readers' = [readers EXCEPT ![l][t] = @ + 1]
            /\ Advance({t})
            /\ UNCHANGED turnedAway
       ELSE /\ turnedAway' = [turnedAway EXCEPT ![l] = @ \cup {t}]
            /\ UNCHANGED <<readers, todo>>
    /\ UNCHANGED <<announced, inside, deleting>>

EndRead(t, l) ==
    /\ At(t, "RUnlock", l)
    /\ readers' = [readers EXCEPT ![l][t] = @ - 1]
    /\ Advance({t})
    /\ UNCHANGED <<announced, inside, turnedAway, deleting>>

Announce(t, l) ==
    /\ At(t, "Lock", l) /\ announced[l] = NoThread
    /\ announced' = [announced EXCEPT ![l] = t]
    /\ UNCHANGED <<todo, readers, inside, turnedAway, deleting>>

StartWrite(t, l) ==
    /\ At(t, "Lock", l) /\ announced[l] = t
    /\ \A r \in Threads : readers[l][r] = 0
    /\ inside' = [inside EXCEPT ![l] = TRUE]
    /\ Advance({t})
    /\ UNCHANGED <<readers, announced, turnedAway, deleting>>

EndWrite(t, l) ==
    /\ At(t, "Unlock", l)
    /\ announced' = [announced EXCEPT ![l] = NoThread]
    /\ inside' = [inside EXCEPT ![l] = FALSE]
    /\ readers' = [readers EXCEPT ![l] =
                      [r \in Threads |-> IF r \in turnedAway[l] THEN @[r] + 1 ELSE @[r]]]
    /\ Advance({t} \cup turnedAway[l])
    /\ turnedAway' = [turnedAway EXCEPT ![l] = {}]
    /\ UNCHANGED deleting

GoDeleteWorker(t) ==
    /\ At(t, "go", "workers")
    /\ deleting' = TRUE
    /\ Advance({t})
    /\ UNCHANGED <<readers, announced, inside, turnedAway>>

\* Five seconds later, a worker is deleted from the map, under no lock.
Delete ==
    /\ deleting
    /\ deleting' = FALSE
    /\ UNCHANGED <<todo, readers, announced, inside, turnedAway>>

Step(t) ==
    \/ \E l \in Locks :
          \/ StartRead(t, l) \/ EndRead(t, l)
          \/ Announce(t, l) \/ StartWrite(t, l) \/ EndWrite(t, l)
    \/ GoDeleteWorker(t)

Next ==
    \/ \E t \in Threads : Call(t) \/ Step(t)
    \/ Delete

Spec == Init /\ [][Next]_vars

\* The goroutines that ask for a lock for writing.
Writers ==
    {t \in Threads : \E f \in Calls[t] : \E i \in DOMAIN f : f[i].what = "Lock"}

\* Goroutines that can go on do; writers queue for a lock in turn.
FairSpec ==
    /\ Spec
    /\ \A t \in Threads : WF_vars(Step(t))
    /\ \A t \in Writers : SF_vars(\E l \in Locks : Announce(t, l))

-----------------------------------------------------------------------------
(* Properties.                                                             *)

TypeOK ==
    /\ \A t \in Threads : \A i \in DOMAIN todo[t] : todo[t][i].lock \in Locks
    /\ readers \in [Locks -> [Threads -> 0..2]]
    /\ announced \in [Locks -> Threads \cup {NoThread}]
    /\ inside \in [Locks -> BOOLEAN]
    /\ turnedAway \in [Locks -> SUBSET Threads]
    /\ deleting \in BOOLEAN

TurnedAway(t, l) == t \in turnedAway[l]
Has(t, l) == readers[l][t] > 0 \/ (announced[l] = t /\ inside[l])

\* A goroutine waits for a lock that it has itself: removeWorker, which asks to read what it
\* writes (RemoveWorkerReturns), and GetStats, which asks to read what it reads when
\* a writer has asked in between.
SelfBlocked ==
    \E t \in {"scaling", "stats"} \cap Threads, l \in Locks : Has(t, l) /\ TurnedAway(t, l)

\* GetStats has the lock of the workers and waits for that of the health check, which has
\* this one and waits for the other behind a writer.
Crossed ==
    /\ {"stats", "health"} \subseteq Threads
    /\ Has("stats", "workers") /\ TurnedAway("stats", "health")
    /\ Has("health", "health") /\ TurnedAway("health", "workers")

\* Until one of these happens nobody waits for ever for a lock of the pool: whatever is
\* called, and whoever asks for a lock in between, each call returns.
EveryCallReturns ==
    \A t \in Threads : todo[t] # <<>> ~> todo[t] = <<>> \/ SelfBlocked \/ Crossed

\* The map of workers is never written while another goroutine reads it (the Go
\* runtime ends the process when it notices), although the delete takes no lock:
\* the writer that ordered it is still inside.
NoMapRace ==
    [][Delete => \A t \in Threads : readers["workers"][t] = 0]_vars

\* "removeWorker elimina un worker del pool": it does so and returns.
RemoveWorkerReturns ==
    \A t \in Threads : At(t, "go", "workers") ~> todo[t] = <<>>
=============================================================================
