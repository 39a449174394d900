---------------------------- MODULE WorkflowEngine ----------------------------
(***************************************************************************)
(* The workflow queue with the engine that serves it: the dispatcher and   *)
(* the workers of internal/worker/pool.go, WorkerEngine.processTask, the   *)
(* retry manager's decision, and its clean-up of stale tasks.  The queue   *)
(* is that of WorkflowQueue, with all of its steps.                        *)
(*                                                                         *)
(* A workflow execution travels as a queue item.  A retry is a new item of *)
(* the same execution, which leaves the first one where it is.             *)
(***************************************************************************)
EXTENDS WorkflowQueue

CONSTANTS
    Executions,   \* workflow executions
    NoItem,
    MaxAttempts,  \* RetryPolicy.MaxAttempts
    Workers

ASSUME EngineAssumption ==
    /\ NoItem \notin Items
    /\ MaxAttempts \in Nat \ {0}

VARIABLES
    of,           \* of[i]: the execution item i was enqueued for
    gen,          \* gen[i]: the retries that led to item i
    offered,      \* the item the dispatcher has taken off the queue
    inbox,        \* inbox[w]: the items on the channel of worker w
    task,         \* task[w]: the item w is running
    healthy,      \* isHealthy
    runs,         \* runs[i]: how often item i was run
    succeeded,    \* executions of which one run has succeeded
    again         \* executions run after they had succeeded

enqueuing == <<of, gen>>
working == <<offered, inbox, task, healthy, runs, succeeded, again>>
engineVars == <<enqueuing, working>>
allVars == <<vars, engineVars>>

\* The items in the hands of the engine.
Held == ({offered} \cup {task[w] : w \in Workers}
         \cup UNION {inbox[w] : w \in Workers}) \ {NoItem}

EngineInit ==
    /\ Init
    /\ of = [i \in Items |-> NoItem]
    /\ gen = [i \in Items |-> 0]
    /\ offered = NoItem
    /\ inbox = [w \in Workers |-> {}]
    /\ task = [w \in Workers |-> NoItem]
    /\ healthy = [w \in Workers |-> TRUE]
    /\ runs = [i \in Items |-> 0]
    /\ succeeded = {} /\ again = {}

-----------------------------------------------------------------------------
\* An execution is handed to the queue.
Submit(e, i) ==
    /\ \A j \in Items : of[j] # e
    /\ EnqueueAt(i)
    /\ of' = [of EXCEPT ![i] = e]
    /\ UNCHANGED <<gen, working>>

\* enhancedTaskDispatcher calls Dequeue when it holds no task.
DispatcherDequeues(d) ==
    /\ offered = NoItem
    /\ ReadDue(d) \/ MoveDue(d) \/ MoveFails(d) \/ Pop(d) \/ PopEmpty(d)
    /\ UNCHANGED engineVars

\* Dequeue returns the item it has stored.
DequeueReturns(d) ==
    /\ Store(d)
    /\ \E m \in hand[d] : offered' = m.id
    /\ UNCHANGED <<enqueuing, inbox, task, healthy, runs, succeeded, again>>

\* dispatchToOptimalWorker.  The channel holds ten tasks, more than there are
\* items; which of the least loaded workers is chosen is up to the map's order.
Dispatch(w) ==
    /\ offered # NoItem
    /\ healthy[w]
    /\ \A v \in Workers : healthy[v] => Cardinality(inbox[w]) <= Cardinality(inbox[v])
    /\ inbox' = [inbox EXCEPT ![w] = @ \cup {offered}]
    /\ offered' = NoItem
    /\ UNCHANGED <<vars, enqueuing, task, healthy, runs, succeeded, again>>

\* No worker is usable: the dispatcher goes on with the next task.
GiveUp ==
    /\ offered # NoItem
    /\ \A w \in Workers : ~healthy[w]
    /\ offered' = NoItem
    /\ UNCHANGED <<vars, enqueuing, inbox, task, healthy, runs, succeeded, again>>

\* The worker takes a task and runs the workflow.
Run(w) ==
    /\ task[w] = NoItem
    /\ \E i \in inbox[w] :
          /\ inbox' = [inbox EXCEPT ![w] = @ \ {i}]
          /\ task' = [task EXCEPT ![w] = i]
          /\ runs' = [runs EXCEPT ![i] = @ + 1]
          /\ again' = again \cup ({of[i]} \cap succeeded)
    /\ UNCHANGED <<vars, enqueuing, offered, healthy, succeeded>>

Finish(w, ok) ==
    /\ task' = [task EXCEPT ![w] = NoItem]
    /\ healthy' = [healthy EXCEPT ![w] = ok]

\* The workflow succeeds.  MarkCompleted is then called with the task's id, a
\* new ObjectID that convertQueueItemToTask has made: no member has it, the
\* call returns ErrTaskNotFound, and the worker counts a failed task.
Succeed(w) ==
    /\ task[w] # NoItem
    /\ succeeded' = succeeded \cup {of[task[w]]}
    /\ Finish(w, FALSE)
    /\ UNCHANGED <<vars, enqueuing, offered, inbox, runs, again>>

\* QueueTask.RetryCount, which convertQueueItemToTask leaves at zero.
RetryCount(i) == 0

ShouldRetry(i) == RetryCount(i) < MaxAttempts

\* A retryable error: ScheduleRetry enqueues the execution once more, for a time
\* to come, and processTask returns its result, nil.
Retry(w, n) ==
    /\ task[w] # NoItem
    /\ ShouldRetry(task[w])
    /\ EnqueueDelayed(n)
    /\ of' = [of EXCEPT ![n] = of[task[w]]]
    /\ gen' = [gen EXCEPT ![n] = gen[task[w]] + 1]
    /\ Finish(w, TRUE)
    /\ UNCHANGED <<offered, inbox, runs, succeeded, again>>

\* Any other error, or one of EnqueueAt: nothing is marked.
Fail(w) ==
    /\ task[w] # NoItem
    /\ Finish(w, FALSE)
    /\ UNCHANGED <<vars, enqueuing, offered, inbox, runs, succeeded, again>>

\* Mutant: the clean-up takes tasks of any age.
Stale_AnyAge(i) == TRUE

\* The clean-up takes tasks processed seven days ago.  The engine does not hold
\* one that long: a task runs for half an hour at most, and ten can wait.
Stale(i) == i \notin Held

CleanupOldRetries(c) ==
    /\ Cleanup(c)
    /\ \A m \in hand'[c] : Stale(m.id)
    /\ UNCHANGED engineVars

\* A call of the dispatcher or the clean-up ends with an error.
CallFails(c) ==
    /\ Abort(c)
    /\ UNCHANGED engineVars

\* The process dies, between any two commands, and starts again.
Crash ==
    /\ pc' = [c \in Clients |-> "idle"]
    /\ hand' = [c \in Clients |-> {}]
    /\ offered' = NoItem
    /\ inbox' = [w \in Workers |-> {}]
    /\ task' = [w \in Workers |-> NoItem]
    /\ healthy' = [w \in Workers |-> TRUE]
    /\ UNCHANGED <<fresh, stored, stats, clock, enqueuing, runs, succeeded, again>>

EngineNext ==
    \/ \E e \in Executions, i \in Items : Submit(e, i)
    \/ \E d \in Dequeuers : DispatcherDequeues(d) \/ DequeueReturns(d)
    \/ \E w \in Workers : Dispatch(w) \/ Run(w) \/ Succeed(w) \/ Fail(w)
    \/ \E w \in Workers, n \in Items : Retry(w, n)
    \/ GiveUp
    \/ \E c \in Cleaners : CleanupOldRetries(c)
    \/ \E c \in Clients : CallFails(c)
    \/ Crash

EngineSpec == EngineInit /\ [][EngineNext]_allVars

-----------------------------------------------------------------------------
(* Properties.                                                             *)

EngineTypeOK ==
    /\ TypeOK
    /\ of \in [Items -> Executions \cup {NoItem}]
    /\ gen \in [Items -> Nat]
    /\ offered \in Items \cup {NoItem}
    /\ inbox \in [Workers -> SUBSET Items]
    /\ task \in [Workers -> Items \cup {NoItem}]
    /\ healthy \in [Workers -> BOOLEAN]
    /\ runs \in [Items -> Nat]
    /\ succeeded \in SUBSET Executions
    /\ again \in SUBSET succeeded

\* The retry budget of an item bounds how often it is run, whatever the workers
\* do with it and however often the process dies: an item that always crashes
\* its process is given up in the end.
RunsBounded == \A i \in Items : runs[i] <= MaxRetries

\* An item is not run twice at once: it is in the hands of one worker, and what
\* a worker holds waits neither in the queue nor for its time.
NoConcurrentRuns ==
    /\ \A v, w \in Workers :
          v # w => (inbox[v] \cup {task[v]}) \cap (inbox[w] \cup {task[w]}) \subseteq {NoItem}
    /\ \A i \in Held : Of(queue \cup delayed \cup InHand, i) = {}

\* What the engine holds is recorded as processing until it is done with: a crash
\* of the process loses none of it.
CrashSafe == \A i \in Held : Of(processing, i) # {}

\* "Max retry attempts reached" (retry.go): an execution is not retried more often
\* than its policy allows.
RetryLimit == \A i \in Items : gen[i] <= MaxAttempts

\* An execution that has completed is not run again.
SuccessIsFinal == again = {}
=============================================================================
