------------------------- MODULE NotificationWorker -------------------------
(***************************************************************************)
(* The notification workers of worker/notification_worker.go: the Redis    *)
(* keys their jobs are kept in, the four processors of each worker, and    *)
(* how the manager starts and stops them.                                  *)
(*                                                                         *)
(* The key of pending jobs is a sorted set when EnqueueNotification made   *)
(* it and a list when the script that moves due jobs made it; Redis        *)
(* refuses a command of the other kind.  A script that is refused halfway  *)
(* keeps what it had written.  What the pending, retry and cleanup         *)
(* processors ask of the notification service is in Notifications; nothing *)
(* here takes a job off the pending key.                                   *)
(***************************************************************************)
EXTENDS Naturals, FiniteSets

CONSTANTS
    Jobs,
    NumWorkers,   \* workers of the manager
    MaxBatch      \* jobs the script moves in one run

NotificationWorkerAssumption == NumWorkers \in Nat /\ MaxBatch \in Nat \ {0}

Workers == 1..NumWorkers
Processors == {"pending", "retry", "cleanup", "scheduled"}

VARIABLES
    pending,     \* the pending key: its kind and its jobs
    scheduled,   \* the sorted set of scheduled jobs
    due,         \* scheduled jobs whose time has come
    call,        \* call[j]: what the caller who enqueued j was told
    run,         \* run[w][p]: where processor p of worker w is
    closed,      \* workers whose stopChan is closed
    done,        \* the context of StartAll is cancelled
    stop         \* StopAll: the worker it waits for, 0 before it, "panic"

keys == <<pending, scheduled, due>>
loops == <<run, closed, done, stop>>
vars == <<keys, call, loops>>

Idle == [p \in Processors |-> "off"]
At(n) == [state |-> "waits", worker |-> n]
Rest == [state |-> "idle", worker |-> 0]
Panic == [state |-> "panic", worker |-> 0]

Init ==
    /\ pending = [kind |-> "none", jobs |-> {}]
    /\ scheduled = {} /\ due = {}
    /\ call = [j \in Jobs |-> "none"]
    /\ run = [w \in Workers |-> Idle]
    /\ closed = {} /\ done = FALSE /\ stop = Rest

\* A ZADD to the pending key.  The caller may be told of a failure of a command that ran.
AddPending(j) ==
    /\ pending.kind /= "list"
    /\ pending' = [kind |-> "zset", jobs |-> pending.jobs \cup {j}]
Told(j, to) == call[j] = "none" /\ call' = [call EXCEPT ![j] = to]

EnqueueNotification(j) ==
    /\ \/ AddPending(j) /\ \E to \in {"ok", "failed"} : Told(j, to)
       \/ Told(j, "failed") /\ UNCHANGED pending
    /\ UNCHANGED <<scheduled, due, loops>>
EnqueueScheduledNotification(j) ==
    /\ \/ scheduled' = scheduled \cup {j} /\ \E to \in {"ok", "failed"} : Told(j, to)
       \/ Told(j, "failed") /\ UNCHANGED scheduled
    /\ UNCHANGED <<pending, due, loops>>
Pass(j) ==
    /\ j \in scheduled \ due /\ due' = due \cup {j}
    /\ UNCHANGED <<pending, scheduled, call, loops>>

\* Every worker starts its four processors; it is not started while it has any.
StartAll ==
    /\ stop = Rest /\ \A w \in Workers : run[w] = Idle
    /\ run' = [w \in Workers |-> [p \in Processors |-> "select"]]
    /\ UNCHANGED <<keys, call, closed, done, stop>>
Step(w, p, from, to) ==
    /\ run[w][p] = from
    /\ run' = [run EXCEPT ![w][p] = to]
    /\ UNCHANGED <<call, closed, done, stop>>

\* The select: of a tick, the closed channel and the cancelled context any that is ready.
Tick(w, p) == Step(w, p, "select", "work") /\ UNCHANGED keys
Return(w, p) ==
    /\ w \in closed \/ done
    /\ Step(w, p, "select", "off") /\ UNCHANGED keys

\* Mutant: the job is taken off the scheduled key before it is put on the pending one.
MoveDue_RemovedFirst ==
    \E batch \in SUBSET due :
        /\ Cardinality(batch) = IF Cardinality(due) < MaxBatch THEN Cardinality(due) ELSE MaxBatch
        /\ scheduled' = scheduled \ batch /\ due' = due \ batch
        /\ pending' = IF pending.kind = "zset" \/ batch = {} THEN pending
                      ELSE [kind |-> "list", jobs |-> pending.jobs \cup batch]
\* The script: for each of at most MaxBatch due jobs an LPUSH and then a ZREM.
MoveDue ==
    \E batch \in SUBSET due :
        /\ Cardinality(batch) = IF Cardinality(due) < MaxBatch THEN Cardinality(due) ELSE MaxBatch
        /\ IF pending.kind = "zset" \/ batch = {} THEN UNCHANGED keys
           ELSE /\ pending' = [kind |-> "list", jobs |-> pending.jobs \cup batch]
                /\ scheduled' = scheduled \ batch /\ due' = due \ batch

processScheduledNotifications(w) ==
    /\ Step(w, "scheduled", "work", "select")
    /\ MoveDue \/ UNCHANGED keys     \* Redis may be away
processOther(w, p) ==
    p /= "scheduled" /\ Step(w, p, "work", "select") /\ UNCHANGED keys

Cancel ==
    /\ ~done /\ done' = TRUE
    /\ UNCHANGED <<keys, call, run, closed, stop>>

\* StopAll: close the worker's channel, wait for its processors, go on with the next; of no
\* worker it returns at once.
StopWorker(w) ==
    IF w \in closed THEN stop' = Panic /\ UNCHANGED closed
    ELSE closed' = closed \cup {w} /\ stop' = At(w)
StopAll ==
    /\ stop = Rest /\ 1 \in Workers /\ StopWorker(1)
    /\ UNCHANGED <<keys, call, run, done>>
Stopped ==
    /\ stop.state = "waits"
    /\ \A p \in Processors : run[stop.worker][p] = "off"
    /\ IF stop.worker = NumWorkers THEN stop' = Rest /\ UNCHANGED closed
       ELSE StopWorker(stop.worker + 1)
    /\ UNCHANGED <<keys, call, run, done>>

Next ==
    \/ \E j \in Jobs : EnqueueNotification(j) \/ EnqueueScheduledNotification(j) \/ Pass(j)
    \/ StartAll \/ Cancel \/ StopAll \/ Stopped
    \/ \E w \in Workers :
         \/ processScheduledNotifications(w)
         \/ \E p \in Processors : Tick(w, p) \/ Return(w, p) \/ processOther(w, p)

Spec == Init /\ [][Next]_vars

-----------------------------------------------------------------------------
(* The properties.                                                         *)

TypeOK ==
    /\ pending \in [kind : {"none", "zset", "list"}, jobs : SUBSET Jobs]
    /\ scheduled \subseteq Jobs /\ due \subseteq scheduled
    /\ call \in [Jobs -> {"none", "ok", "failed"}]
    /\ run \in [Workers -> [Processors -> {"off", "select", "work"}]]
    /\ closed \subseteq Workers /\ done \in BOOLEAN
    /\ stop \in {Rest, Panic} \cup {At(w) : w \in Workers}

\* A job whose caller was told it is enqueued is on exactly one of the two keys, also when the
\* script that moves it is refused halfway because the pending key is of the other kind.
JobsAreKept ==
    \A j \in Jobs : call[j] = "ok" => (j \in pending.jobs) /= (j \in scheduled)
=============================================================================
