---------------------------- MODULE WorkflowQueue ----------------------------
(***************************************************************************)
(* The Redis workflow queue of internal/repository/redis.                  *)
(*                                                                         *)
(* Redis holds two sorted sets (the priority queue and the delayed queue), *)
(* three sets (processing, completed, failed) and a hash of counters.      *)
(* Every operation of the repository is one or two reads followed by one   *)
(* pipeline of writes, and nothing makes the pair atomic: an action of     *)
(* this module is one read command or one pipeline, and any number of      *)
(* clients interleave them.                                                *)
(*                                                                         *)
(* A member of those sets is the JSON text of a queue item.  Two texts are *)
(* equal only when every field is, so a member is abstracted to the fields *)
(* that tell members apart: the item's id, its retry count, whether it     *)
(* carries an error, and the time it was last stamped with (ProcessedAt,   *)
(* CompletedAt or FailedAt; 0 when those are nil).                         *)
(***************************************************************************)
EXTENDS Integers, FiniteSets

CONSTANTS
    Items,        \* the item ids: execution id and nanosecond of the enqueue
    Priority,     \* Priority[i]: the priority item i is enqueued with
    MaxRetries,   \* QueueItem.MaxRetries
    Dequeuers,    \* clients that call Dequeue (one dispatcher per pool)
    Markers,      \* clients that call MarkCompleted and MarkFailed
    Cleaners,     \* clients that call CleanupStaleProcessingTasks
    Admins,       \* clients that call RequeueFailedTask, UpdateTaskStatus, Clear
    MaxStamp      \* bound: how many times a stamp may be taken from the clock

ASSUME QueueAssumption ==
    /\ Priority \in [Items -> Int]
    /\ MaxRetries \in Nat
    /\ MaxStamp \in Nat

Clients == Dequeuers \cup Markers \cup Cleaners \cup Admins

VARIABLES
    fresh,        \* ids not enqueued yet
    queue,        \* WorkflowQueue, a sorted set by -priority
    delayed,      \* DelayedQueue, a sorted set by due time
    processing,   \* ProcessingSet
    completed,    \* CompletedSet
    failed,       \* FailedSet
    stats,        \* StatsKey, a hash of counters
    clock,        \* time.Now() of the last stamp taken
    pc,           \* pc[c]: the point client c has reached in its call
    hand          \* hand[c]: the members c holds from its last read

stored == <<queue, delayed, processing, completed, failed>>
vars == <<fresh, stored, stats, clock, pc, hand>>

Counters == {"total", "queued", "delayed", "processing", "completed",
             "failed", "retries"}
Member == [id : Items, retry : Nat, err : BOOLEAN, at : Nat]
Points == {"idle", "due", "pop", "popped", "complete", "fail", "bury",
           "stale", "requeue", "seekP", "seekC", "seekF",
           "relabelP", "relabelC", "relabelF"}

-----------------------------------------------------------------------------
(* Helpers: members of a set by id, and HINCRBY on several counters.       *)

Of(set, i) == {m \in set : m.id = i}

Stamped(m) == [m EXCEPT !.at = clock + 1]

Errored(m) == [m EXCEPT !.err = TRUE]

\* Mutant: the retry counter is left alone.
Retried_Same(m) == [m EXCEPT !.at = 0]

Retried(m) == [id |-> m.id, retry |-> m.retry + 1, err |-> m.err, at |-> 0]

Incr(deltas) ==
    stats' = [k \in Counters |->
                 IF k \in DOMAIN deltas THEN stats[k] + deltas[k] ELSE stats[k]]

Tick == /\ clock < MaxStamp
        /\ clock' = clock + 1

Goto(c, point, members) ==
    /\ pc' = [pc EXCEPT ![c] = point]
    /\ hand' = [hand EXCEPT ![c] = members]

Return(c) == Goto(c, "idle", {})

Init ==
    /\ fresh = Items
    /\ queue = {} /\ delayed = {} /\ processing = {}
    /\ completed = {} /\ failed = {}
    /\ stats = [k \in Counters |-> 0]
    /\ clock = 0
    /\ pc = [c \in Clients |-> "idle"]
    /\ hand = [c \in Clients |-> {}]

-----------------------------------------------------------------------------
(* Enqueue and EnqueueDelayed: one pipeline each.  EnqueueAt is one or the *)
(* other, by whether its time has come.                                    *)

NewMember(i) == [id |-> i, retry |-> 0, err |-> FALSE, at |-> 0]

Enqueue(i) ==
    /\ i \in fresh
    /\ fresh' = fresh \ {i}
    /\ queue' = queue \cup {NewMember(i)}
    /\ Incr([queued |-> 1, total |-> 1])
    /\ UNCHANGED <<delayed, processing, completed, failed, clock, pc, hand>>

EnqueueDelayed(i) ==
    /\ i \in fresh
    /\ fresh' = fresh \ {i}
    /\ delayed' = delayed \cup {NewMember(i)}
    /\ Incr([delayed |-> 1, total |-> 1])
    /\ UNCHANGED <<queue, processing, completed, failed, clock, pc, hand>>

EnqueueAt(i) == Enqueue(i) \/ EnqueueDelayed(i)

-----------------------------------------------------------------------------
(* Dequeue: moveDelayedToQueue (a ZRANGEBYSCORE, then a pipeline), ZPOPMIN, *)
(* then a pipeline that records the popped item as processing.             *)

\* Which delayed members are due depends on the wall clock: any may be.
ReadDue(d) ==
    /\ pc[d] = "idle"
    /\ \E due \in SUBSET delayed :
          Goto(d, IF due = {} THEN "pop" ELSE "due", due)
    /\ UNCHANGED <<fresh, stored, stats, clock>>

\* The result of ZREM is not looked at: a member another client has already
\* moved is added to the queue, and counted, once more.
MoveDue(d) ==
    /\ pc[d] = "due"
    /\ delayed' = delayed \ hand[d]
    /\ queue' = queue \cup hand[d]
    /\ Incr([delayed |-> -Cardinality(hand[d]), queued |-> Cardinality(hand[d])])
    /\ Goto(d, "pop", {})
    /\ UNCHANGED <<fresh, processing, completed, failed, clock>>

\* A failed move is only a warning: Dequeue goes on to pop.
MoveFails(d) ==
    /\ pc[d] = "due"
    /\ Goto(d, "pop", {})
    /\ UNCHANGED <<fresh, stored, stats, clock>>

\* Mutant: the head of the queue is read and left there.
Pop_Peek(d) ==
    /\ pc[d] = "pop"
    /\ \E m \in queue : Goto(d, "popped", {m})
    /\ UNCHANGED <<fresh, stored, stats, clock>>

Pop(d) ==
    /\ pc[d] = "pop"
    /\ \E m \in queue :
          /\ \A n \in queue : Priority[n.id] <= Priority[m.id]
          /\ queue' = queue \ {m}
          /\ Goto(d, "popped", {m})
    /\ UNCHANGED <<fresh, delayed, processing, completed, failed, stats, clock>>

\* ErrQueueEmpty.
PopEmpty(d) ==
    /\ pc[d] = "pop"
    /\ queue = {}
    /\ Return(d)
    /\ UNCHANGED <<fresh, stored, stats, clock>>

Store(d) ==
    /\ pc[d] = "popped"
    /\ Tick
    /\ processing' = processing \cup {Stamped(m) : m \in hand[d]}
    /\ Incr([queued |-> -1, processing |-> 1])
    /\ Return(d)
    /\ UNCHANGED <<fresh, queue, delayed, completed, failed>>

-----------------------------------------------------------------------------
(* MarkCompleted and MarkFailed: SMEMBERS of the processing set, then a    *)
(* pipeline.  MarkFailed of an exhausted item calls moveFromProcessing,    *)
(* which reads the processing set again.                                   *)

\* No member has the id: ErrTaskNotFound, and nothing changes.
ReadForMark(c, i, point) ==
    /\ pc[c] = "idle"
    /\ \E m \in Of(processing, i) : Goto(c, point, {m})
    /\ UNCHANGED <<fresh, stored, stats, clock>>

MarkCompleted(c, i) == ReadForMark(c, i, "complete")
MarkFailed(c, i) == ReadForMark(c, i, "fail")

\* moveFromProcessing into the completed set; the result of SREM is not
\* looked at.
MoveToCompleted(c) ==
    /\ pc[c] = "complete"
    /\ Tick
    /\ processing' = processing \ hand[c]
    /\ completed' = completed \cup {Stamped(m) : m \in hand[c]}
    /\ Incr([processing |-> -1, completed |-> 1])
    /\ Return(c)
    /\ UNCHANGED <<fresh, queue, delayed, failed>>

\* Mutant: one retry too many.
RetryAllowed_OffByOne(m) == m.retry <= MaxRetries

\* MarkFailed's test of the retry budget.
RetryAllowed(m) == m.retry < MaxRetries

\* requeueForRetry; its delay of RetryCount^2 seconds from now is never 0,
\* because RetryCount has just been incremented.
RequeueForRetry(c) ==
    /\ pc[c] = "fail"
    /\ Tick
    /\ \A m \in hand[c] : RetryAllowed(m)
    /\ processing' = processing \ hand[c]
    /\ delayed' = delayed \cup {Errored(Retried(m)) : m \in hand[c]}
    /\ Incr([delayed |-> 1, processing |-> -1, retries |-> 1])
    /\ Return(c)
    /\ UNCHANGED <<fresh, queue, completed, failed>>

\* Retries exhausted: the second SMEMBERS, which may find another member of
\* the id, or none (ErrTaskNotFound).
ReadForBurial(c) ==
    /\ pc[c] = "fail"
    /\ \A m \in hand[c] : ~RetryAllowed(m)
    /\ LET again == {n \in processing : \E m \in hand[c] : n.id = m.id}
       IN  \/ again = {} /\ Return(c)
           \/ \E n \in again : Goto(c, "bury", {n})
    /\ UNCHANGED <<fresh, stored, stats, clock>>

MoveToFailed(c) ==
    /\ pc[c] = "bury"
    /\ Tick
    /\ processing' = processing \ hand[c]
    /\ failed' = failed \cup {Stamped(m) : m \in hand[c]}
    /\ Incr([processing |-> -1, failed |-> 1])
    /\ Return(c)
    /\ UNCHANGED <<fresh, queue, delayed, completed>>

-----------------------------------------------------------------------------
(* CleanupStaleProcessing and CleanupStaleProcessingTasks (the same body,  *)
(* with and without a count): SMEMBERS, then one pipeline for all the      *)
(* members processed before the threshold.                                 *)

ReadStale(c) ==
    /\ pc[c] = "idle"
    /\ \E threshold \in 0..clock :
          LET stale == {m \in processing : m.at <= threshold}
          IN  stale # {} /\ Goto(c, "stale", stale)
    /\ UNCHANGED <<fresh, stored, stats, clock>>

\* Mutant: one retry too many.
Retriable_Always(members) == members
Retriable_OffByOne(members) == {m \in members : m.retry + 1 <= MaxRetries}

Retriable(members) == {m \in members : m.retry + 1 < MaxRetries}

\* Mutant: the two branches do not cover the boundary.
Exhausted_Gap(members) == {m \in members : m.retry + 1 > MaxRetries}

Exhausted(members) == members \ Retriable(members)

CleanupStale(c) ==
    /\ pc[c] = "stale"
    /\ Tick
    /\ processing' = processing \ hand[c]
    /\ queue' = queue \cup {Retried(m) : m \in Retriable(hand[c])}
    /\ failed' = failed \cup
          {Errored(Stamped(Retried(m))) : m \in Exhausted(hand[c])}
    /\ Incr([processing |-> -Cardinality(hand[c]),
             queued |-> Cardinality(Retriable(hand[c])),
             failed |-> Cardinality(Exhausted(hand[c]))])
    /\ Return(c)
    /\ UNCHANGED <<fresh, delayed, completed>>

-----------------------------------------------------------------------------
(* Administration: RequeueFailedTask, UpdateTaskStatus and Clear.          *)

RequeueFailedTask(c, i) ==
    /\ pc[c] = "idle"
    /\ \E m \in Of(failed, i) : Goto(c, "requeue", {m})
    /\ UNCHANGED <<fresh, stored, stats, clock>>

\* Mutant: removed from the failed set only.
RequeueFailed_Drop(c) ==
    /\ pc[c] = "requeue"
    /\ failed' = failed \ hand[c]
    /\ Incr([failed |-> -1])
    /\ Return(c)
    /\ UNCHANGED <<fresh, queue, delayed, processing, completed, clock>>

RequeueFailed(c) ==
    /\ pc[c] = "requeue"
    /\ failed' = failed \ hand[c]
    /\ queue' = queue \cup {NewMember(m.id) : m \in hand[c]}
    /\ Incr([failed |-> -1, queued |-> 1])
    /\ Return(c)
    /\ UNCHANGED <<fresh, delayed, processing, completed, clock>>

\* UpdateTaskStatus looks the id up in the processing set, then the completed
\* set, then the failed set, one SMEMBERS each, and rewrites the first member
\* found in place.  The status string itself routes nothing; the error text,
\* when one is given, is kept.  While it looks, hand holds the id sought.
UpdateTaskStatus(c, i) ==
    /\ pc[c] = "idle"
    /\ Goto(c, "seekP", {NewMember(i)})
    /\ UNCHANGED <<fresh, stored, stats, clock>>

Seek(c, set, found, next) ==
    LET here == {n \in set : \E m \in hand[c] : n.id = m.id}
    IN  \/ \E n \in here : Goto(c, found, {n})
        \/ here = {} /\ Goto(c, next, IF next = "idle" THEN {} ELSE hand[c])

SeekMember(c) ==
    /\ \/ pc[c] = "seekP" /\ Seek(c, processing, "relabelP", "seekC")
       \/ pc[c] = "seekC" /\ Seek(c, completed, "relabelC", "seekF")
       \/ pc[c] = "seekF" /\ Seek(c, failed, "relabelF", "idle")
    /\ UNCHANGED <<fresh, stored, stats, clock>>

\* SREM of the member read and SADD of its new text, both unconditional.
Relabel(set, new, members, text) ==
    new = (set \ members) \cup
             {IF text THEN Errored(m) ELSE m : m \in members}

RewriteMember(c) ==
    /\ \E text \in BOOLEAN :
          \/ /\ pc[c] = "relabelP"
             /\ Relabel(processing, processing', hand[c], text)
             /\ UNCHANGED <<completed, failed>>
          \/ /\ pc[c] = "relabelC"
             /\ Relabel(completed, completed', hand[c], text)
             /\ UNCHANGED <<processing, failed>>
          \/ /\ pc[c] = "relabelF"
             /\ Relabel(failed, failed', hand[c], text)
             /\ UNCHANGED <<processing, completed>>
    /\ Return(c)
    /\ UNCHANGED <<fresh, queue, delayed, stats, clock>>

\* DEL of the queue's key: the counters are not told.
Clear(c) ==
    /\ pc[c] = "idle"
    /\ queue # {}
    /\ queue' = {}
    /\ UNCHANGED <<fresh, delayed, processing, completed, failed, stats, clock,
                   pc, hand>>

-----------------------------------------------------------------------------
\* A call ends between two commands: Redis answers the next one with an error,
\* the caller's context is cancelled, or its process crashes.
Abort(c) ==
    /\ pc[c] # "idle"
    /\ Return(c)
    /\ UNCHANGED <<fresh, stored, stats, clock>>

Dequeue(d) ==
    ReadDue(d) \/ MoveDue(d) \/ Pop(d) \/ PopEmpty(d) \/ Store(d)

Mark(c) ==
    \/ \E i \in Items : MarkCompleted(c, i) \/ MarkFailed(c, i)
    \/ MoveToCompleted(c) \/ RequeueForRetry(c)
    \/ ReadForBurial(c) \/ MoveToFailed(c)

Cleanup(c) == ReadStale(c) \/ CleanupStale(c)

Administer(c) ==
    \/ \E i \in Items : RequeueFailedTask(c, i) \/ UpdateTaskStatus(c, i)
    \/ RequeueFailed(c) \/ SeekMember(c) \/ RewriteMember(c) \/ Clear(c)

\* What happens while Redis answers and every process stays up.
Work ==
    \/ \E i \in Items : EnqueueAt(i)
    \/ \E d \in Dequeuers : Dequeue(d)
    \/ \E c \in Markers : Mark(c)
    \/ \E c \in Cleaners : Cleanup(c)
    \/ \E c \in Admins : Administer(c)

Next ==
    \/ Work
    \/ \E d \in Dequeuers : MoveFails(d)
    \/ \E c \in Clients : Abort(c)

Spec == Init /\ [][Next]_vars

\* The dispatcher's loop calls Dequeue for ever, delayed items come due, the
\* cleaner's ticker fires for ever, a client that has read goes on to write, and
\* a call that is made again and again is not cut off at the same command each
\* time.  (An abort after Pop needs no such promise: it loses the item.)
Fairness ==
    /\ \A d \in Dequeuers :
          /\ WF_vars(Dequeue(d))
          /\ SF_vars(pc[d] = "idle" /\ ReadDue(d) /\ delayed \subseteq hand'[d])
          /\ SF_vars(MoveDue(d))
          /\ SF_vars(Pop(d))
    /\ \A c \in Markers : WF_vars(Mark(c))
    /\ \A c \in Cleaners :
          /\ WF_vars(Cleanup(c))
          /\ SF_vars(ReadStale(c) /\ processing \subseteq hand'[c])
          /\ SF_vars(CleanupStale(c))

FairSpec == Spec /\ Fairness

-----------------------------------------------------------------------------
(* Properties.                                                             *)

TypeOK ==
    /\ fresh \in SUBSET Items
    /\ queue \in SUBSET Member
    /\ delayed \in SUBSET Member
    /\ processing \in SUBSET Member
    /\ completed \in SUBSET Member
    /\ failed \in SUBSET Member
    /\ stats \in [Counters -> Int]
    /\ clock \in Nat
    /\ pc \in [Clients -> Points]
    /\ hand \in [Clients -> SUBSET Member]

\* The members a Dequeue has popped and not yet stored: in no Redis key.
InHand == UNION {hand[d] : d \in {c \in Dequeuers : pc[c] = "popped"}}

Places == [queue |-> queue, delayed |-> delayed, processing |-> processing,
           completed |-> completed, failed |-> failed, inhand |-> InHand]

Copies(i) == UNION {{p} \X Of(Places[p], i) : p \in DOMAIN Places}

Present(i) == \E p \in DOMAIN Places : Of(Places[p], i) # {}

\* However marks, clean-ups, requeues and dequeues of any number of clients
\* interleave, an item once enqueued leaves Redis in only two ways: the call
\* that has popped it dies before storing it (ZPOPMIN and SADD are two
\* commands), or the queue is cleared.
NeverForgotten ==
    [][\A i \in Items : Present(i) /\ ~Present(i)' =>
          \/ \E d \in Dequeuers : pc[d] = "popped" /\ Abort(d)
          \/ \E c \in Admins : Clear(c)]_vars

\* The counters of StatsKey never lose the total: under every interleaving,
\* error and crash, the items counted in the five stages are the items counted
\* in.  (Each counter on its own does drift: see StatsExact.)
StatsBalance ==
    stats.total = stats.queued + stats.delayed + stats.processing
                  + stats.completed + stats.failed

\* The retry budget of an item bounds every copy of it that can still run,
\* although MarkFailed and the two clean-ups test it in different ways.
RetryBudget ==
    /\ \A m \in queue \cup delayed \cup processing \cup InHand : m.retry <= MaxRetries
    /\ \A m \in failed : m.retry <= MaxRetries + 1

\* With one client per role the read-then-write pairs do not collide: an item
\* is in one place at a time, so it is neither run twice at once nor both
\* finished and waiting.
SingleCopy == \A i \in Items : \A x, y \in Copies(i) : x = y

\* ... and each counter is the size of the set it stands for, but that an item
\* popped and not stored still counts as queued, for ever if the call dies there.
Lost == {i \in Items \ fresh : ~Present(i)}

StatsExact ==
    /\ stats.queued = Cardinality(queue) + Cardinality(InHand) + Cardinality(Lost)
    /\ stats.delayed = Cardinality(delayed)
    /\ stats.processing = Cardinality(processing)
    /\ stats.completed = Cardinality(completed)
    /\ stats.failed = Cardinality(failed)

\* Every item handed to the queue is in the end completed or failed for good,
\* but for those a dying Dequeue has lost.
EveryItemSettles ==
    \A i \in Items :
        i \notin fresh ~> Of(completed \cup failed, i) # {} \/ ~Present(i)
=============================================================================
