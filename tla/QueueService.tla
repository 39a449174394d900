----------------------------- MODULE QueueService -----------------------------
(***************************************************************************)
(* The task lists of internal/services/queue_service.go: four lists in     *)
(* Redis and a sorted set of tasks for later.                              *)
(*                                                                         *)
(* A task that is due is moved in two commands, and nothing keeps two      *)
(* movers apart or brings back what a mover had in its hands.  A task is   *)
(* what its JSON text says; of it the id and the retries are kept.  Which  *)
(* list a due task goes to depends on its type, which is arbitrary.  An    *)
(* action is one Redis command.  Triggers push onto the high list; of the  *)
(* other operations the program calls none, as the README says.            *)
(***************************************************************************)
EXTENDS Naturals, FiniteSets, Sequences, SequencesExt

CONSTANTS
    Tasks,
    Movers,       \* callers of ProcessScheduledTasks
    Consumers,    \* callers of DequeueTask, who may retry what they got
    MaxRetries,   \* of every task
    Count,        \* how many due tasks a mover asks for
    NoTask

QueueServiceAssumption ==
    /\ IsFiniteSet(Movers) /\ Movers # {} /\ IsFiniteSet(Consumers)
    /\ MaxRetries \in Nat /\ Count \in Nat \ {0}
    /\ NoTask \notin [id : Tasks, retry : 0..MaxRetries]

VARIABLES
    scheduled,    \* queue:scheduled: the members
    due,          \* those whose time has come
    list,         \* the four lists; tasks enter on the left and leave on the right
    batch,        \* batch[m]: what mover m has read and not yet gone through
    hand,         \* hand[c]: the task that mover or consumer c holds
    asked,        \* history: tasks that were given to the service
    dropped       \* history: tasks that some failure, crash or ClearQueue took

vars == <<scheduled, due, list, batch, hand, asked, dropped>>

Lists == {"high", "default", "low", "failed"}
Task == [id : Tasks, retry : 0..MaxRetries]

Init ==
    /\ scheduled = {} /\ due = {}
    /\ list = [q \in Lists |-> <<>>]
    /\ batch = [m \in Movers |-> {}]
    /\ hand = [c \in Movers \cup Consumers |-> NoTask]
    /\ asked = {} /\ dropped = {}

Hold(c, t) == hand' = [hand EXCEPT ![c] = t]
LPush(q, t) == list' = [list EXCEPT ![q] = <<t>> \o @]
Drop(T) == dropped' = dropped \cup T

\* A client's task, here each at most once.  The push may fail.
EnqueueTask(q, k) ==
    /\ k \notin asked
    /\ LPush(q, [id |-> k, retry |-> 0])
    /\ asked' = asked \cup {k}
    /\ UNCHANGED <<scheduled, due, batch, hand, dropped>>

ScheduleTask(k) ==
    /\ k \notin asked
    /\ scheduled' = scheduled \cup {[id |-> k, retry |-> 0]}
    /\ asked' = asked \cup {k}
    /\ UNCHANGED <<due, list, batch, hand, dropped>>

ComeDue(t) ==
    /\ t \in scheduled \ due
    /\ due' = due \cup {t}
    /\ UNCHANGED <<scheduled, list, batch, hand, asked, dropped>>

\* ZRANGEBYSCORE up to now, at most Count.
ReadDue(m) ==
    /\ batch[m] = {} /\ hand[m] = NoTask
    /\ \E B \in SUBSET (due \cap scheduled) :
           /\ B # {} /\ Cardinality(B) <= Count
           /\ Cardinality(B) < Count => B = due \cap scheduled
           /\ batch' = [batch EXCEPT ![m] = B]
    /\ UNCHANGED <<scheduled, due, list, hand, asked, dropped>>

\* Mutant: the due part of the set is removed as a whole.
RemoveScheduled_Range(m) ==
    /\ hand[m] = NoTask
    /\ \E t \in batch[m] :
           /\ batch' = [batch EXCEPT ![m] = @ \ {t}]
           /\ \/ scheduled' = scheduled \ due /\ Hold(m, t)
              \/ UNCHANGED <<scheduled, hand>>
    /\ UNCHANGED <<due, list, asked, dropped>>

\* ZREM, whose count of removed members is not looked at: the task may have been
\* removed by another mover.  An error leaves the task where it is.
RemoveScheduled(m) ==
    /\ hand[m] = NoTask
    /\ \E t \in batch[m] :
           /\ batch' = [batch EXCEPT ![m] = @ \ {t}]
           /\ \/ scheduled' = scheduled \ {t} /\ Hold(m, t)
              \/ UNCHANGED <<scheduled, hand>>
    /\ UNCHANGED <<due, list, asked, dropped>>

\* A push that fails is logged, and the task is gone.
PushDue(m) ==
    /\ hand[m] # NoTask
    /\ Hold(m, NoTask)
    /\ \/ \E q \in {"high", "default"} : LPush(q, hand[m]) /\ UNCHANGED dropped
       \/ Drop({hand[m].id}) /\ UNCHANGED list
    /\ UNCHANGED <<scheduled, due, batch, asked>>

Crash(m) ==
    /\ hand[m] # NoTask \/ batch[m] # {}
    /\ Hold(m, NoTask)
    /\ batch' = [batch EXCEPT ![m] = {}]
    /\ Drop(IF hand[m] = NoTask THEN {} ELSE {hand[m].id})
    /\ UNCHANGED <<scheduled, due, list, asked>>

\* BRPOP looks at the lists in the order of their priority.
DequeueTask(c) ==
    /\ hand[c] = NoTask
    /\ \E q \in {"high", "default", "low"} :
           /\ list[q] # <<>>
           /\ q # "high" => list["high"] = <<>>
           /\ q = "low" => list["default"] = <<>>
           /\ Hold(c, Last(list[q]))
           /\ list' = [list EXCEPT ![q] = Front(@)]
    /\ UNCHANGED <<scheduled, due, batch, asked, dropped>>

\* What a consumer got has failed; or it is done, and the service hears no more.
RetryFailedTask(c) ==
    /\ hand[c] # NoTask
    /\ Hold(c, NoTask)
    /\ LET t == hand[c] IN
       IF t.retry >= MaxRetries THEN LPush("failed", t)
       ELSE LPush("low", [t EXCEPT !.retry = @ + 1])
    /\ UNCHANGED <<scheduled, due, batch, asked, dropped>>

Finish(c) ==
    /\ hand[c] # NoTask
    /\ Hold(c, NoTask)
    /\ Drop({hand[c].id})
    /\ UNCHANGED <<scheduled, due, list, batch, asked>>

ClearQueue(q) ==
    /\ list[q] # <<>>
    /\ list' = [list EXCEPT ![q] = <<>>]
    /\ Drop({t.id : t \in ToSet(list[q])})
    /\ UNCHANGED <<scheduled, due, batch, hand, asked>>

Next ==
    \/ \E k \in Tasks : ScheduleTask(k) \/ \E q \in {"high", "default"} : EnqueueTask(q, k)
    \/ \E t \in Task : ComeDue(t)
    \/ \E m \in Movers : ReadDue(m) \/ RemoveScheduled(m) \/ PushDue(m) \/ Crash(m)
    \/ \E c \in Consumers : DequeueTask(c) \/ RetryFailedTask(c) \/ Finish(c)
    \/ \E q \in Lists : ClearQueue(q)

Spec == Init /\ [][Next]_vars

-----------------------------------------------------------------------------
(* The properties.                                                         *)

TypeOK ==
    /\ scheduled \subseteq Task /\ due \subseteq Task
    /\ list \in [Lists -> Seq(Task)]
    /\ batch \in [Movers -> SUBSET Task]
    /\ hand \in [Movers \cup Consumers -> Task \cup {NoTask}]
    /\ asked \subseteq Tasks /\ dropped \subseteq Tasks

\* The tasks in the lists and with consumers and movers.
InList(q, k) == {i \in DOMAIN list[q] : list[q][i].id = k}
InHand(k) == {c \in DOMAIN hand : hand[c] # NoTask /\ hand[c].id = k}
CopiesOf(k) ==
    Cardinality(InList("high", k)) + Cardinality(InList("default", k))
    + Cardinality(InList("low", k)) + Cardinality(InList("failed", k))
    + Cardinality(InHand(k))

\* A task given to the service is in the set, in a list or in somebody's hands,
\* unless it was done, cleared, or lost by a push that failed or by a mover that
\* died: two movers at once, limits and removals that fail lose none.
Accounted ==
    \A k \in asked \ dropped : CopiesOf(k) > 0 \/ \E t \in scheduled : t.id = k

\* The removal does not tell a mover whether it was the one to remove, so that
\* movers that overlap each push the task; but each does so once at most, however
\* often commands fail.
CopiesBounded == \A k \in Tasks : CopiesOf(k) <= Cardinality(Movers)
=============================================================================
