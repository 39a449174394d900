------------------------- MODULE WorkflowEngineProofs -------------------------
(***************************************************************************)
(* Theorems about WorkflowEngine, for any number of executions, items and  *)
(* workers, with one dispatcher and one clean-up, and about what watches   *)
(* it: the collector of metrics and the dashboard.                         *)
(***************************************************************************)
EXTENDS MCMonitoredEngine, WorkflowQueueProofs

-----------------------------------------------------------------------------
(* The queue.                                                              *)

\* The engine takes the queue through its own steps, and a crash of the process is an abort
\* of every call at once: an item stays in one place.
LEMMA EngineKeeps ==
  ASSUME NEW d, NEW c, OneEach(d, c), RInv, [EngineNext]_allVars
  PROVE  RInv'
<1>1. CASE UNCHANGED vars
  BY <1>1, NextRInv
<1>2. CASE Crash
  <2>1. InHand' = {} /\ UNCHANGED <<fresh, stored, clock>>
    BY <1>2 DEF Crash, InHand, Clients
  <2>2. Sole'
    BY <2>1 DEF RInv, Sole, Everywhere, stored
  <2>3. Framed' /\ UpToDate'
    BY <1>2, <2>1 DEF Crash, RInv, Framed, UpToDate, Clients
  <2> QED  BY <2>2, <2>3 DEF RInv
<1>3. ASSUME NEW i \in Items, EnqueueAt(i) PROVE RInv'
  BY <1>3, EnqueueKeepsSole
<1>4. ASSUME NEW x \in Dequeuers, Dequeue(x) \/ MoveFails(x) PROVE RInv'
  BY <1>4, DequeueKeepsSole, x = d DEF OneEach
<1>5. ASSUME NEW x \in Cleaners, Cleanup(x) PROVE RInv'
  BY <1>5, CleanupKeepsSole, x = c DEF OneEach
<1>6. ASSUME NEW x \in Clients, Abort(x) PROVE RInv'
  BY <1>6, AbortKeepsSole
<1>7. \/ UNCHANGED vars \/ Crash
      \/ \E i \in Items : EnqueueAt(i)
      \/ \E x \in Dequeuers : Dequeue(x) \/ MoveFails(x)
      \/ \E x \in Cleaners : Cleanup(x)
      \/ \E x \in Clients : Abort(x)
  BY DEF EngineNext, allVars, Submit, DispatcherDequeues, DequeueReturns, Dequeue, Dispatch, Run,
         Succeed, Fail, Retry, EnqueueAt, GiveUp, CleanupOldRetries, CallFails
<1> QED  BY <1>1, <1>2, <1>3, <1>4, <1>5, <1>6, <1>7

-----------------------------------------------------------------------------
(* What the engine holds.                                                  *)

Typed ==
    /\ offered \in Items \cup {NoItem}
    /\ inbox \in [Workers -> SUBSET Items]
    /\ task \in [Workers -> Items \cup {NoItem}]

\* It is recorded as processing, and the clean-up is not about to take it.
Recorded ==
    /\ \A i \in Held : \E m \in processing : m.id = i
    /\ \A x \in Cleaners : pc[x] = "stale" => \A m \in hand[x] : m.id \notin Held

\* It is in one hand.
HeldOnce ==
    /\ \A v, w \in Workers : v # w => inbox[v] \cap inbox[w] = {}
    /\ \A v, w \in Workers : task[v] # NoItem => (task[v] = task[w] => v = w)
    /\ \A v, w \in Workers : task[v] \notin inbox[w]
    /\ \A w \in Workers : offered \notin inbox[w]
    /\ \A w \in Workers : offered # NoItem => offered # task[w]

HInv == Typed /\ Recorded /\ HeldOnce

\* Steps of the queue that the engine's hands have no part in.
LEMMA QueueSteps ==
  ASSUME NEW d, NEW c, OneEach(d, c), EngineAssumption, RInv, RInv', HInv,
         UNCHANGED <<offered, inbox, task>>,
         \/ UNCHANGED vars
         \/ \E i \in Items : EnqueueAt(i)
         \/ ReadDue(d) \/ MoveDue(d) \/ MoveFails(d) \/ Pop(d) \/ PopEmpty(d)
         \/ \E x \in Clients : Abort(x)
         \/ c \in Cleaners /\ CleanupOldRetries(c)
  PROVE  HInv'
<1>0. Held' = Held
  BY DEF Held
<1>1. Typed' /\ HeldOnce'
  BY DEF HInv, Typed, HeldOnce
<1>2. ASSUME processing' = processing,
             \A x \in Cleaners : pc'[x] = "stale" => pc[x] = "stale" /\ hand'[x] = hand[x]
      PROVE  Recorded'
  BY <1>0, <1>2 DEF HInv, Recorded
<1>3. ASSUME UNCHANGED vars PROVE Recorded'
  BY <1>2, <1>3 DEF vars, stored
<1>4. ASSUME NEW i \in Items, EnqueueAt(i) PROVE Recorded'
  BY <1>2, <1>4 DEF EnqueueAt, Enqueue, EnqueueDelayed
<1>5. ASSUME ReadDue(d) \/ MoveDue(d) \/ MoveFails(d) \/ Pop(d) \/ PopEmpty(d) PROVE Recorded'
  <2>0. d \in Clients
    BY DEF OneEach, Clients
  <2>1. processing' = processing
    BY <1>5 DEF ReadDue, MoveDue, MoveFails, Pop, PopEmpty, stored
  <2>2. \E p \in {"idle", "due", "pop", "popped"} : \E ms : Goto(d, p, ms)
    BY <1>5 DEF ReadDue, MoveDue, MoveFails, Pop, PopEmpty, Return
  <2>3. \A x \in Cleaners : pc'[x] = "stale" => pc[x] = "stale" /\ hand'[x] = hand[x]
    BY <2>0, <2>2, GotoEffect DEF RInv, Clients
  <2> QED  BY <1>2, <2>1, <2>3
<1>6. ASSUME NEW x \in Clients, Abort(x) PROVE Recorded'
  BY <1>2, <1>6, GotoEffect DEF Abort, Return, stored, RInv, Clients
<1>7. ASSUME c \in Cleaners, CleanupOldRetries(c) PROVE Recorded'
  <2>0. c \in Clients /\ \A x \in Cleaners : x = c
    BY <1>7 DEF OneEach, Clients
  <2>1. CASE ReadStale(c)
    <3>1. processing' = processing /\ \A m \in hand'[c] : m.id \notin Held
      BY <1>7, <2>1 DEF ReadStale, CleanupOldRetries, Stale, stored
    <3> QED  BY <1>0, <2>0, <3>1 DEF HInv, Recorded
  <2>2. CASE CleanupStale(c)
    <3>1. processing' = processing \ hand[c] /\ pc'[c] = "idle"
      BY <2>0, <2>2, GotoEffect DEF CleanupStale, Return, RInv
    <3>2. \A m \in hand[c] : m.id \notin Held
      BY <1>7, <2>2 DEF CleanupStale, HInv, Recorded
    <3> QED  BY <1>0, <2>0, <3>1, <3>2 DEF HInv, Recorded
  <2> QED  BY <1>7, <2>1, <2>2 DEF CleanupOldRetries, Cleanup
<1> QED  BY <1>1, <1>3, <1>4, <1>5, <1>6, <1>7 DEF HInv

\* What the dispatcher is handed comes out of its own hand, where the engine held nothing of it.
LEMMA ReturnStep ==
  ASSUME NEW d, NEW c, OneEach(d, c), EngineAssumption, RInv, RInv', HInv,
         DequeueReturns(d)
  PROVE  /\ HInv' /\ offered' \notin Held
         /\ \E m \in InHand : offered' = m.id /\ processing' = processing \cup {Stamped(m)}
<1>0. d \in Clients /\ d \in Dequeuers
  BY DEF OneEach, Clients
<1>1. PICK m \in Member : hand[d] = {m}
  BY <1>0 DEF DequeueReturns, Store, RInv, UpToDate
<1>2. InHand = {m} /\ processing' = processing \cup {Stamped(m)}
  BY <1>0, <1>1, HandOf DEF DequeueReturns, Store
<1>3. offered' = m.id /\ UNCHANGED <<inbox, task>>
  BY <1>1 DEF DequeueReturns
<1>4. Stamped(m).id = m.id /\ m.id \in Items /\ m.id # NoItem
  BY Texts DEF RInv, Framed, Member, EngineAssumption
<1>5. Held' \subseteq Held \cup {m.id}
  BY <1>3, <1>4 DEF Held
<1>6. \A n \in processing : n.id # m.id
  BY <1>2 DEF RInv, Sole, Everywhere
<1>7. m.id \notin Held
  BY <1>6 DEF HInv, Recorded
<1>8. Typed'
  BY <1>3, <1>4 DEF HInv, Typed
<1>9. HeldOnce'
  <2>1. \A w \in Workers : m.id \notin inbox[w] /\ m.id # task[w]
    BY <1>4, <1>7 DEF Held
  <2> QED  BY <1>3, <2>1 DEF HInv, HeldOnce
<1>10. Recorded'
  <2>1. \A x \in Cleaners : pc'[x] = "stale" => pc[x] = "stale" /\ hand'[x] = hand[x]
    BY <1>0, GotoEffect DEF DequeueReturns, Store, Return, RInv, Clients
  <2>2. \A x \in Cleaners : pc[x] = "stale" => \A n \in hand[x] : n.id # m.id
    BY <1>6 DEF RInv, UpToDate
  <2> QED  BY <1>2, <1>4, <1>5, <2>1, <2>2 DEF HInv, Recorded
<1> QED  BY <1>2, <1>3, <1>7, <1>8, <1>9, <1>10 DEF HInv

\* The engine's own steps hand it on or let it go.
LEMMA WorkerSteps ==
  ASSUME EngineAssumption, HInv, UNCHANGED vars,
         GiveUp \/ \E w \in Workers : Dispatch(w) \/ Run(w) \/ Succeed(w) \/ Fail(w)
  PROVE  HInv'
<1>1. CASE GiveUp
  <2>1. UNCHANGED <<processing, pc, hand, inbox, task>> /\ offered' = NoItem
    BY <1>1 DEF GiveUp, vars, stored
  <2>2. Held' \subseteq Held
    BY <2>1 DEF Held
  <2> QED  BY <2>1, <2>2 DEF HInv, Typed, Recorded, HeldOnce, EngineAssumption
<1>2. ASSUME NEW w \in Workers, Dispatch(w) PROVE HInv'
  <2>1. /\ UNCHANGED <<processing, pc, hand, task>> /\ offered # NoItem /\ offered' = NoItem
        /\ inbox' = [inbox EXCEPT ![w] = @ \cup {offered}]
    BY <1>2 DEF Dispatch, vars, stored
  <2>2. /\ inbox'[w] = inbox[w] \cup {offered} /\ inbox' \in [Workers -> SUBSET Items]
        /\ \A v \in Workers \ {w} : inbox'[v] = inbox[v]
    BY <2>1 DEF HInv, Typed
  <2>3. Held' \subseteq Held
    BY <2>1, <2>2 DEF Held
  <2>4. HeldOnce'
    BY <2>1, <2>2 DEF HInv, HeldOnce, Typed, EngineAssumption
  <2> QED  BY <2>1, <2>2, <2>3, <2>4 DEF HInv, Typed, Recorded
<1>3. ASSUME NEW w \in Workers, Run(w) PROVE HInv'
  <2>1. PICK i \in inbox[w] : /\ inbox' = [inbox EXCEPT ![w] = @ \ {i}]
                             /\ task' = [task EXCEPT ![w] = i]
    BY <1>3 DEF Run
  <2>2. UNCHANGED <<processing, pc, hand, offered>> /\ task[w] = NoItem
    BY <1>3 DEF Run, vars, stored
  <2>3. /\ inbox'[w] = inbox[w] \ {i} /\ inbox' \in [Workers -> SUBSET Items]
        /\ \A v \in Workers \ {w} : inbox'[v] = inbox[v] /\ task'[v] = task[v]
        /\ task'[w] = i /\ task' \in [Workers -> Items \cup {NoItem}]
    BY <2>1 DEF HInv, Typed
  <2>4. Held' \subseteq Held
    BY <2>1, <2>2, <2>3 DEF Held
  <2>5. HeldOnce'
    BY <2>2, <2>3 DEF HInv, HeldOnce, Typed, EngineAssumption
  <2> QED  BY <2>2, <2>3, <2>4, <2>5 DEF HInv, Typed, Recorded
<1>4. ASSUME NEW w \in Workers, Succeed(w) \/ Fail(w) PROVE HInv'
  <2>1. /\ UNCHANGED <<processing, pc, hand, offered, inbox>>
        /\ task' = [task EXCEPT ![w] = NoItem]
    BY <1>4 DEF Succeed, Fail, Finish, vars, stored
  <2>2. /\ task'[w] = NoItem /\ task' \in [Workers -> Items \cup {NoItem}]
        /\ \A v \in Workers \ {w} : task'[v] = task[v]
    BY <2>1 DEF HInv, Typed
  <2>3. Held' \subseteq Held
    BY <2>1, <2>2 DEF Held
  <2>4. HeldOnce'
    BY <2>1, <2>2 DEF HInv, HeldOnce, Typed, EngineAssumption
  <2> QED  BY <2>1, <2>2, <2>3, <2>4 DEF HInv, Typed, Recorded
<1> QED  BY <1>1, <1>2, <1>3, <1>4

LEMMA RetryStep ==
  ASSUME EngineAssumption, HInv, NEW w \in Workers, NEW n \in Items, Retry(w, n)
  PROVE  HInv'
<1>1. /\ UNCHANGED <<processing, pc, hand, offered, inbox>>
      /\ task' = [task EXCEPT ![w] = NoItem]
  BY DEF Retry, EnqueueDelayed, Finish
<1>2. /\ task'[w] = NoItem /\ task' \in [Workers -> Items \cup {NoItem}]
      /\ \A v \in Workers \ {w} : task'[v] = task[v]
  BY <1>1 DEF HInv, Typed
<1>3. Held' \subseteq Held
  BY <1>1, <1>2 DEF Held
<1>4. HeldOnce'
  BY <1>1, <1>2 DEF HInv, HeldOnce, Typed, EngineAssumption
<1> QED  BY <1>1, <1>2, <1>3, <1>4 DEF HInv, Typed, Recorded

LEMMA CrashStep == EngineAssumption /\ Crash => HInv'
<1> SUFFICES ASSUME EngineAssumption, Crash PROVE HInv'
  OBVIOUS
<1>1. Held' = {}
  BY DEF Crash, Held
<1>2. \A x \in Cleaners : pc'[x] = "idle"
  BY DEF Crash, Clients
<1> QED  BY <1>1, <1>2 DEF Crash, HInv, Typed, Recorded, HeldOnce, EngineAssumption

LEMMA InitHInv == EngineAssumption /\ EngineInit => RInv /\ HInv
<1> SUFFICES ASSUME EngineAssumption, EngineInit PROVE RInv /\ HInv
  OBVIOUS
<1>1. RInv
  BY InitRInv DEF EngineInit
<1>2. Held = {} /\ \A x \in Cleaners : pc[x] = "idle"
  BY DEF EngineInit, Init, Held, Clients
<1> QED  BY <1>1, <1>2 DEF EngineInit, HInv, Typed, Recorded, HeldOnce, EngineAssumption

\* Every step of the engine is of one of these kinds.
LEMMA EngineKinds ==
  ASSUME NEW d, NEW c, OneEach(d, c), [EngineNext]_allVars
  PROVE  \/ /\ UNCHANGED <<offered, inbox, task, runs>>
            /\ \/ UNCHANGED vars
               \/ \E i \in Items : EnqueueAt(i)
               \/ ReadDue(d) \/ MoveDue(d) \/ MoveFails(d) \/ Pop(d) \/ PopEmpty(d)
               \/ \E x \in Clients : Abort(x)
               \/ c \in Cleaners /\ CleanupOldRetries(c)
         \/ DequeueReturns(d)
         \/ /\ UNCHANGED vars
            /\ GiveUp \/ \E w \in Workers : Dispatch(w) \/ Run(w) \/ Succeed(w) \/ Fail(w)
         \/ \E w \in Workers, n \in Items : Retry(w, n)
         \/ Crash
<1>1. (\A x \in Dequeuers : x = d) /\ (\A x \in Cleaners : x = c)
  BY DEF OneEach
<1>2. CASE UNCHANGED allVars
  BY <1>2 DEF allVars, engineVars, working
<1>3. ASSUME NEW x \in Dequeuers, DispatcherDequeues(x)
      PROVE  /\ UNCHANGED <<offered, inbox, task, runs>>
             /\ ReadDue(d) \/ MoveDue(d) \/ MoveFails(d) \/ Pop(d) \/ PopEmpty(d)
  BY <1>1, <1>3 DEF DispatcherDequeues, engineVars, working
<1>4. ASSUME NEW e \in Executions, NEW i \in Items, Submit(e, i)
      PROVE  UNCHANGED <<offered, inbox, task, runs>> /\ EnqueueAt(i)
  BY <1>4 DEF Submit, working
<1>5. ASSUME NEW x \in Cleaners, CleanupOldRetries(x)
      PROVE  UNCHANGED <<offered, inbox, task, runs>> /\ c \in Cleaners /\ CleanupOldRetries(c)
  BY <1>1, <1>5 DEF CleanupOldRetries, engineVars, working
<1>6. ASSUME NEW x \in Clients, CallFails(x)
      PROVE  UNCHANGED <<offered, inbox, task, runs>> /\ Abort(x)
  BY <1>6 DEF CallFails, engineVars, working
<1>7. ASSUME GiveUp \/ \E w \in Workers : Dispatch(w) \/ Run(w) \/ Succeed(w) \/ Fail(w)
      PROVE  UNCHANGED vars
  BY <1>7 DEF GiveUp, Dispatch, Run, Succeed, Fail
<1> QED  BY <1>1, <1>2, <1>3, <1>4, <1>5, <1>6, <1>7 DEF EngineNext

LEMMA NextHInv ==
  ASSUME NEW d, NEW c, OneEach(d, c), EngineAssumption, RInv, HInv, [EngineNext]_allVars
  PROVE  RInv' /\ HInv'
<1>1. RInv'
  BY EngineKeeps
<1> QED  BY <1>1, EngineKinds, QueueSteps, ReturnStep, WorkerSteps, RetryStep, CrashStep

\* What the engine holds is recorded as processing: a process that dies loses none of it, for
\* the clean-up of the next one finds it in Redis.
THEOREM CrashLosesNothing ==
  ASSUME NEW d, NEW c, OneEach(d, c), EngineAssumption
  PROVE  EngineSpec => []CrashSafe
<1>1. HInv => CrashSafe
  BY DEF HInv, Recorded, CrashSafe, Of
<1>2. ASSUME RInv, HInv, [EngineNext]_allVars PROVE RInv' /\ HInv'
  BY <1>2, NextHInv
<1> QED  BY <1>1, <1>2, InitHInv, PTL DEF EngineSpec

\* However items are retried, cleaned up and lost, and however often the process dies: an
\* item is in the hands of one worker, and then waits nowhere.
THEOREM NothingRunsTwiceAtOnce ==
  ASSUME NEW d, NEW c, OneEach(d, c), EngineAssumption
  PROVE  EngineSpec => []NoConcurrentRuns
<1>1. ASSUME RInv, HInv PROVE NoConcurrentRuns
  <2>1. ASSUME NEW v \in Workers, NEW w \in Workers, v # w
        PROVE  (inbox[v] \cup {task[v]}) \cap (inbox[w] \cup {task[w]}) \subseteq {NoItem}
    BY <1>1, <2>1 DEF HInv, HeldOnce
  <2>2. ASSUME NEW i \in Held PROVE Of(queue \cup delayed \cup InHand, i) = {}
    <3>1. PICK m \in processing : m.id = i
      BY <1>1 DEF HInv, Recorded
    <3>2. \A n \in queue \cup delayed \cup InHand : n.id # i
      BY <1>1, <3>1 DEF RInv, Sole, Everywhere
    <3> QED  BY <3>2 DEF Of
  <2> QED  BY <2>1, <2>2 DEF NoConcurrentRuns
<1>2. ASSUME RInv, HInv, [EngineNext]_allVars PROVE RInv' /\ HInv'
  BY <1>2, NextHInv
<1> QED  BY <1>1, <1>2, InitHInv, PTL DEF EngineSpec

-----------------------------------------------------------------------------
(* How often an item is run.                                               *)

\* On its way to a worker.
Queued == {offered} \cup UNION {inbox[w] : w \in Workers}

\* A run is paid with a retry: what waits was run as often as it was retried, what is being
\* processed may have been run once more, and not before it has reached a worker.
RunsInv ==
    /\ runs \in [Items -> Nat]
    /\ \A i \in Items : runs[i] <= MaxRetries
    /\ \A i \in fresh : runs[i] = 0
    /\ \A m \in Waiting : runs[m.id] <= m.retry /\ m.retry < MaxRetries
    /\ \A m \in processing :
          /\ m.retry < MaxRetries /\ runs[m.id] <= m.retry + 1
          /\ m.id \in Queued => runs[m.id] <= m.retry

LEMMA QueuePays ==
  ASSUME NEW d, NEW c, OneEach(d, c), MaxRetries > 0, RInv, HInv, RunsInv,
         UNCHANGED <<offered, inbox, task, runs>>,
         \/ UNCHANGED vars
         \/ \E i \in Items : EnqueueAt(i)
         \/ ReadDue(d) \/ MoveDue(d) \/ MoveFails(d) \/ Pop(d) \/ PopEmpty(d)
         \/ \E x \in Clients : Abort(x)
         \/ c \in Cleaners /\ CleanupOldRetries(c)
  PROVE  RunsInv'
<1>0. Queued' = Queued /\ \A m \in Everywhere : m \in Member
  BY DEF Queued, RInv, Sole
<1>1. ASSUME fresh' = fresh, Waiting' \subseteq Waiting, processing' = processing PROVE RunsInv'
  BY <1>0, <1>1 DEF RunsInv
<1>2. CASE UNCHANGED vars
  <2>1. Waiting' = Waiting
    BY <1>2 DEF vars, stored, Waiting, InHand
  <2> QED  BY <1>1, <1>2, <2>1 DEF vars, stored
<1>3. ASSUME NEW i \in Items, EnqueueAt(i) PROVE RunsInv'
  <2>1. /\ i \in fresh /\ fresh' = fresh \ {i} /\ processing' = processing
        /\ Waiting' = Waiting \cup {NewMember(i)}
    BY <1>3 DEF EnqueueAt, Enqueue, EnqueueDelayed, Waiting, InHand
  <2> QED  BY <1>0, <2>1, NewTexts, QueueAssumption DEF RunsInv
<1>4. CASE ReadDue(d) \/ MoveDue(d) \/ MoveFails(d) \/ Pop(d) \/ PopEmpty(d)
  BY <1>1, <1>4, StillWaiting
<1>5. ASSUME NEW x \in Clients, Abort(x) PROVE RunsInv'
  <2>0. d \in Clients /\ UNCHANGED <<fresh, stored>>
    BY <1>5 DEF OneEach, Clients, Abort
  <2>1. InHand' \subseteq InHand
    BY <1>5, <2>0, HandOf, HandOfNext, GotoEffect DEF Abort, Return, RInv
  <2> QED  BY <1>1, <2>0, <2>1 DEF stored, Waiting
<1>6. ASSUME c \in Cleaners, CleanupOldRetries(c) PROVE RunsInv'
  <2>0. c \in Clients /\ c \in Markers \cup Cleaners
    BY <1>6 DEF Clients
  <2>1. CASE ReadStale(c)
    <3>1. InHand' = InHand /\ UNCHANGED <<fresh, stored>>
      BY <2>0, <2>1, StillInHand DEF ReadStale, RInv
    <3> QED  BY <1>1, <3>1 DEF stored, Waiting
  <2>2. CASE CleanupStale(c)
    <3> DEFINE gone == hand[c]
               back == {Retried(m) : m \in Retriable(gone)}
    <3>1. /\ gone \subseteq processing /\ processing' = processing \ gone
          /\ queue' = queue \cup back /\ UNCHANGED <<fresh, delayed>>
      BY <2>0, <2>2 DEF CleanupStale, RInv, UpToDate
    <3>2. Waiting' = Waiting \cup back
      BY <2>0, <2>2, <3>1, StillInHand DEF CleanupStale, Return, RInv, Waiting
    <3>3. ASSUME NEW m \in back PROVE runs[m.id] <= m.retry /\ m.retry < MaxRetries
      <4>1. PICK n \in Retriable(gone) : m = Retried(n)
        BY <3>3
      <4>2. n \in processing /\ n \in Member /\ n.retry + 1 < MaxRetries
        BY <1>0, <3>1 DEF Retriable, Everywhere
      <4>3. m.id = n.id /\ m.retry = n.retry + 1
        BY <4>1, <4>2, Texts DEF RInv, Framed
      <4> QED  BY <4>2, <4>3 DEF RunsInv
    <3> HIDE DEF back
    <3> QED  BY <1>0, <3>1, <3>2, <3>3 DEF RunsInv
  <2> QED  BY <1>6, <2>1, <2>2 DEF CleanupOldRetries, Cleanup
<1> QED  BY <1>2, <1>3, <1>4, <1>5, <1>6

LEMMA ReturnPays ==
  ASSUME NEW d, NEW c, OneEach(d, c), EngineAssumption, RInv, RInv', HInv, RunsInv,
         DequeueReturns(d)
  PROVE  RunsInv'
<1>0. d \in Clients
  BY DEF OneEach, Clients
<1>1. PICK m \in InHand : offered' = m.id /\ processing' = processing \cup {Stamped(m)}
  BY ReturnStep
<1>2. m \in Member /\ Stamped(m).id = m.id /\ Stamped(m).retry = m.retry
  BY Texts DEF RInv, Framed, Sole, Everywhere
<1>3. UNCHANGED <<fresh, queue, delayed, inbox, runs>> /\ InHand' = {}
  BY <1>0, HandOfNext, GotoEffect DEF DequeueReturns, Store, Return, RInv
<1>4. Queued' \subseteq Queued \cup {m.id}
  BY <1>1, <1>3 DEF Queued
<1>5. \A n \in processing : n.id # m.id
  BY <1>1 DEF RInv, Sole, Everywhere
<1>6. runs[m.id] <= m.retry /\ m.retry < MaxRetries /\ m.retry \in Nat /\ runs[m.id] \in Nat
  BY <1>2 DEF RunsInv, Waiting, Member
<1>7. Waiting' \subseteq Waiting
  BY <1>3 DEF Waiting
<1> QED  BY <1>1, <1>2, <1>3, <1>4, <1>5, <1>6, <1>7 DEF RunsInv

LEMMA WorkersPay ==
  ASSUME EngineAssumption, RInv, HInv, RunsInv, UNCHANGED vars,
         GiveUp \/ \E w \in Workers : Dispatch(w) \/ Run(w) \/ Succeed(w) \/ Fail(w)
  PROVE  RunsInv'
<1>0. UNCHANGED <<fresh, processing>> /\ Waiting' = Waiting
  BY DEF vars, stored, Waiting, InHand
<1>1. ASSUME runs' = runs, Queued' \subseteq Queued \cup {NoItem} PROVE RunsInv'
  <2>1. \A m \in processing : m.id # NoItem
    BY DEF RInv, Sole, Everywhere, Member, EngineAssumption
  <2> QED  BY <1>0, <1>1, <2>1 DEF RunsInv
<1>2. CASE GiveUp
  BY <1>1, <1>2 DEF GiveUp, Queued
<1>3. ASSUME NEW w \in Workers, Dispatch(w) PROVE RunsInv'
  <2>1. offered' = NoItem /\ inbox' = [inbox EXCEPT ![w] = @ \cup {offered}] /\ runs' = runs
    BY <1>3 DEF Dispatch
  <2>2. \A v \in Workers : inbox'[v] \subseteq inbox[v] \cup {offered}
    BY <2>1 DEF HInv, Typed
  <2>3. Queued' \subseteq Queued \cup {NoItem}
    BY <2>1, <2>2 DEF Queued
  <2> QED  BY <1>1, <2>1, <2>3
<1>4. ASSUME NEW w \in Workers, Succeed(w) \/ Fail(w) PROVE RunsInv'
  BY <1>1, <1>4 DEF Succeed, Fail, Queued
<1>5. ASSUME NEW w \in Workers, Run(w) PROVE RunsInv'
  <2>1. PICK i \in inbox[w] : /\ inbox' = [inbox EXCEPT ![w] = @ \ {i}]
                             /\ runs' = [runs EXCEPT ![i] = @ + 1]
    BY <1>5 DEF Run
  <2>2. i \in Items /\ i \in Held /\ i \in Queued /\ offered' = offered
    BY <1>5, <2>1 DEF Run, HInv, Typed, Held, Queued, EngineAssumption
  <2>3. PICK m \in processing : m.id = i
    BY <2>2 DEF HInv, Recorded
  <2>4. /\ runs[i] <= m.retry /\ m.retry < MaxRetries /\ m.retry \in Nat
        /\ \A n \in processing : n.id = i => n = m
        /\ \A n \in Waiting : n.id # i
    <3>1. m \in Member
      BY <2>3 DEF RInv, Sole, Everywhere
    <3>2. runs[i] <= m.retry /\ m.retry < MaxRetries /\ m.retry \in Nat
      BY <2>2, <2>3, <3>1 DEF RunsInv, Member
    <3>3. \A n \in processing : n.id = i => n = m
      BY <2>3 DEF RInv, Sole, Everywhere
    <3>4. \A n \in Waiting : n.id # i
      BY <2>3 DEF RInv, Sole, Everywhere, Waiting
    <3> QED  BY <3>2, <3>3, <3>4
  <2>5. /\ runs' \in [Items -> Nat] /\ runs'[i] = runs[i] + 1 /\ runs[i] \in Nat
        /\ \A j \in Items \ {i} : runs'[j] = runs[j]
    BY <2>1, <2>2 DEF RunsInv
  <2>6. Queued' \subseteq Queued /\ i \notin Queued'
    <3>1. inbox'[w] = inbox[w] \ {i} /\ \A v \in Workers \ {w} : inbox'[v] = inbox[v]
      BY <2>1 DEF HInv, Typed
    <3>2. offered # i /\ \A v \in Workers \ {w} : i \notin inbox[v]
      BY <2>1 DEF HInv, HeldOnce
    <3>3. \A v \in Workers : inbox'[v] \subseteq inbox[v] /\ i \notin inbox'[v]
      BY <3>1, <3>2
    <3> QED  BY <2>2, <3>2, <3>3 DEF Queued
  <2>7. \A j \in Items : runs'[j] <= MaxRetries
    BY <2>4, <2>5, QueueAssumption DEF RunsInv
  <2>8. \A j \in fresh : j # i /\ j \in Items
    BY <2>3 DEF RInv, Framed, Sole, Everywhere
  <2>9. \A n \in processing : /\ n.retry < MaxRetries /\ runs'[n.id] <= n.retry + 1
                              /\ n.id \in Queued' => runs'[n.id] <= n.retry
    <3> SUFFICES ASSUME NEW n \in processing
                 PROVE  /\ n.retry < MaxRetries /\ runs'[n.id] <= n.retry + 1
                        /\ n.id \in Queued' => runs'[n.id] <= n.retry
      OBVIOUS
    <3>1. CASE n.id = i
      BY <2>3, <2>4, <2>5, <2>6, <3>1
    <3>2. CASE n.id # i
      <4>1. n.id \in Items
        BY DEF RInv, Sole, Everywhere, Member
      <4> QED  BY <2>5, <2>6, <3>2, <4>1 DEF RunsInv
    <3> QED  BY <3>1, <3>2
  <2>10. \A n \in Waiting : n.id \in Items
    BY DEF RInv, Sole, Everywhere, Member, Waiting
  <2> QED  BY <1>0, <2>4, <2>5, <2>7, <2>8, <2>9, <2>10 DEF RunsInv
<1> QED  BY <1>2, <1>3, <1>4, <1>5

LEMMA RetryPays ==
  ASSUME MaxRetries > 0, RInv, RunsInv, NEW w \in Workers, NEW n \in Items, Retry(w, n)
  PROVE  RunsInv'
<1>1. /\ UNCHANGED <<processing, runs>> /\ Queued' = Queued
      /\ n \in fresh /\ fresh' = fresh \ {n} /\ Waiting' = Waiting \cup {NewMember(n)}
  BY DEF Retry, EnqueueDelayed, Queued, Waiting, InHand
<1> QED  BY <1>1, NewTexts, QueueAssumption DEF RunsInv

LEMMA CrashPays == EngineAssumption /\ RInv /\ RunsInv /\ Crash => RunsInv'
<1> SUFFICES ASSUME EngineAssumption, RInv, RunsInv, Crash PROVE RunsInv'
  OBVIOUS
<1>1. InHand' = {} /\ UNCHANGED <<fresh, stored, runs>>
  BY DEF Crash, InHand, Clients
<1>2. Waiting' \subseteq Waiting /\ Queued' = {NoItem}
  BY <1>1 DEF Crash, stored, Waiting, Queued
<1>3. \A m \in processing : m.id # NoItem
  BY DEF RInv, Sole, Everywhere, Member, EngineAssumption
<1> QED  BY <1>1, <1>2, <1>3 DEF RunsInv, stored

\* However often the process dies with an item in hand, whatever the workers do with it and
\* whenever the clean-up finds it again: an item is run no more often than its budget says.
\* (A retry, which is a new item, has a budget of its own.)
THEOREM RunsArePaid ==
  ASSUME NEW d, NEW c, OneEach(d, c), EngineAssumption, MaxRetries > 0
  PROVE  EngineSpec => []RunsBounded
<1>1. RunsInv => RunsBounded
  BY DEF RunsInv, RunsBounded
<1>2. EngineInit => RunsInv
  BY QueueAssumption DEF EngineInit, Init, RunsInv, Waiting, InHand, Clients
<1>3. ASSUME RInv, HInv, RunsInv, [EngineNext]_allVars PROVE RInv' /\ HInv' /\ RunsInv'
  <2>1. RInv' /\ HInv'
    BY <1>3, NextHInv
  <2> QED  BY <1>3, <2>1, EngineKinds, QueuePays, ReturnPays, WorkersPay, RetryPays, CrashPays
<1> QED  BY <1>1, <1>2, <1>3, InitHInv, PTL DEF EngineSpec
-----------------------------------------------------------------------------
(* The types of the engine's variables.                                    *)

\* What has been enqueued was enqueued for an execution.
Enqueued == \A i \in Items \ fresh : of[i] \in Executions

EInv == IInv /\ EngineTypeOK /\ Enqueued

\* An engine's step is one of the queue's, or leaves it alone, or empties the clients' hands.
LEMMA QueueKind == [EngineNext]_allVars => [Next]_vars \/ Crash
<1> SUFFICES ASSUME [EngineNext]_allVars PROVE [Next]_vars \/ Crash
  OBVIOUS
<1>1. CASE UNCHANGED allVars
  BY <1>1 DEF allVars
<1>2. ASSUME NEW i \in Items, EnqueueAt(i) PROVE Next
  BY <1>2 DEF Next, Work
<1>3. ASSUME NEW x \in Dequeuers, Dequeue(x) \/ MoveFails(x) PROVE Next
  BY <1>3 DEF Next, Work
<1>4. ASSUME NEW x \in Cleaners, Cleanup(x) PROVE Next
  BY <1>4 DEF Next, Work
<1>5. ASSUME NEW x \in Clients, Abort(x) PROVE Next
  BY <1>5 DEF Next
<1>6. \/ UNCHANGED vars \/ Crash
      \/ \E i \in Items : EnqueueAt(i)
      \/ \E x \in Dequeuers : Dequeue(x) \/ MoveFails(x)
      \/ \E x \in Cleaners : Cleanup(x)
      \/ \E x \in Clients : Abort(x)
  BY <1>1 DEF EngineNext, allVars, Submit, DispatcherDequeues, DequeueReturns, Dequeue, Dispatch,
         Run, Succeed, Fail, Retry, EnqueueAt, GiveUp, CleanupOldRetries, CallFails
<1> QED  BY <1>2, <1>3, <1>4, <1>5, <1>6

LEMMA EngineIInv == IInv /\ [EngineNext]_allVars => IInv'
<1>1. ASSUME IInv, Crash PROVE IInv'
  <2>1. IsFiniteSet({}) /\ "idle" \in Points
    BY FS_EmptySet DEF Points
  <2> QED  BY <1>1, <2>1 DEF Crash, IInv, TypeOK, Finite, stored
<1> QED  BY <1>1, QueueKind, NextIInv

\* The execution of an item that the engine holds is known.
LEMMA HeldKnown ==
  ASSUME RInv, HInv, EInv, NEW i \in Held
  PROVE  i \in Items \ fresh /\ of[i] \in Executions
<1>1. PICK m \in processing : m.id = i
  BY DEF HInv, Recorded
<1>2. i \in Items \ fresh
  BY <1>1 DEF RInv, Sole, Everywhere, Member
<1> QED  BY <1>2 DEF EInv, Enqueued

LEMMA NextEInv ==
  ASSUME NEW d, NEW c, OneEach(d, c), EngineAssumption, RInv, HInv, EInv, [EngineNext]_allVars
  PROVE  EInv'
<1>0. IInv' /\ HInv'
  BY EngineIInv, NextHInv DEF EInv
<1>1. /\ TypeOK' /\ offered' \in Items \cup {NoItem}
      /\ inbox' \in [Workers -> SUBSET Items] /\ task' \in [Workers -> Items \cup {NoItem}]
  BY <1>0 DEF IInv, HInv, Typed
<1> DEFINE
      Rest == /\ of \in [Items -> Executions \cup {NoItem}] /\ gen \in [Items -> Nat]
              /\ healthy \in [Workers -> BOOLEAN] /\ runs \in [Items -> Nat]
              /\ succeeded \in SUBSET Executions /\ again \in SUBSET succeeded
<1>2. Rest /\ Enqueued
  BY DEF EInv, EngineTypeOK
<1>3. ASSUME UNCHANGED allVars PROVE (Rest /\ Enqueued)'
  BY <1>2, <1>3 DEF allVars, vars, engineVars, enqueuing, working, Enqueued
<1>4. ASSUME NEW e \in Executions, NEW i \in Items, Submit(e, i) PROVE (Rest /\ Enqueued)'
  BY <1>2, <1>4 DEF Submit, EnqueueAt, Enqueue, EnqueueDelayed, working, Enqueued
<1>5. ASSUME NEW x \in Dequeuers, DispatcherDequeues(x) \/ DequeueReturns(x)
      PROVE  (Rest /\ Enqueued)'
  <2>1. UNCHANGED <<fresh, of, gen, healthy, runs, succeeded, again>>
    BY <1>5 DEF DispatcherDequeues, DequeueReturns, ReadDue, MoveDue, MoveFails, Pop, PopEmpty,
                Store, engineVars, enqueuing, working
  <2> QED  BY <1>2, <2>1 DEF Enqueued
<1>6. ASSUME NEW w \in Workers, NEW n \in Items, Retry(w, n) PROVE (Rest /\ Enqueued)'
  <2>1. task[w] \in Held
    BY <1>6 DEF Retry, Held
  <2>2. of[task[w]] \in Executions /\ gen[task[w]] + 1 \in Nat
    BY <1>2, <2>1, HeldKnown
  <2>3. /\ fresh' = fresh \ {n} /\ of' = [of EXCEPT ![n] = of[task[w]]]
        /\ gen' = [gen EXCEPT ![n] = gen[task[w]] + 1]
        /\ healthy' = [healthy EXCEPT ![w] = TRUE] /\ UNCHANGED <<runs, succeeded, again>>
    BY <1>6 DEF Retry, EnqueueDelayed, Finish
  <2> QED  BY <1>2, <2>2, <2>3 DEF Enqueued
<1>7. ASSUME NEW w \in Workers, Run(w) PROVE (Rest /\ Enqueued)'
  <2>1. PICK i \in inbox[w] :
           runs' = [runs EXCEPT ![i] = @ + 1] /\ again' = again \cup ({of[i]} \cap succeeded)
    BY <1>7 DEF Run
  <2>2. UNCHANGED <<fresh, of, gen, healthy, succeeded>>
    BY <1>7 DEF Run, enqueuing, vars
  <2>3. runs' \in [Items -> Nat]
    <3>1. i \in Items /\ runs \in [Items -> Nat]
      BY <1>2, <2>1 DEF HInv, Typed
    <3> QED  BY <2>1, <3>1
  <2> QED  BY <1>2, <2>1, <2>2, <2>3 DEF Enqueued
<1>8. ASSUME NEW w \in Workers, Succeed(w) PROVE (Rest /\ Enqueued)'
  <2>1. task[w] \in Held
    BY <1>8 DEF Succeed, Held
  <2>2. of[task[w]] \in Executions
    BY <2>1, HeldKnown
  <2> QED  BY <1>2, <1>8, <2>2 DEF Succeed, Finish, enqueuing, vars, Enqueued
<1>9. ASSUME GiveUp \/ \E w \in Workers : Dispatch(w) \/ Fail(w) PROVE (Rest /\ Enqueued)'
  BY <1>2, <1>9 DEF GiveUp, Dispatch, Fail, Finish, enqueuing, vars, Enqueued
<1>10. ASSUME NEW x \in Cleaners, CleanupOldRetries(x) PROVE (Rest /\ Enqueued)'
  BY <1>2, <1>10 DEF CleanupOldRetries, Cleanup, ReadStale, CleanupStale, engineVars, enqueuing,
                     working, Enqueued
<1>11. ASSUME NEW x \in Clients, CallFails(x) PROVE (Rest /\ Enqueued)'
  BY <1>2, <1>11 DEF CallFails, Abort, engineVars, enqueuing, working, Enqueued
<1>12. ASSUME Crash PROVE (Rest /\ Enqueued)'
  BY <1>2, <1>12 DEF Crash, enqueuing, Enqueued
<1>13. (Rest /\ Enqueued)'
  BY <1>3, <1>4, <1>5, <1>6, <1>7, <1>8, <1>9, <1>10, <1>11, <1>12 DEF EngineNext
<1> QED  BY <1>0, <1>1, <1>13 DEF EInv, EngineTypeOK

LEMMA InitEInv == EngineInit => EInv
<1> SUFFICES ASSUME EngineInit PROVE EInv
  OBVIOUS
<1>1. IInv /\ fresh = Items
  BY InitIInv DEF EngineInit, Init
<1> QED  BY <1>1 DEF EngineInit, EInv, EngineTypeOK, IInv, Enqueued

-----------------------------------------------------------------------------
(* The engine beside what watches it.                                      *)

LEMMA EngineOfMonitored == MonitoredSpec => EngineSpec
<1>1. MonitoredInit => EngineInit
  BY DEF MonitoredInit
<1>2. [MonitoredNext]_monitoredVars => [EngineNext]_allVars
  BY DEF MonitoredNext, monitoredVars, EngineStep, CollectorStep, DashboardStep
<1> QED  BY <1>1, <1>2, PTL DEF MonitoredSpec, EngineSpec

\* However often the process dies and whatever the workers do, the variables keep their types
\* (an item that is run was enqueued for an execution) and no item is run more often than its
\* budget of retries says.
THEOREM RunsAreTyped ==
  ASSUME NEW d, NEW c, OneEach(d, c), MaxRetries > 0
  PROVE  MonitoredSpec => []RunsAreBounded
<1>1. EngineSpec => []RunsBounded
  BY RunsArePaid, EngineAssumption
<1>2. ASSUME RInv, HInv, EInv, [EngineNext]_allVars PROVE RInv' /\ HInv' /\ EInv'
  BY <1>2, NextHInv, NextEInv, EngineAssumption
<1>3. EInv /\ RunsBounded => RunsAreBounded
  BY DEF EInv, RunsAreBounded
<1> QED  BY <1>1, <1>2, <1>3, EngineOfMonitored, InitHInv, InitEInv, EngineAssumption, PTL
         DEF EngineSpec

\* No item is run by two workers at once or waits while it runs, and a crash at any moment
\* loses nothing that the engine has taken off the queue.
THEOREM HeldSafely ==
  ASSUME NEW d, NEW c, OneEach(d, c)
  PROVE  MonitoredSpec => []HeldOnceAndRecorded
<1>1. EngineSpec => []NoConcurrentRuns /\ []CrashSafe
  BY NothingRunsTwiceAtOnce, CrashLosesNothing, EngineAssumption
<1>2. NoConcurrentRuns /\ CrashSafe => HeldOnceAndRecorded
  BY DEF HeldOnceAndRecorded
<1> QED  BY <1>1, <1>2, EngineOfMonitored, PTL

-----------------------------------------------------------------------------
(* The collector.                                                          *)

\* A place of a goroutine changes what is counted there by one.
LEMMA OneMember ==
  ASSUME NEW S, NEW T, NEW x, IsFiniteSet(S), S \ {x} = T \ {x}
  PROVE  /\ IsFiniteSet(T) /\ Cardinality(S) \in Nat
         /\ Cardinality(T) = Cardinality(S) + (IF x \in T THEN 1 ELSE 0) - (IF x \in S THEN 1 ELSE 0)
<1>1. /\ IsFiniteSet(S \ {x}) /\ Cardinality(S) \in Nat
      /\ Cardinality(S \ {x}) = IF x \in S THEN Cardinality(S) - 1 ELSE Cardinality(S)
  BY FS_RemoveElement, FS_CardinalityType
<1>2. /\ IsFiniteSet((S \ {x}) \cup {x})
      /\ Cardinality((S \ {x}) \cup {x}) = Cardinality(S \ {x}) + 1
  BY <1>1, FS_AddElement
<1>3. CASE x \in T
  <2>1. T = (S \ {x}) \cup {x}
    BY <1>3
  <2>2. IsFiniteSet(T) /\ Cardinality(T) = Cardinality(S \ {x}) + 1
    BY ONLY <2>1, <1>2
  <2> QED  BY <1>1, <1>3, <2>2
<1>4. CASE x \notin T
  <2>1. T = S \ {x}
    BY <1>4
  <2>2. IsFiniteSet(T) /\ Cardinality(T) = Cardinality(S \ {x})
    BY ONLY <2>1, <1>1
  <2> QED  BY <1>1, <1>4, <2>2
<1> QED  BY <1>3, <1>4

\* Those that counted a failure and have not told the action yet.
Failing == {x \in Workers : Collector!At(x, "action") /\ ~call[x].success}

\* What the counters and the figures say of each other while no reset runs.
Told ==
    /\ counters.processed = counters.succeeded + counters.failed
                            + Cardinality(Collector!In({"time", "outcome"}))
    /\ counters.failed = (IF action = None THEN 0 ELSE action.tasks.bad) + Cardinality(Failing)
    /\ counters.processed = (IF action = None THEN 0 ELSE Collector!Count(action.tasks))
                            + Cardinality(Collector!In({"time", "outcome", "action"}))
    /\ counters.processed = Collector!Count(hourly) + Cardinality(Collector!Recording)

\* And while resets run, which met no recording: each has cleared what it has passed.
Cleared ==
    /\ Collector!Recording = {} /\ counters.processed = 0
    /\ \A x \in Workers :
           /\ Collector!At(x, "clear") \/ Collector!At(x, "clear2") =>
                  counters.succeeded = 0 /\ counters.failed = 0
           /\ Collector!At(x, "clear2") => action = None

Summed ==
    IF action = None THEN retries = 0
    ELSE
        /\ action.count = Collector!Count(action.tasks) + retries /\ action.count > 0
        /\ action.total <= action.max * action.count
        /\ action.avg <= action.max /\ action.min <= action.max

\* What is being recorded took the time of a task.
Timed == \A x \in Collector!Recording : call[x].duration \in Durations

TallyInv ==
    /\ Collector!TypeOK /\ Timed
    /\ IsFiniteSet(Collector!Recording)
    /\ ~torn => IF Collector!Resetting = {} THEN Told ELSE Cleared
    /\ Summed
    /\ Collector!RatesAreRates

\* What a step of one goroutine does to the numbers of those that are recording.
LEMMA OneMoves ==
  ASSUME NEW x \in Workers, IsFiniteSet(Collector!Recording),
         \A y \in Workers : y # x => call'[y] = call[y]
  PROVE  LET Step(S, T) == /\ Cardinality(S) \in Nat
                           /\ Cardinality(T) = Cardinality(S) + (IF x \in T THEN 1 ELSE 0)
                                                              - (IF x \in S THEN 1 ELSE 0)
         IN  /\ IsFiniteSet(Collector!Recording')
             /\ Step(Collector!In({"time", "outcome"}), Collector!In({"time", "outcome"})')
             /\ Step(Collector!In({"time", "outcome", "action"}),
                     Collector!In({"time", "outcome", "action"})')
             /\ Step(Collector!Recording, Collector!Recording')
             /\ Step(Failing, Failing')
<1> DEFINE
      R == Collector!Recording
      A == Collector!In({"time", "outcome"})
      B == Collector!In({"time", "outcome", "action"})
<1>1. /\ R \ {x} = R' \ {x} /\ A \ {x} = A' \ {x} /\ B \ {x} = B' \ {x}
      /\ Failing \ {x} = Failing' \ {x}
  BY DEF Collector!Recording, Collector!In, Failing, Collector!At
<1>2. IsFiniteSet(R) /\ IsFiniteSet(A) /\ IsFiniteSet(B) /\ IsFiniteSet(Failing)
  <2>1. A \in SUBSET R /\ B \in SUBSET R /\ Failing \in SUBSET R
    BY DEF Collector!Recording, Collector!In, Failing, Collector!At
  <2> QED  BY <2>1, FS_Subset
<1>3. IsFiniteSet(R') /\ Cardinality(R) \in Nat
      /\ Cardinality(R') = Cardinality(R) + (IF x \in R' THEN 1 ELSE 0) - (IF x \in R THEN 1 ELSE 0)
  BY <1>1, <1>2, OneMember
<1>4. Cardinality(A) \in Nat
      /\ Cardinality(A') = Cardinality(A) + (IF x \in A' THEN 1 ELSE 0) - (IF x \in A THEN 1 ELSE 0)
  BY <1>1, <1>2, OneMember
<1>5. Cardinality(B) \in Nat
      /\ Cardinality(B') = Cardinality(B) + (IF x \in B' THEN 1 ELSE 0) - (IF x \in B THEN 1 ELSE 0)
  BY <1>1, <1>2, OneMember
<1>6. Cardinality(Failing) \in Nat
      /\ Cardinality(Failing') = Cardinality(Failing) + (IF x \in Failing' THEN 1 ELSE 0)
                                                      - (IF x \in Failing THEN 1 ELSE 0)
  BY <1>1, <1>2, OneMember
<1> QED  BY <1>3, <1>4, <1>5, <1>6

\* A step of one goroutine touches its own call only; the other steps touch no call.
LEMMA OthersStay ==
  ASSUME NEW x \in Workers, Collector!TypeOK, Collector!Step(x)
  PROVE  \A y \in Workers : y # x => call'[y] = call[y]
<1>1. \E r : call' = [call EXCEPT ![x] = r]
  BY DEF Collector!Step, Collector!RecordTaskProcessed, Collector!AddTime, Collector!AddOutcome,
         Collector!UpdateActionMetrics, Collector!UpdateTemporalStats, Collector!ResetMetrics,
         Collector!ResetCounters, Collector!ResetActions, Collector!ResetTemporal,
         Collector!GetMetrics, Collector!GetSuccessRate, Collector!CheckHealth, Collector!Loaded,
         Collector!Reply, Collector!Begin, Collector!Go, Collector!End
<1> QED  BY <1>1 DEF Collector!TypeOK

LEMMA RateTyped ==
  ASSUME NEW m \in Nat, NEW n \in Nat
  PROVE  /\ Collector!Rate(m, n) \in Nat
         /\ (n = 0 \/ m <= n) => Collector!Rate(m, n) <= 100
<1>1. CASE n = 0
  BY <1>1 DEF Collector!Rate
<1>2. CASE n # 0
  <2>1. /\ (m * 100) \div n \in Nat
        /\ m <= n => (m * 100) \div n <= 100
    BY <1>2, SMTT(60)
  <2> QED  BY <1>2, <2>1 DEF Collector!Rate
<1> QED  BY <1>1, <1>2

LEMMA AverageBounded ==
  ASSUME NEW t \in Nat, NEW n \in Nat \ {0}, NEW m \in Nat, t <= m * n
  PROVE  t \div n \in Nat /\ t \div n <= m
BY SMTT(60)

LEMMA OfTwo ==
  ASSUME NEW a \in Nat, NEW b \in Nat
  PROVE  /\ Collector!Min({a, b}) \in {a, b} /\ Collector!Min({a, b}) <= a /\ Collector!Min({a, b}) <= b
         /\ Collector!Max({a, b}) \in {a, b} /\ Collector!Max({a, b}) >= a /\ Collector!Max({a, b}) >= b
<1>1. /\ \E z \in {a, b} : \A y \in {a, b} : z <= y
      /\ \E z \in {a, b} : \A y \in {a, b} : z >= y
  OBVIOUS
<1> QED  BY <1>1 DEF Collector!Min, Collector!Max

LEMMA AddTaskTyped ==
  ASSUME Collector!TaskMetricsAssumption,
         NEW tasks \in Collector!Tasks \cup {None}, NEW ok \in BOOLEAN
  PROVE  LET added == Collector!AddTask(tasks, ok)
         IN  /\ added \in Collector!Tasks
             /\ Collector!Count(tasks) \in Nat
             /\ Collector!Count(added) = Collector!Count(tasks) + 1
             /\ added.bad = (IF tasks = None THEN 0 ELSE tasks.bad) + (IF ok THEN 0 ELSE 1)
<1> DEFINE t == IF tasks = None THEN Collector!NoTasks ELSE tasks
           added == Collector!AddTask(tasks, ok)
<1>1. /\ t \in Collector!Tasks /\ Collector!Count(tasks) = t.ok + t.bad
      /\ t.bad = IF tasks = None THEN 0 ELSE tasks.bad
  BY DEF Collector!NoTasks, Collector!Tasks, Collector!Count
<1>2. added = IF ok THEN [t EXCEPT !.ok = @ + 1] ELSE [t EXCEPT !.bad = @ + 1]
  BY DEF Collector!AddTask
<1>3. /\ added \in Collector!Tasks /\ added.ok + added.bad = t.ok + t.bad + 1
      /\ added.bad = t.bad + (IF ok THEN 0 ELSE 1)
  BY <1>1, <1>2 DEF Collector!Tasks
<1>4. added # None
  BY <1>3 DEF Collector!TaskMetricsAssumption
<1> QED  BY <1>1, <1>3, <1>4 DEF Collector!Count, Collector!Tasks

LEMMA TotalGrows ==
  ASSUME NEW t \in Nat, NEW n \in Nat, NEW m \in Nat, NEW k \in Nat, NEW d \in Nat,
         t <= m * n, m <= k, d <= k
  PROVE  t + d <= k * (n + 1)
<1>1. m * n <= k * n /\ k * (n + 1) = k * n + k /\ m * n \in Nat /\ k * n \in Nat
  BY SMTT(60)
<1> QED  BY <1>1

\* A task that is told to the action: the figures keep adding up.
LEMMA NewAction ==
  ASSUME Collector!TaskMetricsAssumption, Collector!TypeOK, Timed,
         NEW x \in Workers, Collector!UpdateActionMetrics(x)
  PROVE  /\ action' \in Collector!Actions
         /\ Collector!Count(action'.tasks) =
                (IF action = None THEN 0 ELSE Collector!Count(action.tasks)) + 1
         /\ action'.tasks.bad = (IF action = None THEN 0 ELSE action.tasks.bad)
                                + (IF call[x].success THEN 0 ELSE 1)
         /\ Summed => Summed'
<1> DEFINE
      d == call[x].duration
      ok == call[x].success
      old == IF action # None THEN action
             ELSE [count |-> 0, tasks |-> Collector!NoTasks, total |-> 0, min |-> d, max |-> d, avg |-> 0]
      top == Collector!Max({old.max, d})
      low == Collector!Min({old.min, d})
      tasks == Collector!AddTask(old.tasks, ok)
<1>1. call[x] \in Collector!Calls
  BY DEF Collector!UpdateActionMetrics, Collector!At, Collector!TypeOK
<1>2. d \in Durations /\ d \in Nat /\ ok \in BOOLEAN
  BY <1>1 DEF Collector!Calls, Timed, Collector!Recording, Collector!In, Collector!At,
              Collector!UpdateActionMetrics
<1>3. /\ old.count \in Nat /\ old.tasks \in Collector!Tasks /\ old.total \in Nat
      /\ old.min \in Durations /\ old.max \in Durations /\ Durations \subseteq Nat
      /\ action # None => old = action
      /\ action = None => /\ old.tasks = Collector!NoTasks /\ old.count = 0 /\ old.total = 0
                          /\ old.max = d /\ old.min = d
  BY <1>2 DEF Collector!TypeOK, Collector!Actions, Collector!NoTasks, Collector!Tasks,
              Collector!TaskMetricsAssumption
<1>4. /\ top \in Nat /\ top >= old.max /\ top >= d /\ low \in Nat /\ low <= old.min /\ low <= d
      /\ top \in {old.max, d} /\ low \in {old.min, d}
  BY <1>2, <1>3, OfTwo
<1>5. action' = [count |-> old.count + 1, tasks |-> tasks, total |-> old.total + d,
                 min |-> low, max |-> top, avg |-> (old.total + d) \div (old.count + 1)]
  BY DEF Collector!UpdateActionMetrics
<1>6. /\ tasks \in Collector!Tasks
      /\ Collector!Count(old.tasks) \in Nat
      /\ Collector!Count(tasks) = Collector!Count(old.tasks) + 1
      /\ tasks.bad = old.tasks.bad + (IF ok THEN 0 ELSE 1)
  <2>1. old.tasks # None
    BY <1>3 DEF Collector!TaskMetricsAssumption
  <2> QED  BY <1>2, <1>3, <2>1, AddTaskTyped
<1>7. /\ old.tasks.bad = IF action = None THEN 0 ELSE action.tasks.bad
      /\ Collector!Count(old.tasks) = IF action = None THEN 0 ELSE Collector!Count(action.tasks)
  <2>1. Collector!NoTasks # None /\ Collector!NoTasks.bad = 0 /\ Collector!NoTasks.ok = 0
    BY DEF Collector!TaskMetricsAssumption, Collector!NoTasks, Collector!Tasks
  <2> QED  BY <1>3, <2>1 DEF Collector!Count
<1>8. action' \in Collector!Actions
  BY <1>2, <1>3, <1>4, <1>5, <1>6 DEF Collector!Actions
<1>9. ASSUME Summed PROVE Summed'
  <2>1. /\ old.count = Collector!Count(old.tasks) + retries /\ retries \in Nat
        /\ old.total <= old.max * old.count /\ old.min <= old.max
    <3>1. CASE action = None
      BY <1>2, <1>3, <1>7, <1>9, <3>1 DEF Summed
    <3>2. CASE action # None
      BY <1>3, <1>9, <3>2 DEF Summed, Collector!TypeOK
    <3> QED  BY <3>1, <3>2
  <2>2. old.total + d <= top * (old.count + 1)
    BY <1>2, <1>3, <1>4, <2>1, TotalGrows
  <2>3. action'.avg <= action'.max
    <3>1. /\ old.total + d \in Nat /\ old.count + 1 \in Nat \ {0} /\ top \in Nat
      BY <1>2, <1>3, <1>4
    <3>2. (old.total + d) \div (old.count + 1) <= top
      BY <2>2, <3>1, AverageBounded
    <3> QED  BY <1>5, <3>2
  <2>4. retries' = retries /\ action' # None
    BY <1>8 DEF Collector!UpdateActionMetrics, Collector!history, Collector!TaskMetricsAssumption
  <2>5. /\ action'.count = old.count + 1 /\ action'.tasks = tasks /\ action'.total = old.total + d
        /\ action'.max = top /\ action'.min = low
    BY <1>5
  <2>6. action'.count = Collector!Count(action'.tasks) + retries /\ action'.count > 0
    BY <1>3, <1>6, <2>1, <2>5
  <2> QED  BY <1>3, <1>4, <2>1, <2>2, <2>3, <2>4, <2>5, <2>6 DEF Summed
<1> QED  BY <1>5, <1>6, <1>7, <1>8, <1>9

LEMMA CollectorTyped ==
  ASSUME Collector!TaskMetricsAssumption, Collector!TypeOK, Timed, [Collector!Next]_(Collector!vars)
  PROVE  Collector!TypeOK'
<1> USE DEF Collector!TypeOK, Collector!figures, Collector!history
<1> DEFINE Others == /\ hourly' \in Collector!Tasks \cup {None}
                     /\ daily' \in [Collector!Days -> Collector!Tasks \cup {None}]
<1>1. CASE UNCHANGED Collector!vars
  BY <1>1 DEF Collector!vars
<1>2. CASE Collector!RecordTaskRetried
  <2>1. counters' \in Collector!Counters /\ action' \in Collector!Actions \cup {None} /\ retries' \in Nat
    BY <1>2 DEF Collector!RecordTaskRetried, Collector!Counters, Collector!Actions
  <2> QED  BY <1>2, <2>1 DEF Collector!RecordTaskRetried
<1>3. CASE Collector!CleanupOldStats
  BY <1>3 DEF Collector!CleanupOldStats
<1>4. CASE Collector!Tick
  BY <1>4 DEF Collector!Tick, Collector!Days, Collector!TaskMetricsAssumption
<1>5. ASSUME NEW x \in Workers, Collector!Step(x) PROVE Collector!TypeOK'
  <2>1. CASE Collector!RecordTaskProcessed(x)
    <3>1. counters' \in Collector!Counters
      BY <2>1 DEF Collector!RecordTaskProcessed, Collector!Counters
    <3>2. call' \in [Workers -> Collector!Calls \cup {None}]
      BY <2>1 DEF Collector!RecordTaskProcessed, Collector!Begin, Collector!Calls,
                  Collector!TaskMetricsAssumption
    <3> QED  BY <2>1, <3>1, <3>2 DEF Collector!RecordTaskProcessed
  <2>2. CASE \E at : Collector!At(x, at)
    <3> DEFINE c == call[x]
    <3>0. c \in Collector!Calls
      BY <2>2 DEF Collector!At
    <3>1. CASE Collector!AddTime(x)
      <4>1. counters' \in Collector!Counters
        BY <3>0, <3>1 DEF Collector!AddTime, Collector!Counters, Collector!Calls
      <4>2. call' \in [Workers -> Collector!Calls \cup {None}]
        BY <3>0, <3>1 DEF Collector!AddTime, Collector!Go, Collector!Calls
      <4> QED  BY <3>1, <4>1, <4>2 DEF Collector!AddTime
    <3>2. CASE Collector!AddOutcome(x)
      <4>1. counters' \in Collector!Counters
        BY <3>0, <3>2 DEF Collector!AddOutcome, Collector!Counters
      <4>2. call' \in [Workers -> Collector!Calls \cup {None}]
        BY <3>0, <3>2 DEF Collector!AddOutcome, Collector!Go, Collector!Calls
      <4> QED  BY <3>2, <4>1, <4>2 DEF Collector!AddOutcome
    <3>3. CASE Collector!UpdateTemporalStats(x)
      <4>1. hourly' \in Collector!Tasks
        BY <3>0, <3>3, AddTaskTyped DEF Collector!UpdateTemporalStats, Collector!Calls
      <4>2. Collector!AddTask(daily[day], call[x].success) \in Collector!Tasks
        BY <3>0, AddTaskTyped DEF Collector!Calls
      <4>3. daily' \in [Collector!Days -> Collector!Tasks \cup {None}]
        BY <3>3, <4>2 DEF Collector!UpdateTemporalStats
      <4> QED  BY <3>3, <4>1, <4>3 DEF Collector!UpdateTemporalStats, Collector!End
    <3>4. CASE Collector!ResetCounters(x)
      <4>1. counters' \in Collector!Counters
        BY <3>4 DEF Collector!ResetCounters, Collector!Counters, Collector!NoCounts
      <4>2. call' \in [Workers -> Collector!Calls \cup {None}]
        BY <3>0, <3>4 DEF Collector!ResetCounters, Collector!Go, Collector!Calls
      <4> QED  BY <3>4, <4>1, <4>2 DEF Collector!ResetCounters
    <3>5. CASE Collector!ResetActions(x)
      <4>2. call' \in [Workers -> Collector!Calls \cup {None}]
        BY <3>0, <3>5 DEF Collector!ResetActions, Collector!Go, Collector!Calls
      <4> QED  BY <3>5, <4>2 DEF Collector!ResetActions
    <3>6. CASE Collector!ResetTemporal(x)
      BY <3>6 DEF Collector!ResetTemporal, Collector!End
    <3>7. CASE Collector!Reply(x)
      BY <3>7 DEF Collector!Reply, Collector!End
    <3>8. CASE Collector!GetSuccessRate(x) \/ Collector!CheckHealth(x)
      <4>1. PICK m \in Nat : Collector!Loaded(x, m)
        BY <3>8 DEF Collector!GetSuccessRate, Collector!CheckHealth, Collector!Counters
      <4>2. Collector!Rate(m, c.seen) \in Nat
        BY <3>0, RateTyped DEF Collector!Calls
      <4>3. call' \in [Workers -> Collector!Calls \cup {None}]
        BY <3>0, <4>1, <4>2 DEF Collector!Loaded, Collector!Calls
      <4> QED  BY <4>1, <4>3 DEF Collector!Loaded
    <3>9. CASE Collector!UpdateActionMetrics(x)
      <4>1. call' \in [Workers -> Collector!Calls \cup {None}]
        BY <3>0, <3>9 DEF Collector!UpdateActionMetrics, Collector!Go, Collector!Calls
      <4>2. action' \in Collector!Actions
        BY <3>0, <3>9, NewAction
      <4> QED  BY <3>9, <4>1, <4>2 DEF Collector!UpdateActionMetrics
    <3> QED  BY <1>5, <2>2, <3>1, <3>2, <3>3, <3>4, <3>5, <3>6, <3>7, <3>8, <3>9
             DEF Collector!Step, Collector!RecordTaskProcessed, Collector!ResetMetrics,
                 Collector!GetMetrics, Collector!Begin, Collector!At
  <2>3. CASE Collector!ResetMetrics(x)
    <3>1. counters' \in Collector!Counters
      BY <2>3 DEF Collector!ResetMetrics, Collector!Counters
    <3>2. call' \in [Workers -> Collector!Calls \cup {None}]
      BY <2>3 DEF Collector!ResetMetrics, Collector!Begin, Collector!Calls
    <3> QED  BY <2>3, <3>1, <3>2 DEF Collector!ResetMetrics
  <2>4. CASE Collector!GetMetrics(x)
    <3>1. call' \in [Workers -> Collector!Calls \cup {None}]
      BY <2>4 DEF Collector!GetMetrics, Collector!Calls, Collector!Counters
    <3> QED  BY <2>4, <3>1 DEF Collector!GetMetrics
  <2> QED  BY <1>5, <2>1, <2>2, <2>3, <2>4
           DEF Collector!Step, Collector!AddTime, Collector!AddOutcome, Collector!UpdateActionMetrics,
               Collector!UpdateTemporalStats, Collector!ResetCounters, Collector!ResetActions,
               Collector!ResetTemporal, Collector!GetSuccessRate, Collector!CheckHealth,
               Collector!Loaded, Collector!Reply
<1> QED  BY <1>1, <1>2, <1>3, <1>4, <1>5 DEF Collector!Next

\* A step of the collector that is no goroutine's touches no call.
LEMMA QuietSteps ==
  ASSUME \/ UNCHANGED Collector!vars \/ Collector!RecordTaskRetried
         \/ Collector!CleanupOldStats \/ Collector!Tick
  PROVE  /\ call' = call /\ torn' = torn /\ started' = started /\ hourly' = hourly
         /\ counters' = [counters EXCEPT !.retried = @ + 1] \/ counters' = counters
         /\ ~Collector!RecordTaskRetried => action' = action /\ retries' = retries
BY DEF Collector!vars, Collector!figures, Collector!history, Collector!RecordTaskRetried,
       Collector!CleanupOldStats, Collector!Tick

LEMMA CollectorTimed ==
  ASSUME Collector!TaskMetricsAssumption, Collector!TypeOK, Timed, [Collector!Next]_(Collector!vars)
  PROVE  Timed'
<1>1. ASSUME NEW x \in Workers, Collector!Step(x) PROVE Timed'
  <2>1. \A y \in Workers : y # x => call'[y] = call[y]
    BY <1>1, OthersStay
  <2>2. ASSUME x \in Collector!Recording' PROVE call'[x].duration \in Durations
    <3>1. CASE Collector!RecordTaskProcessed(x)
      BY <3>1 DEF Collector!RecordTaskProcessed, Collector!Begin, Collector!TypeOK
    <3>2. CASE Collector!AddTime(x) \/ Collector!AddOutcome(x) \/ Collector!UpdateActionMetrics(x)
      <4>1. x \in Collector!Recording /\ call[x] \in Collector!Calls
        BY <3>2 DEF Collector!AddTime, Collector!AddOutcome, Collector!UpdateActionMetrics,
                    Collector!Recording, Collector!In, Collector!At, Collector!TypeOK
      <4>2. call'[x].duration = call[x].duration
        BY <3>2, <4>1 DEF Collector!AddTime, Collector!AddOutcome, Collector!UpdateActionMetrics,
                          Collector!Go, Collector!Calls, Collector!TypeOK
      <4> QED  BY <4>1, <4>2 DEF Timed
    <3>3. CASE \/ Collector!UpdateTemporalStats(x) \/ Collector!ResetTemporal(x) \/ Collector!Reply(x)
      BY <2>2, <3>3 DEF Collector!UpdateTemporalStats, Collector!ResetTemporal, Collector!Reply,
                        Collector!End, Collector!Recording, Collector!In, Collector!TypeOK
    <3>4. CASE \/ Collector!ResetMetrics(x) \/ Collector!ResetCounters(x) \/ Collector!ResetActions(x)
               \/ Collector!GetMetrics(x) \/ Collector!GetSuccessRate(x) \/ Collector!CheckHealth(x)
      <4>1. CASE Collector!ResetMetrics(x) \/ Collector!GetMetrics(x)
        BY <2>2, <4>1 DEF Collector!ResetMetrics, Collector!GetMetrics, Collector!Begin,
                          Collector!Recording, Collector!In, Collector!TypeOK
      <4>2. CASE \E at : Collector!At(x, at)
        <5>1. call[x] \in Collector!Calls
          BY <4>2 DEF Collector!At, Collector!TypeOK
        <5>2. call'[x].at \in {"zero", "clear", "clear2", "load", "loaded"}
          BY <3>4, <4>2, <5>1 DEF Collector!ResetMetrics, Collector!ResetCounters,
                    Collector!ResetActions, Collector!GetMetrics, Collector!GetSuccessRate,
                    Collector!CheckHealth, Collector!Begin, Collector!Go, Collector!Loaded,
                    Collector!At, Collector!Calls, Collector!TypeOK
        <5> QED  BY <2>2, <5>2 DEF Collector!Recording, Collector!In
      <4> QED  BY <3>4, <4>1, <4>2 DEF Collector!ResetCounters, Collector!ResetActions,
                    Collector!GetSuccessRate, Collector!CheckHealth, Collector!Loaded
    <3> QED  BY <1>1, <3>1, <3>2, <3>3, <3>4 DEF Collector!Step
  <2> QED  BY <2>1, <2>2 DEF Timed, Collector!Recording, Collector!In
<1>2. ASSUME ~\E x \in Workers : Collector!Step(x) PROVE Timed'
  BY <1>2, QuietSteps DEF Collector!Next, Timed, Collector!Recording, Collector!In
<1> QED  BY <1>1, <1>2

LEMMA CollectorSummed ==
  ASSUME Collector!TaskMetricsAssumption, Collector!TypeOK, Timed, Summed,
         [Collector!Next]_(Collector!vars)
  PROVE  Summed'
<1>1. CASE Collector!RecordTaskRetried
  <2>1. CASE action = None
    BY <1>1, <2>1 DEF Collector!RecordTaskRetried, Summed
  <2>2. CASE action # None
    <3>1. action \in Collector!Actions /\ retries \in Nat
      BY <2>2 DEF Collector!TypeOK
    <3>2. /\ action' = [action EXCEPT !.count = @ + 1] /\ retries' = retries + 1
      BY <1>1, <2>2 DEF Collector!RecordTaskRetried
    <3>3. /\ action' # None /\ action'.count = action.count + 1 /\ action'.tasks = action.tasks
          /\ action'.total = action.total /\ action'.max = action.max /\ action'.min = action.min
          /\ action'.avg = action.avg
      BY <3>1, <3>2 DEF Collector!Actions, Collector!TaskMetricsAssumption
    <3>4. action.total + 0 <= action.max * (action.count + 1)
      <4>1. action.total \in Nat /\ action.count \in Nat /\ action.max \in Nat
        BY <3>1 DEF Collector!Actions, Collector!TaskMetricsAssumption
      <4>2. action.total <= action.max * action.count /\ action.max <= action.max /\ 0 <= action.max
        BY <2>2, <4>1 DEF Summed
      <4> QED  BY <4>1, <4>2, TotalGrows
    <3>5. Collector!Count(action.tasks) \in Nat
      BY <3>1, AddTaskTyped DEF Collector!Actions
    <3> QED  BY <2>2, <3>1, <3>2, <3>3, <3>4, <3>5
             DEF Summed, Collector!Actions, Collector!TaskMetricsAssumption
  <2> QED  BY <2>1, <2>2
<1>2. CASE \E x \in Workers : Collector!UpdateActionMetrics(x)
  BY <1>2, NewAction
<1>3. CASE \E x \in Workers : Collector!ResetActions(x)
  BY <1>3 DEF Collector!ResetActions, Summed
<1>4. CASE action' = action /\ retries' = retries
  BY <1>4 DEF Summed
<1>5. ASSUME NEW x \in Workers, Collector!Step(x),
             ~Collector!UpdateActionMetrics(x), ~Collector!ResetActions(x)
      PROVE  action' = action /\ retries' = retries
  BY <1>5 DEF Collector!Step, Collector!RecordTaskProcessed, Collector!AddTime, Collector!AddOutcome,
              Collector!UpdateTemporalStats, Collector!ResetMetrics, Collector!ResetCounters,
              Collector!ResetTemporal, Collector!GetMetrics, Collector!GetSuccessRate,
              Collector!CheckHealth, Collector!Loaded, Collector!Reply,
              Collector!figures, Collector!history
<1> QED  BY <1>1, <1>2, <1>3, <1>4, <1>5, QuietSteps DEF Collector!Next

-----------------------------------------------------------------------------
LEMMA TornStays ==
  ASSUME [Collector!Next]_(Collector!vars), torn
  PROVE  torn'
<1>1. ASSUME NEW x \in Workers, Collector!Step(x) PROVE torn'
  <2>1. CASE torn' = torn
    BY <2>1
  <2>2. CASE Collector!RecordTaskProcessed(x) \/ Collector!ResetMetrics(x)
    BY <2>2 DEF Collector!RecordTaskProcessed, Collector!ResetMetrics
  <2> QED
    BY <1>1, <2>1, <2>2 DEF Collector!Step, Collector!AddTime, Collector!AddOutcome,
       Collector!UpdateActionMetrics, Collector!UpdateTemporalStats, Collector!ResetCounters,
       Collector!ResetActions, Collector!ResetTemporal, Collector!GetMetrics,
       Collector!GetSuccessRate, Collector!CheckHealth, Collector!Loaded, Collector!Reply,
       Collector!history
<1> QED  BY <1>1, QuietSteps DEF Collector!Next

\* A rate is worked out from two loads: below 100 when nothing moved between them.
LEMMA CollectorRates ==
  ASSUME Collector!TaskMetricsAssumption, TallyInv, [Collector!Next]_(Collector!vars)
  PROVE  Collector!RatesAreRates'
<1>1. Collector!TypeOK /\ IsFiniteSet(Collector!Recording)
  BY DEF TallyInv
<1>2. /\ torn => torn'
      /\ call' # call => \E x \in Workers : Collector!Step(x)
  BY TornStays, QuietSteps DEF Collector!Next
<1>3. ASSUME NEW x \in Workers, Collector!At(x, "loaded")', call'[x] = call[x], ~torn', ~call'[x].moved
      PROVE  call'[x].rate <= 100
  BY <1>2, <1>3 DEF TallyInv, Collector!RatesAreRates, Collector!At
<1>4. ASSUME NEW x \in Workers, Collector!GetSuccessRate(x) \/ Collector!CheckHealth(x),
             ~torn', ~call'[x].moved
      PROVE  call'[x].rate <= 100
  <2>1. PICK m \in {counters.succeeded, counters.failed} : Collector!Loaded(x, m)
    BY <1>4 DEF Collector!GetSuccessRate, Collector!CheckHealth
  <2>2. call[x] \in Collector!Calls
    BY <1>1, <2>1 DEF Collector!Loaded, Collector!At, Collector!TypeOK
  <2>3. /\ call'[x].rate = Collector!Rate(m, call[x].seen)
        /\ call'[x].moved = (counters.processed # call[x].seen)
        /\ torn' = torn
    BY <1>1, <2>1, <2>2 DEF Collector!Loaded, Collector!TypeOK, Collector!Calls, Collector!history
  <2>4. counters.processed = call[x].seen
    BY <1>4, <2>3
  <2>5. m \in Nat /\ counters.processed \in Nat /\ counters.succeeded \in Nat /\ counters.failed \in Nat
    BY <1>1 DEF Collector!TypeOK, Collector!Counters
  <2>6. counters.processed = 0 \/ m <= counters.processed
    <3>1. CASE Told
      <4>1. Cardinality(Collector!In({"time", "outcome"})) \in Nat
        <5>1. Collector!In({"time", "outcome"}) \in SUBSET Collector!Recording
          BY DEF Collector!In, Collector!Recording
        <5> QED  BY <1>1, <5>1, FS_Subset, FS_CardinalityType
      <4> QED  BY <2>5, <3>1, <4>1 DEF Told
    <3> QED  BY <1>4, <2>3, <3>1 DEF TallyInv, Cleared
  <2> QED  BY <2>3, <2>4, <2>5, <2>6, RateTyped
<1>5. ASSUME NEW y \in Workers, NEW x \in Workers, Collector!Step(x), Collector!At(y, "loaded")'
      PROVE  call'[y] = call[y] \/ (y = x /\ (Collector!GetSuccessRate(x) \/ Collector!CheckHealth(x)))
  <2>1. CASE y # x
    BY <1>1, <1>5, <2>1, OthersStay
  <2>2. CASE y = x /\ call[x] = None
    BY <1>1, <1>5, <2>2 DEF Collector!Step, Collector!RecordTaskProcessed, Collector!ResetMetrics,
         Collector!GetMetrics, Collector!Begin, Collector!AddTime, Collector!AddOutcome,
         Collector!UpdateActionMetrics, Collector!UpdateTemporalStats, Collector!ResetCounters,
         Collector!ResetActions, Collector!ResetTemporal, Collector!Loaded, Collector!GetSuccessRate,
         Collector!CheckHealth, Collector!Reply, Collector!At, Collector!TypeOK
  <2>3. CASE y = x /\ call[x] # None
    <3>1. call[x] \in Collector!Calls
      BY <1>1, <2>3 DEF Collector!TypeOK
    <3> QED
      BY <1>1, <1>5, <2>3, <3>1 DEF Collector!Step, Collector!RecordTaskProcessed,
         Collector!ResetMetrics, Collector!GetMetrics, Collector!Begin, Collector!AddTime,
         Collector!AddOutcome, Collector!UpdateActionMetrics, Collector!UpdateTemporalStats,
         Collector!ResetCounters, Collector!ResetActions, Collector!ResetTemporal,
         Collector!Reply, Collector!Go, Collector!End, Collector!At, Collector!Calls, Collector!TypeOK
  <2> QED  BY <2>1, <2>2, <2>3
<1> QED  BY <1>2, <1>3, <1>4, <1>5 DEF Collector!RatesAreRates, Collector!At

-----------------------------------------------------------------------------
\* The tallies, one step of a recording after the other.
LEMMA RecordingTold ==
  ASSUME Collector!TaskMetricsAssumption, TallyInv, NEW x \in Workers, Collector!Step(x), ~torn',
         Collector!Resetting = {}, Collector!Resetting' = {}
  PROVE  Told'
<1> DEFINE
      R == Collector!Recording
      A == Collector!In({"time", "outcome"})
      B == Collector!In({"time", "outcome", "action"})
      Step(S, T) == Cardinality(T) = Cardinality(S) + (IF x \in T THEN 1 ELSE 0)
                                                    - (IF x \in S THEN 1 ELSE 0)
<1>1. /\ Collector!TypeOK /\ Timed /\ IsFiniteSet(R) /\ Told
      /\ counters \in Collector!Counters
  BY TornStays DEF TallyInv, Collector!TypeOK, Collector!Next
<1>2. /\ Step(A, A') /\ Step(B, B') /\ Step(R, R') /\ Step(Failing, Failing')
      /\ Cardinality(A) \in Nat /\ Cardinality(B) \in Nat /\ Cardinality(R) \in Nat
      /\ Cardinality(Failing) \in Nat
  <2>1. \A y \in Workers : y # x => call'[y] = call[y]
    BY <1>1, OthersStay
  <2> QED  BY <1>1, <2>1, OneMoves
<1> DEFINE
      In(S) == x \in S
      ActBad == IF action = None THEN 0 ELSE action.tasks.bad
      ActAll == IF action = None THEN 0 ELSE Collector!Count(action.tasks)
      c == counters
<1>3. ActBad \in Nat /\ ActAll \in Nat /\ Collector!Count(hourly) \in Nat
      /\ c.processed \in Nat /\ c.succeeded \in Nat /\ c.failed \in Nat
  <2>1. action # None => action.tasks \in Collector!Tasks
    BY <1>1 DEF Collector!TypeOK, Collector!Actions
  <2>2. ActAll \in Nat
    BY <2>1, AddTaskTyped
  <2>3. Collector!Count(hourly) \in Nat
    BY <1>1, AddTaskTyped DEF Collector!TypeOK
  <2> QED  BY <1>1, <2>1, <2>2, <2>3 DEF Collector!Tasks, Collector!Counters
<1>4. /\ c.processed = c.succeeded + c.failed + Cardinality(A)
      /\ c.failed = ActBad + Cardinality(Failing)
      /\ c.processed = ActAll + Cardinality(B)
      /\ c.processed = Collector!Count(hourly) + Cardinality(R)
  BY <1>1 DEF Told
<1>5. SUFFICES /\ c'.processed = c'.succeeded + c'.failed + Cardinality(A')
               /\ c'.failed = ActBad' + Cardinality(Failing')
               /\ c'.processed = ActAll' + Cardinality(B')
               /\ c'.processed = Collector!Count(hourly)' + Cardinality(R')
  BY DEF Told
<1> USE DEF Collector!In, Collector!Recording, Failing, Collector!At
<1>6. CASE Collector!RecordTaskProcessed(x)
  <2>1. /\ ~In(A) /\ ~In(B) /\ ~In(R) /\ ~In(Failing) /\ action' = action /\ hourly' = hourly
    BY <1>6 DEF Collector!RecordTaskProcessed, Collector!Begin, Collector!figures
  <2>2. /\ c'.processed = c.processed + 1 /\ c'.succeeded = c.succeeded /\ c'.failed = c.failed
    BY <1>1, <1>6 DEF Collector!RecordTaskProcessed, Collector!Counters
  <2>3. call'[x] # None /\ call'[x].at = "time"
    <3>1. call'[x] \in Collector!Calls /\ call'[x].at = "time"
      BY <1>1, <1>6 DEF Collector!RecordTaskProcessed, Collector!Begin, Collector!TypeOK,
                  Collector!Calls, Collector!TaskMetricsAssumption
    <3> QED  BY <3>1 DEF Collector!TaskMetricsAssumption
  <2>4. In(A') /\ In(B') /\ In(R') /\ ~In(Failing')
    BY <2>3
  <2> QED  BY <1>2, <1>3, <1>4, <2>1, <2>2, <2>4
<1>7. CASE \E at : Collector!At(x, at)
  <2>1. call[x] \in Collector!Calls /\ call[x] # None
    BY <1>1, <1>7 DEF Collector!TypeOK
  <2>2. ASSUME NEW at \in {"outcome", "action", "temporal"}, Collector!Go(x, at)
        PROVE  call'[x] # None /\ call'[x].at = at /\ call'[x].success = call[x].success
    <3>1. call'[x] \in Collector!Calls /\ call'[x].at = at /\ call'[x].success = call[x].success
      BY <1>1, <2>1, <2>2 DEF Collector!Go, Collector!Calls, Collector!TypeOK
    <3> QED  BY <3>1 DEF Collector!TaskMetricsAssumption
  <2>3. CASE Collector!AddTime(x)
    <3>1. /\ In(A) /\ In(B) /\ In(R) /\ ~In(Failing) /\ action' = action /\ hourly' = hourly
      BY <2>3 DEF Collector!AddTime, Collector!figures
    <3>2. /\ c'.processed = c.processed /\ c'.succeeded = c.succeeded /\ c'.failed = c.failed
      BY <1>1, <2>3 DEF Collector!AddTime, Collector!Counters
    <3>3. In(A') /\ In(B') /\ In(R') /\ ~In(Failing')
      BY <2>2, <2>3 DEF Collector!AddTime
    <3> QED  BY <1>2, <1>3, <1>4, <3>1, <3>2, <3>3
  <2>4. CASE Collector!AddOutcome(x)
    <3>1. /\ In(A) /\ In(B) /\ In(R) /\ ~In(Failing) /\ action' = action /\ hourly' = hourly
      BY <2>4 DEF Collector!AddOutcome, Collector!figures
    <3>2. /\ c'.processed = c.processed
          /\ c'.succeeded = c.succeeded + (IF call[x].success THEN 1 ELSE 0)
          /\ c'.failed = c.failed + (IF call[x].success THEN 0 ELSE 1)
      BY <1>1, <2>4 DEF Collector!AddOutcome, Collector!Counters
    <3>3. ~In(A') /\ In(B') /\ In(R') /\ (In(Failing') <=> ~call[x].success)
      BY <2>2, <2>4 DEF Collector!AddOutcome
    <3> QED  BY <1>2, <1>3, <1>4, <3>1, <3>2, <3>3
  <2>5. CASE Collector!UpdateActionMetrics(x)
    <3>1. /\ ~In(A) /\ In(B) /\ In(R) /\ (In(Failing) <=> ~call[x].success)
          /\ c' = c /\ hourly' = hourly
      BY <2>5 DEF Collector!UpdateActionMetrics
    <3>2. /\ ActAll' = ActAll + 1
          /\ ActBad' = ActBad + (IF call[x].success THEN 0 ELSE 1)
      <4>1. action' # None
        BY <1>1, <2>5, NewAction DEF Collector!TaskMetricsAssumption
      <4>2. ActAll' = Collector!Count(action'.tasks) /\ ActBad' = action'.tasks.bad
        BY <4>1 DEF Collector!Count
      <4> QED  BY <1>1, <2>5, <4>2, NewAction
    <3>3. ~In(A') /\ ~In(B') /\ In(R') /\ ~In(Failing')
      BY <2>2, <2>5 DEF Collector!UpdateActionMetrics
    <3> QED  BY <1>2, <1>3, <1>4, <3>1, <3>2, <3>3
  <2>6. CASE Collector!UpdateTemporalStats(x)
    <3>1. /\ ~In(A) /\ ~In(B) /\ In(R) /\ ~In(Failing) /\ c' = c /\ action' = action
      BY <2>6 DEF Collector!UpdateTemporalStats
    <3>2. Collector!Count(hourly)' = Collector!Count(hourly) + 1
      <4>1. hourly' = Collector!AddTask(hourly, call[x].success)
        BY <2>6 DEF Collector!UpdateTemporalStats
      <4>2. Collector!Count(hourly') = Collector!Count(hourly) + 1
        BY <1>1, <2>1, <4>1, AddTaskTyped DEF Collector!TypeOK, Collector!Calls
      <4> QED  BY <4>2 DEF Collector!Count
    <3>3. ~In(A') /\ ~In(B') /\ ~In(R') /\ ~In(Failing')
      BY <1>1, <2>6 DEF Collector!UpdateTemporalStats, Collector!End, Collector!TypeOK
    <3> QED  BY <1>2, <1>3, <1>4, <3>1, <3>2, <3>3
  <2>7. CASE Collector!GetSuccessRate(x) \/ Collector!CheckHealth(x) \/ Collector!Reply(x)
    <3>1. /\ ~In(A) /\ ~In(B) /\ ~In(R) /\ ~In(Failing)
          /\ c' = c /\ action' = action /\ hourly' = hourly
      BY <2>7 DEF Collector!GetSuccessRate, Collector!CheckHealth, Collector!Loaded,
                  Collector!Reply, Collector!figures
    <3>2. call'[x] = None \/ call'[x].at = "loaded"
      BY <1>1, <2>1, <2>7 DEF Collector!GetSuccessRate, Collector!CheckHealth, Collector!Loaded,
                  Collector!Reply, Collector!End, Collector!TypeOK, Collector!Calls
    <3>3. ~In(A') /\ ~In(B') /\ ~In(R') /\ ~In(Failing')
      BY <3>2
    <3> QED  BY <1>2, <1>3, <1>4, <3>1, <3>3
  <2>8. CASE Collector!ResetCounters(x) \/ Collector!ResetActions(x) \/ Collector!ResetTemporal(x)
    <3>1. x \in Collector!Resetting
      BY <2>8 DEF Collector!ResetCounters, Collector!ResetActions, Collector!ResetTemporal,
                  Collector!Resetting
    <3> QED  BY <3>1
  <2> QED  BY <1>7, <2>3, <2>4, <2>5, <2>6, <2>7, <2>8
           DEF Collector!Step, Collector!RecordTaskProcessed, Collector!ResetMetrics,
               Collector!GetMetrics, Collector!Begin
<1>8. CASE Collector!GetMetrics(x)
  <2>1. /\ ~In(A) /\ ~In(B) /\ ~In(R) /\ ~In(Failing)
        /\ c' = c /\ action' = action /\ hourly' = hourly
    BY <1>8 DEF Collector!GetMetrics, Collector!figures
  <2>2. ~In(A') /\ ~In(B') /\ ~In(R') /\ ~In(Failing')
    BY <1>1, <1>8 DEF Collector!GetMetrics, Collector!TypeOK
  <2> QED  BY <1>2, <1>3, <1>4, <2>1, <2>2
<1>9. CASE Collector!ResetMetrics(x)
  <2>1. call'[x] \in Collector!Calls /\ call'[x].at = "zero"
    BY <1>1, <1>9 DEF Collector!ResetMetrics, Collector!Begin, Collector!Calls, Collector!TypeOK
  <2>2. x \in Collector!Resetting'
    BY <2>1 DEF Collector!Resetting, Collector!TaskMetricsAssumption
  <2> QED  BY <2>2
<1> QED  BY <1>6, <1>7, <1>8, <1>9
         DEF Collector!Step, Collector!AddTime, Collector!AddOutcome, Collector!UpdateActionMetrics,
             Collector!UpdateTemporalStats, Collector!ResetCounters, Collector!ResetActions,
             Collector!ResetTemporal, Collector!GetSuccessRate, Collector!CheckHealth,
             Collector!Loaded, Collector!Reply

\* The first reset begins, further ones pass their steps, and the last one ends.
LEMMA ResetsClear ==
  ASSUME Collector!TaskMetricsAssumption, TallyInv, NEW x \in Workers, Collector!Step(x), ~torn',
         Collector!Resetting # {} \/ Collector!Resetting' # {}
  PROVE  IF Collector!Resetting' = {} THEN Told' ELSE Cleared'
<1> USE DEF Collector!In, Collector!Recording, Collector!Resetting, Collector!At
<1>1. /\ Collector!TypeOK /\ ~torn
      /\ IF Collector!Resetting = {} THEN Told ELSE Cleared
      /\ counters \in Collector!Counters
  BY TornStays DEF TallyInv, Collector!TypeOK, Collector!Next
<1>2. \A y \in Workers : y # x => call'[y] = call[y]
  BY <1>1, OthersStay
<1>3. CASE Collector!ResetMetrics(x)
  <2>1. Collector!Recording = {} /\ call[x] = None
    BY <1>3 DEF Collector!ResetMetrics, Collector!Begin
  <2>2. call'[x] # None /\ call'[x].at = "zero"
    <3>1. call'[x] \in Collector!Calls /\ call'[x].at = "zero"
      BY <1>1, <1>3 DEF Collector!ResetMetrics, Collector!Begin, Collector!Calls, Collector!TypeOK
    <3> QED  BY <3>1 DEF Collector!TaskMetricsAssumption
  <2>3. /\ counters'.processed = 0 /\ counters'.succeeded = counters.succeeded
        /\ counters'.failed = counters.failed /\ action' = action
    BY <1>1, <1>3 DEF Collector!ResetMetrics, Collector!Counters, Collector!figures
  <2>4. Collector!Recording' = {} /\ Collector!Resetting' # {}
    BY <1>2, <2>1, <2>2
  <2>5. ASSUME NEW y \in Workers, Collector!At(y, "clear")' \/ Collector!At(y, "clear2")'
        PROVE  y # x /\ call[y] = call'[y] /\ Cleared
    <3>1. y # x
      BY <2>2, <2>5
    <3> QED  BY <1>1, <1>2, <2>5, <3>1
  <2> QED  BY <2>3, <2>4, <2>5 DEF Cleared
<1>4. CASE ~Collector!ResetMetrics(x)
  <2>1. ASSUME Collector!Resetting = {} PROVE FALSE
    <3>1. ~Collector!ResetCounters(x) /\ ~Collector!ResetActions(x) /\ ~Collector!ResetTemporal(x)
      BY <2>1 DEF Collector!ResetCounters, Collector!ResetActions, Collector!ResetTemporal
    <3>2. call'[x] = None \/ call'[x].at \in {"time", "outcome", "action", "temporal", "load", "loaded"}
      <4>1. CASE call[x] = None
        BY <1>1, <1>4, <4>1, <3>1
           DEF Collector!Step, Collector!RecordTaskProcessed, Collector!GetMetrics, Collector!Begin,
               Collector!AddTime, Collector!AddOutcome, Collector!UpdateActionMetrics,
               Collector!UpdateTemporalStats, Collector!GetSuccessRate, Collector!CheckHealth,
               Collector!Loaded, Collector!Reply, Collector!TypeOK
      <4>2. CASE call[x] # None
        <5>1. call[x] \in Collector!Calls
          BY <1>1, <4>2 DEF Collector!TypeOK
        <5>2. CASE \E at \in {"time", "outcome", "action", "temporal"} : Collector!Go(x, at)
          BY <1>1, <5>1, <5>2 DEF Collector!Go, Collector!TypeOK, Collector!Calls
        <5>3. CASE Collector!End(x)
          BY <1>1, <5>3 DEF Collector!End, Collector!TypeOK
        <5>4. CASE Collector!GetSuccessRate(x) \/ Collector!CheckHealth(x)
          <6>1. PICK m : Collector!Loaded(x, m)
            BY <5>4 DEF Collector!GetSuccessRate, Collector!CheckHealth
          <6> QED  BY <1>1, <5>1, <6>1 DEF Collector!Loaded, Collector!TypeOK, Collector!Calls
        <5> QED
          BY <1>3, <1>4, <3>1, <4>2, <5>2, <5>3, <5>4
           DEF Collector!Step, Collector!RecordTaskProcessed, Collector!GetMetrics, Collector!Begin,
               Collector!AddTime, Collector!AddOutcome, Collector!UpdateActionMetrics,
               Collector!UpdateTemporalStats, Collector!Reply
      <4> QED  BY <4>1, <4>2
    <3> QED  BY <1>2, <2>1, <3>2
  <2>2. Cleared /\ Collector!Resetting # {}
    BY <1>1, <2>1
  <2>3. Collector!Recording = {} /\ x \notin Collector!Recording
    BY <2>2 DEF Cleared
  <2>4. ~Collector!RecordTaskProcessed(x)
    BY <2>2 DEF Collector!RecordTaskProcessed
  <2>5. /\ ~Collector!AddTime(x) /\ ~Collector!AddOutcome(x)
        /\ ~Collector!UpdateActionMetrics(x) /\ ~Collector!UpdateTemporalStats(x)
    BY <2>3 DEF Collector!AddTime, Collector!AddOutcome, Collector!UpdateActionMetrics,
                Collector!UpdateTemporalStats
  <2>6. CASE \/ Collector!GetMetrics(x) \/ Collector!GetSuccessRate(x)
             \/ Collector!CheckHealth(x) \/ Collector!Reply(x)
    <3>1. counters' = counters /\ action' = action
      BY <2>6 DEF Collector!GetMetrics, Collector!GetSuccessRate, Collector!CheckHealth,
                  Collector!Loaded, Collector!Reply, Collector!figures
    <3>2. /\ call[x] = None \/ call[x].at \in {"load", "loaded"}
          /\ call'[x] = None \/ call'[x].at \in {"load", "loaded"}
      <4>1. CASE call[x] = None
        BY <1>1, <2>6, <4>1
           DEF Collector!GetMetrics, Collector!GetSuccessRate, Collector!CheckHealth,
               Collector!Loaded, Collector!Reply, Collector!TypeOK
      <4>2. CASE call[x] # None
        <5>1. call[x] \in Collector!Calls
          BY <1>1, <4>2 DEF Collector!TypeOK
        <5>2. CASE Collector!GetSuccessRate(x) \/ Collector!CheckHealth(x)
          <6>1. PICK m : Collector!Loaded(x, m)
            BY <5>2 DEF Collector!GetSuccessRate, Collector!CheckHealth
          <6> QED  BY <1>1, <5>1, <6>1 DEF Collector!Loaded, Collector!TypeOK, Collector!Calls
        <5>3. CASE Collector!Reply(x)
          BY <1>1, <5>3 DEF Collector!Reply, Collector!End, Collector!TypeOK
        <5> QED  BY <2>6, <4>2, <5>2, <5>3 DEF Collector!GetMetrics
      <4> QED  BY <4>1, <4>2
    <3>3. Collector!Resetting' = Collector!Resetting /\ Collector!Recording' = {}
      BY <1>2, <2>3, <3>2
    <3>4. \A y \in Workers : (Collector!At(y, "clear")' \/ Collector!At(y, "clear2")')
                                => call'[y] = call[y]
      BY <1>2, <3>2
    <3> QED  BY <2>2, <3>1, <3>3, <3>4 DEF Cleared
  <2>7. CASE Collector!ResetCounters(x) \/ Collector!ResetActions(x)
    <3>1. call[x] \in Collector!Calls
      BY <1>1, <2>7 DEF Collector!ResetCounters, Collector!ResetActions, Collector!TypeOK
    <3>2. call'[x] \in Collector!Calls /\ call'[x].at = IF Collector!ResetCounters(x) THEN "clear" ELSE "clear2"
      BY <1>1, <2>7, <3>1 DEF Collector!ResetCounters, Collector!ResetActions, Collector!Go,
                              Collector!Calls, Collector!TypeOK
    <3>3. call'[x] # None
      BY <3>2 DEF Collector!TaskMetricsAssumption
    <3>4. Collector!Resetting' # {} /\ Collector!Recording' = {}
      BY <1>2, <2>3, <3>2, <3>3
    <3>5. /\ counters'.processed = 0 /\ counters'.succeeded = 0 /\ counters'.failed = 0
          /\ action' = None \/ action' = action
          /\ Collector!ResetActions(x) => action' = None
      BY <1>1, <2>2, <2>7 DEF Collector!ResetCounters, Collector!ResetActions, Collector!NoCounts,
                              Collector!Counters, Cleared, Collector!figures
    <3>6. \A y \in Workers : Collector!At(y, "clear2")' => action' = None
      BY <1>2, <2>2, <2>7, <3>2, <3>5 DEF Cleared
    <3> QED  BY <3>4, <3>5, <3>6 DEF Cleared
  <2>8. CASE Collector!ResetTemporal(x)
    <3>1. /\ counters' = counters /\ action' = action /\ hourly' = None /\ call'[x] = None
          /\ counters.processed = 0 /\ counters.succeeded = 0 /\ counters.failed = 0 /\ action = None
      BY <1>1, <2>2, <2>8 DEF Collector!ResetTemporal, Collector!End, Collector!TypeOK, Cleared
    <3>2. Collector!Recording' = {}
      BY <1>2, <2>3, <3>1
    <3>3. /\ Collector!In({"time", "outcome"})' = {} /\ Collector!In({"time", "outcome", "action"})' = {}
          /\ Failing' = {}
      BY <3>2 DEF Failing
    <3>4. Cardinality({}) = 0
      BY FS_EmptySet
    <3>5. Told'
      <4> HIDE DEF Collector!In, Collector!Recording
      <4>1. Collector!Count(None) = 0 /\ Collector!Count(hourly)' = Collector!Count(None)
        BY <3>1 DEF Collector!Count
      <4> QED  BY <3>1, <3>2, <3>3, <3>4, <4>1 DEF Told
    <3>6. ASSUME Collector!Resetting' # {} PROVE Cleared'
      BY <1>2, <2>2, <3>1, <3>2 DEF Cleared
    <3> QED  BY <3>5, <3>6
  <2> QED  BY <1>4, <2>4, <2>5, <2>6, <2>7, <2>8 DEF Collector!Step
<1> QED  BY <1>3, <1>4

LEMMA NextTallyInv ==
  ASSUME Collector!TaskMetricsAssumption, TallyInv, [Collector!Next]_(Collector!vars)
  PROVE  TallyInv'
<1>1. /\ Collector!TypeOK /\ Timed /\ Summed /\ IsFiniteSet(Collector!Recording)
  BY DEF TallyInv
<1>2. /\ Collector!TypeOK' /\ Timed' /\ Summed' /\ Collector!RatesAreRates'
  BY <1>1, CollectorTyped, CollectorTimed, CollectorSummed, CollectorRates
<1>3. ASSUME NEW x \in Workers, Collector!Step(x)
      PROVE  /\ IsFiniteSet(Collector!Recording')
             /\ ~torn' => IF Collector!Resetting' = {} THEN Told' ELSE Cleared'
  <2>1. IsFiniteSet(Collector!Recording')
    BY <1>1, <1>3, OthersStay, OneMoves
  <2> QED  BY <1>3, <2>1, RecordingTold, ResetsClear
<1>4. ASSUME ~\E x \in Workers : Collector!Step(x)
      PROVE  /\ IsFiniteSet(Collector!Recording')
             /\ ~torn' => IF Collector!Resetting' = {} THEN Told' ELSE Cleared'
  <2>1. /\ call' = call /\ torn' = torn /\ hourly' = hourly
        /\ counters'.processed = counters.processed /\ counters'.succeeded = counters.succeeded
        /\ counters'.failed = counters.failed
    BY <1>1, <1>4, QuietSteps DEF Collector!Next, Collector!TypeOK, Collector!Counters
  <2>2. /\ action' = None <=> action = None
        /\ action # None => action'.tasks = action.tasks
    <3>1. CASE Collector!RecordTaskRetried
      BY <1>1, <3>1 DEF Collector!RecordTaskRetried, Collector!TypeOK, Collector!Actions,
                        Collector!TaskMetricsAssumption
    <3> QED  BY <1>4, <3>1, QuietSteps DEF Collector!Next
  <2>3. /\ Collector!Resetting' = Collector!Resetting /\ Collector!Recording' = Collector!Recording
        /\ Collector!In({"time", "outcome"})' = Collector!In({"time", "outcome"})
        /\ Collector!In({"time", "outcome", "action"})' = Collector!In({"time", "outcome", "action"})
        /\ Failing' = Failing /\ \A y \in Workers : /\ Collector!At(y, "clear")' = Collector!At(y, "clear")
                                                    /\ Collector!At(y, "clear2")' = Collector!At(y, "clear2")
    BY <2>1 DEF Collector!Resetting, Collector!Recording, Collector!In, Failing, Collector!At
  <2>4. Told => Told'
    BY <2>1, <2>2, <2>3 DEF Told, Collector!Count
  <2>5. Cleared => Cleared'
    BY <2>1, <2>2, <2>3 DEF Cleared
  <2> QED  BY <1>1, <2>1, <2>3, <2>4, <2>5 DEF TallyInv
<1> QED  BY <1>2, <1>3, <1>4 DEF TallyInv

LEMMA InitTallyInv == Collector!TaskMetricsAssumption /\ Collector!Init => TallyInv
<1> SUFFICES ASSUME Collector!TaskMetricsAssumption, Collector!Init PROVE TallyInv
  OBVIOUS
<1>1. /\ Collector!Recording = {} /\ Collector!Resetting = {} /\ Failing = {}
      /\ Collector!In({"time", "outcome"}) = {} /\ Collector!In({"time", "outcome", "action"}) = {}
  BY DEF Collector!Init, Collector!Recording, Collector!Resetting, Collector!In, Failing, Collector!At
<1>2. Collector!TypeOK
  <2>1. counters \in Collector!Counters
    BY DEF Collector!Init, Collector!NoCounts, Collector!Counters
  <2>2. call \in [Workers -> Collector!Calls \cup {None}]
    BY DEF Collector!Init
  <2>3. daily \in [Collector!Days -> Collector!Tasks \cup {None}] /\ day \in Collector!Days
    BY DEF Collector!Init, Collector!Days, Collector!TaskMetricsAssumption
  <2>4. action = None /\ hourly = None /\ started = 0 /\ retries = 0 /\ torn \in BOOLEAN
    BY DEF Collector!Init
  <2> QED  BY <2>1, <2>2, <2>3, <2>4 DEF Collector!TypeOK
<1>3. IsFiniteSet({}) /\ Cardinality({}) = 0
  BY FS_EmptySet
<1>4. Told
  BY <1>1, <1>3 DEF Collector!Init, Told, Collector!Count, Collector!NoCounts
<1> QED  BY <1>1, <1>2, <1>3, <1>4
         DEF TallyInv, Timed, Summed, Collector!Init, Collector!RatesAreRates, Collector!At

LEMMA TallyInvSuffices ==
  ASSUME Collector!TaskMetricsAssumption, TallyInv
  PROVE  Collector!CountersAgree /\ Collector!ActionAddsUp /\ Collector!RatesAreRates
<1>1. ASSUME ~torn, Collector!Resetting = {}
      PROVE  counters.failed >= (IF action = None THEN 0 ELSE action.tasks.bad)
  <2>1. Failing \in SUBSET Collector!Recording
    BY DEF Failing, Collector!Recording, Collector!In, Collector!At
  <2>2. Cardinality(Failing) \in Nat
    BY <2>1, FS_Subset, FS_CardinalityType DEF TallyInv
  <2>3. (IF action = None THEN 0 ELSE action.tasks.bad) \in Nat
    BY DEF TallyInv, Collector!TypeOK, Collector!Actions, Collector!Tasks
  <2> QED  BY <1>1, <2>2, <2>3 DEF TallyInv, Told
<1>2. \A S : Collector!Cardinality(S) = Cardinality(S)
  BY DEF Collector!Cardinality, Cardinality
<1>3. Collector!CountersAgree
  BY <1>1, <1>2 DEF TallyInv, Told, Collector!CountersAgree, Collector!Recording
<1>4. Collector!ActionAddsUp /\ Collector!RatesAreRates
  BY DEF TallyInv, Summed, Collector!ActionAddsUp
<1> QED  BY <1>3, <1>4

-----------------------------------------------------------------------------
(* The dashboard.                                                          *)

\* What the results that are used have left in the figures and the verdict, an answer at a
\* time: a figure that is shown is read or still 0.
SInv ==
    /\ Shown!TypeOK
    /\ answer = None => taken = {} /\ read = Shown!Unread /\ figures = Shown!Zero
    /\ answer # None => taken \subseteq Shown!Asked[answer]
    /\ \A q \in taken : read[q] # None
    /\ answer \in {"CachedSummary", "CachedQuickStats", "CachedQueueStatus"} =>
           \A q \in Shown!Counted : Shown!Shown(q) =>
               figures[q] = IF q \in taken THEN Shown!Count(q) ELSE 0
    /\ answer \in {"Summary", "QuickStats", "QueueStatus", "Alerts", "SystemMetrics",
                   "DashboardMetrics", "SystemHealth"} => taken \in {{}, Shown!Asked[answer]}
    /\ Shown!VerdictFitsFigures

\* What each answer asks for.
LEMMA AskedOf ==
  /\ Shown!Asked["CachedSummary"] = {"workflows", "active", "users", "queue"}
  /\ Shown!Asked["CachedQuickStats"] = {"workflows", "users", "queue", "processing", "failed"}
  /\ Shown!Asked["CachedQueueStatus"] = {"queue", "processing", "failed", "retrying"}
  /\ Shown!Asked["QueueStatus"] = {"queue", "processing", "failed", "retrying"}
  /\ {"CachedSummary", "CachedQuickStats", "CachedQueueStatus", "CachedAlerts", "CachedHealth",
      "Summary", "QuickStats", "QueueStatus", "Alerts", "SystemMetrics", "DashboardMetrics",
      "SystemHealth"} = Shown!Answers
  /\ \A a \in Shown!Answers : Shown!Asked[a] \subseteq Shown!Questions /\ Shown!Asked[a] # {}
<1>1. \A a \in Shown!Answers : Shown!Asked[a] \subseteq Shown!Questions /\ Shown!Asked[a] # {}
  BY DEF Shown!Answers, Shown!Asked, Shown!Questions
<1> QED  BY <1>1 DEF Shown!Answers, Shown!Asked

\* A result that is used was asked for, has arrived and was not used before.
LEMMA Used ==
  ASSUME Shown!DashboardAssumption, SInv, NEW a \in Shown!Answers, NEW q, Shown!Arrived(a, q)
  PROVE  /\ answer = a /\ answer' = a /\ read' = read /\ a # None
         /\ q \in Shown!Questions /\ q \in Shown!Asked[a] /\ q \notin taken /\ read[q] # None
         /\ taken' = taken \cup {q} /\ taken' \subseteq Shown!Asked[a] /\ taken' \subseteq Shown!Questions
         /\ \A p \in taken' : read'[p] # None
         /\ q \in Shown!Counted => Shown!Count(q) \in 0..MaxCount
         /\ \A p : Shown!Count(p)' = Shown!Count(p)
<1>1. /\ a # None /\ MaxCount \in Nat /\ 0..Shown!Failed = 0..(MaxCount + 1)
  BY DEF Shown!DashboardAssumption, Shown!Failed
<1>2. /\ answer = a /\ answer' = a /\ read' = read /\ q \in Shown!Asked[a] /\ q \notin taken
      /\ read[q] # None /\ taken' = taken \cup {q}
  BY DEF Shown!Arrived
<1>3. q \in Shown!Questions /\ taken' \subseteq Shown!Asked[a] /\ taken' \subseteq Shown!Questions
  BY <1>1, <1>2, AskedOf DEF SInv
<1>4. read[q] \in 0..(MaxCount + 1)
  BY <1>1, <1>2, <1>3 DEF SInv, Shown!TypeOK
<1>5. Shown!Count(q) \in 0..MaxCount
  BY <1>1, <1>4 DEF Shown!Count, Shown!Good, Shown!Failed
<1>6. \A p : Shown!Count(p)' = Shown!Count(p)
  BY <1>2 DEF Shown!Count, Shown!Good
<1> QED  BY <1>1, <1>2, <1>3, <1>5, <1>6 DEF SInv

Figures == answer \in {"CachedSummary", "CachedQuickStats", "CachedQueueStatus"} =>
               \A q \in Shown!Counted : Shown!Shown(q) =>
                   figures[q] = IF q \in taken THEN Shown!Count(q) ELSE 0

\* The result of the cached service that is used: a figure is touched by its own question only.
LEMMA TakeSInv ==
  ASSUME Shown!DashboardAssumption, SInv, NEW q \in Shown!Questions, Shown!Take(q)
  PROVE  SInv'
<1>0. /\ figures \in [Shown!Counted -> 0..MaxCount] /\ MaxCount \in Nat /\ Figures
      /\ alerts \in SUBSET {"failed", "queue", "inactive"}
      /\ health \in {"healthy", "degraded", "unhealthy", "warning", "critical", None}
      /\ Shown!Counted = Shown!Questions \ {"ping"}
  BY DEF SInv, Shown!TypeOK, Shown!DashboardAssumption, Shown!Counted, Figures
<1>1. ASSUME NEW a \in {"CachedSummary", "CachedQuickStats", "CachedQueueStatus", "CachedAlerts",
                        "CachedHealth"},
             Shown!Arrived(a, q), figures' \in [Shown!Counted -> 0..MaxCount], Figures',
             alerts' \in SUBSET {"failed", "queue", "inactive"},
             health' \in {"healthy", "degraded", "unhealthy", "warning", "critical", None},
             a = "CachedQueueStatus" /\ taken' = Shown!Asked[a] => health' = Shown!Verdict(figures')
      PROVE  SInv'
  <2>1. a \in Shown!Answers
    BY AskedOf
  <2>2. /\ answer' = a /\ read' = read /\ a # None /\ taken' \subseteq Shown!Asked[a]
        /\ taken' \subseteq Shown!Questions /\ \A p \in taken' : read'[p] # None
    BY <1>1, <2>1, Used
  <2>3. Shown!TypeOK'
    BY <1>1, <2>1, <2>2 DEF SInv, Shown!TypeOK
  <2>4. Shown!VerdictFitsFigures'
    BY <1>1, <2>2 DEF Shown!VerdictFitsFigures, Shown!Answered, Shown!Verdict
  <2> QED  BY <1>1, <2>1, <2>2, <2>3, <2>4 DEF SInv, Figures
<1>2. ASSUME Shown!TakeSummary(q) PROVE SInv'
  <2> DEFINE a == "CachedSummary"
  <2>1. Shown!Arrived(a, q) /\ a \in Shown!Answers
    BY <1>2, AskedOf DEF Shown!TakeSummary
  <2>2. /\ q \in Shown!Counted /\ Shown!Count(q) \in 0..MaxCount /\ answer = a /\ q \notin taken
        /\ q \in {"workflows", "active", "users", "queue"} /\ read[q] # None
    BY <1>0, <2>1, Used, AskedOf
  <2>3. CASE ~Shown!Good(q)
    <3>1. figures' = figures /\ Shown!Count(q) = 0
      BY <1>2, <2>3 DEF Shown!TakeSummary, Shown!Count
    <3>2. Figures'
      BY <1>0, <2>1, <2>2, <3>1, Used DEF Figures, Shown!Shown
    <3> QED  BY <1>0, <1>1, <1>2, <2>1, <3>1, <3>2 DEF Shown!TakeSummary
  <2>4. CASE Shown!Good(q)
    <3>1. Shown!Count(q) = read[q]
      BY <2>4 DEF Shown!Count
    <3>2. figures' = [figures EXCEPT
             !["workflows"] = IF q = "workflows" /\ read[q] > 0 THEN read[q] ELSE @,
             !["active"] = IF q = "active" /\ read[q] > 0 THEN read[q] ELSE @,
             !["queue"] = IF q = "queue" THEN read[q] ELSE 0]
      BY <1>2, <2>4 DEF Shown!TakeSummary
    <3>3. figures' \in [Shown!Counted -> 0..MaxCount]
      <4>1. read[q] \in 0..MaxCount /\ 0 \in 0..MaxCount
        BY <1>0, <2>2, <3>1
      <4>2. {"workflows", "active", "queue"} \subseteq Shown!Counted
        BY DEF Shown!Counted, Shown!Questions
      <4>3. figures["workflows"] \in 0..MaxCount /\ figures["active"] \in 0..MaxCount
        BY <1>0, <4>2
      <4> QED  BY <1>0, <3>2, <4>1, <4>3
    <3>4. ASSUME NEW p \in Shown!Counted, p # "queue", p # q PROVE figures'[p] = figures[p]
      BY <1>0, <2>2, <3>2, <3>4
    <3>5. q \notin {"queue", "users"} => figures'[q] = Shown!Count(q)
      <4>1. q \in {"workflows", "active"} => figures[q] = 0
        BY <1>0, <2>2 DEF Figures, Shown!Shown
      <4> QED  BY <1>0, <2>2, <3>1, <3>2, <4>1
    <3>6. Figures'
      BY <1>0, <2>1, <2>2, <3>4, <3>5, Used DEF Figures, Shown!Shown
    <3> QED  BY <1>0, <1>1, <1>2, <2>1, <3>3, <3>6 DEF Shown!TakeSummary
  <2> QED  BY <2>3, <2>4
<1>3. ASSUME NEW a \in {"CachedQuickStats", "CachedQueueStatus"}, Shown!Arrived(a, q),
             IF q = "users" THEN UNCHANGED figures ELSE Shown!Show(q)
      PROVE  figures' \in [Shown!Counted -> 0..MaxCount] /\ Figures'
  <2>1. a \in Shown!Answers
    BY AskedOf
  <2>2. /\ q \in Shown!Counted /\ Shown!Count(q) \in 0..MaxCount /\ answer = a /\ q \notin taken
    BY <1>0, <1>3, <2>1, Used, AskedOf
  <2>3. /\ figures' \in [Shown!Counted -> 0..MaxCount]
        /\ \A p \in Shown!Counted : p # q => figures'[p] = figures[p]
    BY <1>0, <1>3, <2>2 DEF Shown!Show, Shown!Count
  <2>4. q # "users" => figures'[q] = Shown!Count(q)
    <3>1. q # "users" => figures[q] = 0
      BY <1>0, <1>3, <2>2 DEF Figures, Shown!Shown
    <3> QED  BY <1>0, <1>3, <2>2, <3>1 DEF Shown!Show, Shown!Count
  <2> QED  BY <1>0, <1>3, <2>1, <2>2, <2>3, <2>4, Used DEF Figures, Shown!Shown
<1>4. ASSUME Shown!TakeQuickStats(q) PROVE SInv'
  BY <1>0, <1>1, <1>3, <1>4 DEF Shown!TakeQuickStats
<1>5. ASSUME Shown!TakeQueueStatus(q) PROVE SInv'
  <2>1. Shown!Arrived("CachedQueueStatus", q) /\ q # "users" /\ Shown!Show(q) /\ alerts' = alerts
    BY <1>5, AskedOf DEF Shown!TakeQueueStatus, Shown!Arrived
  <2>2. health' \in {"healthy", "degraded", "unhealthy", "warning", "critical", None}
    BY <1>0, <1>5 DEF Shown!TakeQueueStatus, Shown!Verdict
  <2> QED  BY <1>0, <1>1, <1>3, <1>5, <2>1, <2>2 DEF Shown!TakeQueueStatus
<1>6. ASSUME Shown!TakeAlerts(q) PROVE SInv'
  <2>1. Shown!Arrived("CachedAlerts", q) /\ UNCHANGED <<figures, health>>
    BY <1>6 DEF Shown!TakeAlerts
  <2>2. alerts' \in SUBSET {"failed", "queue", "inactive"}
    BY <1>0, <1>6 DEF Shown!TakeAlerts
  <2>3. Figures'
    BY <2>1 DEF Figures, Shown!Arrived
  <2> QED  BY <1>0, <1>1, <2>1, <2>2, <2>3
<1>7. ASSUME Shown!TakeHealth(q) PROVE SInv'
  <2>1. Shown!Arrived("CachedHealth", q) /\ UNCHANGED <<figures, alerts>>
    BY <1>7 DEF Shown!TakeHealth
  <2>2. health' \in {"healthy", "degraded", "unhealthy", "warning", "critical", None}
    BY <1>0, <1>7 DEF Shown!TakeHealth
  <2>3. Figures'
    BY <2>1 DEF Figures, Shown!Arrived
  <2> QED  BY <1>0, <1>1, <2>1, <2>2, <2>3
<1> QED  BY <1>2, <1>4, <1>5, <1>6, <1>7 DEF Shown!Take

LEMMA NextSInv ==
  ASSUME Shown!DashboardAssumption, SInv, [Shown!Next]_(Shown!vars)
  PROVE  SInv'
<1>0. MaxCount \in Nat /\ None \notin Shown!Answers /\ Shown!TypeOK
      /\ 0..Shown!Failed = 0..(MaxCount + 1)
  BY DEF Shown!DashboardAssumption, Shown!Failed, SInv
<1>1. CASE UNCHANGED Shown!vars
  BY <1>1 DEF Shown!vars, SInv, Shown!TypeOK, Shown!Count, Shown!Good, Shown!VerdictFitsFigures,
              Shown!Answered, Shown!Verdict, Shown!Shown
<1>2. ASSUME NEW a \in Shown!Answers, Shown!Ask(a) PROVE SInv'
  <2>1. /\ answer' = a /\ taken' = {} /\ figures' = Shown!Zero /\ a # None
        /\ UNCHANGED <<read, alerts, health>>
    BY <1>0, <1>2 DEF Shown!Ask, SInv
  <2>2. Shown!TypeOK'
    BY <1>0, <1>2, <2>1 DEF Shown!TypeOK, Shown!Ask
  <2>3. Shown!VerdictFitsFigures'
    BY <1>2, <2>1, AskedOf DEF Shown!VerdictFitsFigures, Shown!Answered
  <2> QED  BY <2>1, <2>2, <2>3 DEF SInv, Shown!Zero, Shown!Counted, Shown!Questions
<1>3. ASSUME NEW q \in Shown!Questions, Shown!Read(q) PROVE SInv'
  <2>1. PICK v \in 0..Shown!Failed : read' = [read EXCEPT ![q] = v]
    <3>1. 0 \in 0..Shown!Failed /\ Shown!Failed \in 0..Shown!Failed
      BY <1>0 DEF Shown!Failed
    <3> QED  BY <1>3, <3>1 DEF Shown!Read
  <2>2. /\ UNCHANGED <<answer, taken, figures, alerts, health>> /\ answer # None
        /\ q \notin taken
    BY <1>3 DEF Shown!Read, SInv
  <2>3. Shown!TypeOK'
    BY <1>0, <2>1, <2>2 DEF Shown!TypeOK
  <2>4. \A p \in taken : read'[p] = read[p]
    BY <2>1, <2>2
  <2>5. \A p \in taken : Shown!Count(p)' = Shown!Count(p)
    BY <2>4 DEF Shown!Count, Shown!Good
  <2>6. Shown!VerdictFitsFigures' = Shown!VerdictFitsFigures
    BY <2>2 DEF Shown!VerdictFitsFigures, Shown!Answered, Shown!Verdict
  <2>7. \A p : Shown!Shown(p)' = Shown!Shown(p)
    BY <2>2 DEF Shown!Shown
  <2> QED  BY <2>2, <2>3, <2>4, <2>5, <2>6, <2>7 DEF SInv
<1>4. ASSUME NEW a \in {"Summary", "QuickStats", "QueueStatus", "Alerts", "SystemMetrics",
                        "DashboardMetrics", "SystemHealth"}, Shown!Collected(a),
             alerts' \in SUBSET {"failed", "queue", "inactive"},
             health' \in {"healthy", "degraded", "unhealthy", "warning", "critical", None},
             a = "QueueStatus" => health' = Shown!Verdict(figures')
      PROVE  SInv'
  <2>1. a \in Shown!Answers /\ a # None /\ Shown!Asked[a] \subseteq Shown!Questions
    BY <1>0, AskedOf
  <2>2. /\ answer' = a /\ answer = a /\ read' = read /\ taken' = Shown!Asked[a]
        /\ \A q \in Shown!Asked[a] : read[q] # None
        /\ figures' = [q \in Shown!Counted |-> IF q \in Shown!Asked[a] THEN Shown!Count(q) ELSE 0]
    BY <1>4 DEF Shown!Collected
  <2>3. figures' \in [Shown!Counted -> 0..MaxCount]
    <3>1. ASSUME NEW q \in Shown!Counted, q \in Shown!Asked[a] PROVE Shown!Count(q) \in 0..MaxCount
      <4>1. read[q] \in 0..(MaxCount + 1)
        BY <1>0, <2>1, <2>2, <3>1 DEF Shown!TypeOK
      <4> QED  BY <1>0, <4>1 DEF Shown!Count, Shown!Good, Shown!Failed
    <3> QED  BY <1>0, <2>2, <3>1
  <2>4. Shown!TypeOK'
    BY <1>0, <1>4, <2>1, <2>2, <2>3 DEF Shown!TypeOK
  <2>5. Shown!VerdictFitsFigures'
    BY <1>4, <2>2 DEF Shown!VerdictFitsFigures, Shown!Verdict
  <2> QED  BY <1>4, <2>1, <2>2, <2>4, <2>5 DEF SInv
<1>5. CASE Shown!Respond
  <2>1. /\ answer' = None /\ taken' = {} /\ read' = Shown!Unread /\ figures' = Shown!Zero
        /\ alerts' = {} /\ health' = None
    BY <1>5 DEF Shown!Respond
  <2>2. Shown!TypeOK'
    BY <1>0, <2>1 DEF Shown!TypeOK, Shown!Unread, Shown!Zero
  <2>3. None \notin {"CachedSummary", "CachedQuickStats", "CachedQueueStatus", "Summary", "QuickStats",
                     "QueueStatus", "Alerts", "SystemMetrics", "DashboardMetrics", "SystemHealth"}
    BY <1>0, AskedOf
  <2> QED  BY <2>1, <2>2, <2>3 DEF SInv, Shown!VerdictFitsFigures
<1>6. CASE Shown!Collect
  <2>1. CASE \/ Shown!Summary \/ Shown!QuickStats \/ Shown!SystemMetrics \/ Shown!DashboardMetrics
    BY <1>0, <1>4, <2>1 DEF Shown!Summary, Shown!QuickStats, Shown!SystemMetrics,
                            Shown!DashboardMetrics, Shown!TypeOK
  <2>2. CASE Shown!QueueStatus
    BY <1>0, <1>4, <2>2 DEF Shown!QueueStatus, Shown!TypeOK, Shown!Verdict
  <2>3. CASE Shown!Alerts
    <3>1. alerts' \in SUBSET {"failed", "queue", "inactive"}
      BY <2>3 DEF Shown!Alerts
    <3> QED  BY <1>0, <1>4, <2>3, <3>1 DEF Shown!Alerts, Shown!TypeOK
  <2>4. CASE Shown!SystemHealth
    BY <1>0, <1>4, <2>4 DEF Shown!SystemHealth, Shown!TypeOK
  <2> QED  BY <1>6, <2>1, <2>2, <2>3, <2>4 DEF Shown!Collect
<1>7. CASE Shown!Request
  <2>1. \E a \in Shown!Answers : Shown!Ask(a)
    BY <1>7, AskedOf DEF Shown!Request, Shown!GetDashboardSummary, Shown!GetQuickStats,
       Shown!GetQueueStatus, Shown!GetActiveAlerts, Shown!GetSystemHealth, Shown!GetSystemMetrics,
       Shown!GetMetrics
  <2> QED  BY <1>2, <2>1
<1> QED  BY <1>1, <1>3, <1>5, <1>6, <1>7, TakeSInv DEF Shown!Next

LEMMA InitSInv == Shown!DashboardAssumption /\ Shown!Init => SInv
<1> SUFFICES ASSUME Shown!DashboardAssumption, Shown!Init PROVE SInv
  OBVIOUS
<1>1. None \notin {"CachedSummary", "CachedQuickStats", "CachedQueueStatus", "Summary", "QuickStats",
                   "QueueStatus", "Alerts", "SystemMetrics", "DashboardMetrics", "SystemHealth"}
  BY AskedOf DEF Shown!DashboardAssumption
<1>2. Shown!TypeOK
  BY DEF Shown!Init, Shown!TypeOK, Shown!Unread, Shown!Zero, Shown!DashboardAssumption, Shown!Failed
<1> QED  BY <1>1, <1>2 DEF Shown!Init, SInv, Shown!VerdictFitsFigures

LEMMA SInvSuffices ==
  ASSUME SInv
  PROVE  Shown!FiguresAreRead
<1> SUFFICES ASSUME Shown!Answered, answer \in {"CachedSummary", "CachedQuickStats", "CachedQueueStatus"},
                    NEW q \in Shown!Asked[answer], Shown!Shown(q)
             PROVE  figures[q] = Shown!Count(q)
  BY DEF Shown!FiguresAreRead
<1>1. q \in Shown!Counted /\ q \in taken
  BY AskedOf DEF Shown!Answered, Shown!Counted, Shown!Questions
<1> QED  BY <1>1 DEF SInv

-----------------------------------------------------------------------------
\* Counters, figures of the action and of the hour tell the same story, and a rate above 100
\* is only told to a reader that was overtaken; an answer of the dashboard shows what its
\* questions found, in whatever order they are answered, with the verdict these figures deserve.
THEOREM FiguresAreTrue == MonitoredSpec => []FiguresHold
<1>0. Collector!TaskMetricsAssumption /\ Shown!DashboardAssumption
  BY Parameters
<1>1. MonitoredInit => TallyInv /\ SInv
  BY <1>0, InitTallyInv, InitSInv DEF MonitoredInit
<1>2. ASSUME TallyInv, SInv, [MonitoredNext]_monitoredVars PROVE TallyInv' /\ SInv'
  <2>1. [Collector!Next]_(Collector!vars) /\ [Shown!Next]_(Shown!vars)
    BY <1>2 DEF MonitoredNext, monitoredVars, EngineStep, CollectorStep, DashboardStep, collectorVars,
       shownVars, Collector!vars, Collector!figures, Collector!history, Shown!vars
  <2> QED  BY <1>0, <1>2, <2>1, NextTallyInv, NextSInv
<1>3. TallyInv /\ SInv => FiguresHold
  BY <1>0, TallyInvSuffices, SInvSuffices DEF FiguresHold, TallyInv, SInv
<1> QED  BY <1>1, <1>2, <1>3, PTL DEF MonitoredSpec
=============================================================================
