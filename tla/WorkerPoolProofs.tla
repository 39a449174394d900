---------------------------- MODULE WorkerPoolProofs ----------------------------
(***************************************************************************)
(* Theorems about WorkerPool, for any number of tasks and workers and any  *)
(* size of the channels, and about PoolLocks, for any goroutines that call *)
(* the functions of the pool.                                              *)
(***************************************************************************)
EXTENDS MCPool, FiniteSetTheorems, SequenceTheorems, TLAPS

-----------------------------------------------------------------------------
(* Stop closes no channel twice.                                           *)

\* Until the monitor has got stuck, the workers are numbered without gaps.
Numbered == \E k \in 1..MaxWorkers : members = 0..(k - 1)

\* A worker is told to stop by removeWorker, which keeps the lock that Stop needs for ever,
\* or by Stop itself, once.
StopInv ==
    /\ stopped = [w \in Ids |-> stopped[w]]
    /\ stopper # "idle" => stopping = TRUE
    /\ scaler # "stuck" => Numbered
    /\ (\E w \in Ids : stopped[w]) => scaler = "stuck" \/ stopper = "wait"

\* The worker that scaleUp creates has the next number, and it is one of the ids.
LEMMA NextNumber ==
  ASSUME PoolAssumption, Numbered, HasRoom
  PROVE  \E k \in 1..(MaxWorkers - 1) : members = 0..(k - 1) /\ Max(members) + 1 = k
<1>1. PICK k \in 1..MaxWorkers : members = 0..(k - 1)
  BY DEF Numbered
<1>2. Cardinality(members) = k
  BY <1>1, FS_Interval, 0 \in Int, k - 1 \in Int, ~(0 > k - 1) DEF PoolAssumption
<1>3. k < MaxWorkers
  BY <1>2 DEF HasRoom
<1>4. Max(members) = k - 1
  <2>1. k - 1 \in members /\ \A y \in members : k - 1 >= y
    BY <1>1 DEF PoolAssumption
  <2>2. \A x \in members : (\A y \in members : x >= y) => x = k - 1
    BY <1>1, <2>1 DEF PoolAssumption
  <2> QED  BY <2>1, <2>2 DEF Max
<1> QED  BY <1>1, <1>3, <1>4 DEF PoolAssumption

LEMMA NextStop == PoolAssumption /\ StopInv /\ [Next]_vars => StopInv'
<1> SUFFICES ASSUME PoolAssumption, StopInv, [Next]_vars PROVE StopInv'
  OBVIOUS
<1>1. CASE Dispatcher
  BY <1>1 DEF Dispatcher, DispatcherHead, Dequeue, StartScan, Look, NobodyUsable, Send, CountLoad,
              workerVars, stopVars, StopInv, Numbered
<1>2. ASSUME NEW w \in Ids, Worker(w) PROVE StopInv'
  BY <1>2 DEF Worker, StartRun, TakeTask, Judge, Finish, ExitRun, stopVars, StopInv, Numbered
<1>3. CASE Evaluate \/ ScalerExit
  BY <1>3 DEF Evaluate, ScalerExit, workerVars, stopVars, StopInv, Numbered
<1>4. CASE Grow
  <2>1. /\ scaler = "grow" /\ HasRoom /\ members' = members \cup {Max(members) + 1}
        /\ scaler' = "tick" /\ UNCHANGED <<stopped, stopVars>>
    BY <1>4 DEF Grow
  <2>2. PICK k \in 1..(MaxWorkers - 1) : members = 0..(k - 1) /\ Max(members) + 1 = k
    BY <2>1, NextNumber DEF StopInv
  <2>3. members' = 0..((k + 1) - 1) /\ k + 1 \in 1..MaxWorkers
    BY <2>1, <2>2 DEF PoolAssumption
  <2> QED  BY <2>1, <2>3 DEF StopInv, Numbered, stopVars
<1>5. CASE Shrink
  BY <1>5 DEF Shrink, stopVars, StopInv
<1>6. CASE DeleteStopped
  BY <1>6 DEF DeleteStopped, stopVars, StopInv
<1>7. CASE Stop
  BY <1>7 DEF Stop, workerVars, StopInv, Numbered
<1>8. CASE StopWorkers
  BY <1>8 DEF StopWorkers, StopInv, Numbered
<1>9. CASE UNCHANGED vars
  BY <1>9 DEF vars, workerVars, stopVars, StopInv, Numbered
<1> QED  BY <1>1, <1>2, <1>3, <1>4, <1>5, <1>6, <1>7, <1>8, <1>9 DEF Next, Scaler

\* Whatever the monitor has done to the workers before, Stop closes the channel of none a
\* second time, which would panic: where removeWorker closed one, Stop does not get the lock.
THEOREM ClosedOnce ==
  ASSUME PoolAssumption
  PROVE  Spec => NoDoubleClose
<1>1. Init => StopInv
  <2> SUFFICES ASSUME Init PROVE StopInv
    OBVIOUS
  <2>1. MinWorkers \in 1..MaxWorkers
    BY DEF PoolAssumption
  <2> QED  BY <2>1 DEF Init, StopInv, Numbered
<1>2. ASSUME StopInv, [Next]_vars
      PROVE  [StopWorkers => \A w \in members : ~stopped[w]]_vars
  <2> SUFFICES ASSUME StopWorkers PROVE \A w \in members : ~stopped[w]
    OBVIOUS
  <2>1. scaler # "stuck" /\ stopper = "lock"
    BY DEF StopWorkers, Frozen
  <2>2. members \subseteq Ids
    BY <1>2, <2>1 DEF StopInv, Numbered, Ids, PoolAssumption
  <2> QED  BY <1>2, <2>1, <2>2 DEF StopInv
<1> QED  BY <1>1, <1>2, NextStop, PTL DEF Spec, NoDoubleClose
-----------------------------------------------------------------------------
(* A task is in one place.                                                 *)

Distinct(s) == \A i, j \in 1..Len(s) : s[i] = s[j] => i = j

Typed ==
    /\ upcoming \in SUBSET Tasks /\ dropped \in SUBSET Tasks /\ done \in SUBSET Tasks
    /\ run \in [Ids -> {"none", "new", "select", "busy", "judged", "exited"}]
    /\ tasksCh \in [Ids -> Seq(Tasks)]
    /\ running \in [Ids -> Tasks \cup {NoTask}]
    /\ offered \in Tasks \cup {NoTask} /\ best \in Ids \cup {NoWorker}

\* The dispatcher has a task on offer while it dispatches, a worker is running one while it
\* is busy, and an id that scaleUp has still to give has never run any.
Points ==
    /\ disp \in {"lock", "scan"} <=> offered # NoTask
    /\ \A w \in Ids : run[w] \in {"busy", "judged"} <=> running[w] # NoTask
    /\ scaler # "stuck" => \A w \in Ids \ members : run[w] = "none"

\* Where a task is that no worker holds.
Elsewhere == upcoming \cup dropped \cup done \cup ({offered} \ {NoTask})

Apart ==
    /\ \A w \in Ids : Distinct(tasksCh[w]) /\ running[w] \notin Range(tasksCh[w])
    /\ \A v, w \in Ids : v # w => Holds(v) \cap Holds(w) = {}
    /\ \A w \in Ids : Holds(w) \cap Elsewhere = {}
    /\ upcoming \cap dropped = {} /\ upcoming \cap done = {} /\ dropped \cap done = {}
    /\ offered \notin upcoming \cup dropped \cup done
    /\ \A t \in Tasks : t \in Elsewhere \/ \E w \in Ids : t \in Holds(w)

OnceInv == Typed /\ Points /\ Apart

LEMMA AppendFacts ==
  ASSUME NEW s \in Seq(Tasks), NEW e \in Tasks, Distinct(s), e \notin Range(s)
  PROVE  /\ Append(s, e) \in Seq(Tasks) /\ Distinct(Append(s, e))
         /\ Range(Append(s, e)) = Range(s) \cup {e}
<1>1. /\ Append(s, e) \in Seq(Tasks) /\ Len(Append(s, e)) = Len(s) + 1 /\ Len(s) \in Nat
      /\ \A i \in 1..Len(s) : Append(s, e)[i] = s[i]
      /\ Append(s, e)[Len(s) + 1] = e
  OBVIOUS
<1>2. DOMAIN s = 1..Len(s) /\ DOMAIN Append(s, e) = 1..(Len(s) + 1)
  OBVIOUS
<1>3. 1..(Len(s) + 1) = (1..Len(s)) \cup {Len(s) + 1}
  BY <1>1
<1>4. Range(Append(s, e)) = Range(s) \cup {e}
  BY <1>1, <1>2, <1>3 DEF Range
<1>5. \A i \in 1..Len(s) : s[i] # e
  BY <1>2 DEF Range
<1>6. Distinct(Append(s, e))
  BY <1>1, <1>3, <1>5 DEF Distinct
<1> QED  BY <1>1, <1>4, <1>6

LEMMA TailFacts ==
  ASSUME NEW s \in Seq(Tasks), s # <<>>, Distinct(s)
  PROVE  /\ Tail(s) \in Seq(Tasks) /\ Distinct(Tail(s)) /\ Head(s) \in Tasks
         /\ Range(s) = Range(Tail(s)) \cup {Head(s)} /\ Head(s) \notin Range(Tail(s))
<1>1. /\ Tail(s) \in Seq(Tasks) /\ Len(Tail(s)) = Len(s) - 1 /\ Len(s) \in Nat \ {0}
      /\ \A i \in 1..(Len(s) - 1) : Tail(s)[i] = s[i + 1]
      /\ Head(s) = s[1] /\ Head(s) \in Tasks
  OBVIOUS
<1>2. DOMAIN s = 1..Len(s) /\ DOMAIN Tail(s) = 1..(Len(s) - 1)
  BY <1>1
<1>3. \A i \in 1..Len(s) : i = 1 \/ (i - 1 \in 1..(Len(s) - 1) /\ s[i] = Tail(s)[i - 1])
  BY <1>1
<1>4. Range(s) = Range(Tail(s)) \cup {Head(s)}
  <2>1. \A i \in 1..Len(s) : s[i] \in Range(Tail(s)) \cup {Head(s)}
    BY <1>1, <1>2, <1>3 DEF Range
  <2>2. Head(s) \in Range(s) /\ \A i \in 1..(Len(s) - 1) : Tail(s)[i] \in Range(s)
    BY <1>1, <1>2 DEF Range
  <2> QED  BY <1>2, <2>1, <2>2 DEF Range
<1>5. Distinct(Tail(s)) /\ Head(s) \notin Range(Tail(s))
  BY <1>1, <1>2 DEF Distinct, Range
<1> QED  BY <1>1, <1>4, <1>5

\* Steps that touch no task and no place of one.
LEMMA NothingMoves ==
  ASSUME OnceInv, UNCHANGED <<upcoming, dropped, done, offered, tasksCh, running>>,
         run' \in [Ids -> {"none", "new", "select", "busy", "judged", "exited"}],
         best' \in Ids \cup {NoWorker}, Points'
  PROVE  OnceInv'
BY DEF OnceInv, Typed, Apart, Elsewhere, Holds

LEMMA DispatcherOnce ==
  ASSUME PoolAssumption, OnceInv, Dispatcher
  PROVE  OnceInv'
<1>0. NoTask \notin Tasks /\ Typed /\ Points /\ Apart
  BY DEF PoolAssumption, OnceInv
<1>1. CASE DispatcherHead \/ StartScan \/ (\E w \in Ids : Look(w)) \/ CountLoad
  <2>1. UNCHANGED <<upcoming, workerVars, tasksCh, offered, scaler, dropped, done>>
    BY <1>1 DEF DispatcherHead, StartScan, Look, CountLoad, scanVars
  <2>2. best' \in Ids \cup {NoWorker} /\ (disp' \in {"lock", "scan"} <=> disp \in {"lock", "scan"})
    BY <1>0, <1>1 DEF DispatcherHead, StartScan, Look, CountLoad, scanVars, Typed
  <2> QED  BY <1>0, <2>1, <2>2, NothingMoves DEF workerVars, Points, Typed
<1>2. CASE Dequeue
  <2>1. /\ UNCHANGED <<workerVars, tasksCh, best, scaler, dropped, done>> /\ offered = NoTask
        /\ \/ \E t \in upcoming : upcoming' = upcoming \ {t} /\ offered' = t /\ disp' = "lock"
           \/ disp' = "head" /\ UNCHANGED <<upcoming, offered>>
    BY <1>0, <1>2 DEF Dequeue, Points
  <2> QED  BY <1>0, <2>1 DEF OnceInv, Typed, Points, Apart, Elsewhere, Holds, workerVars
<1>3. ASSUME Drop, UNCHANGED <<upcoming, workerVars, tasksCh, best, scaler, done>>,
             disp = "scan"
      PROVE  OnceInv'
  BY <1>0, <1>3 DEF Drop, OnceInv, Typed, Points, Apart, Elsewhere, Holds, workerVars
<1>4. CASE NobodyUsable
  BY <1>3, <1>4 DEF NobodyUsable
<1>5. CASE Send
  <2>1. CASE Drop /\ UNCHANGED tasksCh
    BY <1>3, <1>5, <2>1 DEF Send
  <2>2. CASE ~(Drop /\ UNCHANGED tasksCh)
    <3>0. PICK b \in Ids : b = best
      BY <1>0, <1>5, <2>2 DEF Send, Typed
    <3>1. /\ offered \in Tasks /\ offered' = NoTask /\ disp' = "count"
          /\ tasksCh' = [tasksCh EXCEPT ![b] = Append(@, offered)]
          /\ UNCHANGED <<upcoming, workerVars, best, scaler, dropped, done>>
      BY <1>0, <1>5, <2>2, <3>0 DEF Send, Typed, Points
    <3>2. offered \notin Range(tasksCh[b]) /\ \A w \in Ids : offered \notin Holds(w)
      BY <1>0, <3>1 DEF Apart, Elsewhere, Holds
    <3>3. /\ Append(tasksCh[b], offered) \in Seq(Tasks)
          /\ Distinct(Append(tasksCh[b], offered))
          /\ Range(Append(tasksCh[b], offered)) = Range(tasksCh[b]) \cup {offered}
      BY <1>0, <3>1, <3>2, AppendFacts DEF Typed, Apart
    <3>4. /\ tasksCh' \in [Ids -> Seq(Tasks)]
          /\ tasksCh'[b] = Append(tasksCh[b], offered)
          /\ \A w \in Ids \ {b} : tasksCh'[w] = tasksCh[w]
      BY <1>0, <3>1, <3>3 DEF Typed
    <3>5. /\ Holds(b)' = Holds(b) \cup {offered}
          /\ \A w \in Ids \ {b} : Holds(w)' = Holds(w)
      BY <3>1, <3>3, <3>4 DEF Holds, workerVars
    <3>6. \A w \in Ids : Distinct(tasksCh'[w]) /\ running'[w] \notin Range(tasksCh'[w])
      BY <1>0, <3>1, <3>2, <3>3, <3>4 DEF Apart, workerVars, Holds
    <3>7. Elsewhere' = Elsewhere \ {offered}
      BY <1>0, <3>1 DEF Elsewhere, Apart
    <3>8. ASSUME NEW v \in Ids, NEW w \in Ids, v # w PROVE Holds(v)' \cap Holds(w)' = {}
      <4>1. Holds(v) \cap Holds(w) = {} /\ offered \notin Holds(v) /\ offered \notin Holds(w)
        BY <1>0, <3>2, <3>8 DEF Apart
      <4>2. CASE v = b
        BY <3>5, <3>8, <4>1, <4>2
      <4>3. CASE v # b
        BY <3>5, <3>8, <4>1, <4>3
      <4> QED  BY <4>2, <4>3
    <3>9. ASSUME NEW w \in Ids PROVE Holds(w)' \cap Elsewhere' = {}
      <4>1. Holds(w) \cap Elsewhere = {}
        BY <1>0 DEF Apart
      <4>2. CASE w = b
        BY <3>5, <3>7, <4>1, <4>2
      <4>3. CASE w # b
        BY <3>5, <3>7, <4>1, <4>3
      <4> QED  BY <4>2, <4>3
    <3>10. \A t \in Tasks : t \in Elsewhere' \/ \E w \in Ids : t \in Holds(w)'
      BY <1>0, <3>1, <3>5, <3>7 DEF Apart
    <3>11. UNCHANGED <<upcoming, dropped, done>> /\ offered' \notin upcoming \cup dropped \cup done
      BY <1>0, <3>1 DEF Typed
    <3>12. Apart'
      BY <1>0, <3>6, <3>8, <3>9, <3>10, <3>11 DEF Apart
    <3> QED  BY <1>0, <3>1, <3>4, <3>12 DEF OnceInv, Typed, Points, workerVars
  <2> QED  BY <2>1, <2>2
<1> QED  BY <1>1, <1>2, <1>4, <1>5 DEF Dispatcher

LEMMA WorkerOnce ==
  ASSUME PoolAssumption, OnceInv, NEW w \in Ids, Worker(w)
  PROVE  OnceInv'
<1>0. NoTask \notin Tasks /\ Typed /\ Points /\ Apart
  BY DEF PoolAssumption, OnceInv
<1>1. CASE StartRun(w) \/ Judge(w) \/ ExitRun(w)
  <2>1. UNCHANGED <<upcoming, tasksCh, running, disp, scanVars, scaler, members, dropped, done>>
    BY <1>1 DEF StartRun, Judge, ExitRun
  <2>2. \/ run[w] = "new" /\ run' = [run EXCEPT ![w] = "select"]
        \/ run[w] = "busy" /\ run' = [run EXCEPT ![w] = "judged"]
        \/ run[w] = "select" /\ run' = [run EXCEPT ![w] = "exited"]
    BY <1>1 DEF StartRun, Judge, ExitRun
  <2> QED  BY <1>0, <2>1, <2>2, NothingMoves DEF scanVars, Points, Typed
<1>2. CASE TakeTask(w)
  <2> DEFINE s == tasksCh[w]
  <2>1. /\ run[w] = "select" /\ s # <<>> /\ s \in Seq(Tasks) /\ Distinct(s)
        /\ run' = [run EXCEPT ![w] = "busy"] /\ running' = [running EXCEPT ![w] = Head(s)]
        /\ tasksCh' = [tasksCh EXCEPT ![w] = Tail(s)]
        /\ UNCHANGED <<upcoming, members, disp, offered, best, scaler, dropped, done>>
        /\ running[w] = NoTask
    BY <1>0, <1>2 DEF TakeTask, Typed, Points, Apart, scanVars
  <2>2. /\ Tail(s) \in Seq(Tasks) /\ Distinct(Tail(s)) /\ Head(s) \in Tasks
        /\ Range(s) = Range(Tail(s)) \cup {Head(s)} /\ Head(s) \notin Range(Tail(s))
    <3> HIDE DEF s
    <3> QED  BY <2>1, TailFacts
  <2>3. /\ tasksCh' \in [Ids -> Seq(Tasks)] /\ running' \in [Ids -> Tasks \cup {NoTask}]
        /\ tasksCh'[w] = Tail(s) /\ running'[w] = Head(s)
        /\ \A v \in Ids \ {w} : tasksCh'[v] = tasksCh[v] /\ running'[v] = running[v]
    BY <1>0, <2>1, <2>2 DEF Typed
  <2>4. \A v \in Ids : Holds(v)' = Holds(v)
    <3>1. Holds(w)' = Holds(w)
      BY <1>0, <2>1, <2>2, <2>3 DEF Holds
    <3> QED  BY <2>3, <3>1 DEF Holds
  <2>5. \A v \in Ids : Distinct(tasksCh'[v]) /\ running'[v] \notin Range(tasksCh'[v])
    BY <1>0, <2>2, <2>3 DEF Apart
  <2>6. Apart'
    BY <1>0, <2>1, <2>4, <2>5 DEF Apart, Elsewhere
  <2>7. Points'
    BY <1>0, <2>1, <2>2, <2>3 DEF Points, Typed
  <2> QED  BY <1>0, <2>1, <2>3, <2>6, <2>7 DEF OnceInv, Typed
<1>3. CASE Finish(w)
  <2> DEFINE t == running[w]
  <2>1. /\ run[w] = "judged" /\ run' = [run EXCEPT ![w] = "select"]
        /\ running' = [running EXCEPT ![w] = NoTask] /\ done' = done \cup {t} /\ t \in Tasks
        /\ UNCHANGED <<upcoming, members, tasksCh, disp, offered, best, scaler, dropped>>
    BY <1>0, <1>3 DEF Finish, Typed, Points, scanVars
  <2>2. /\ running' \in [Ids -> Tasks \cup {NoTask}] /\ running'[w] = NoTask
        /\ \A v \in Ids \ {w} : running'[v] = running[v]
    BY <1>0, <2>1 DEF Typed
  <2>3. /\ Holds(w) = Holds(w)' \cup {t} /\ t \notin Holds(w)'
        /\ \A v \in Ids \ {w} : Holds(v)' = Holds(v)
    BY <1>0, <2>1, <2>2 DEF Holds, Apart
  <2>4. Range(tasksCh[w]) \subseteq Tasks
    BY <1>0 DEF Typed, Range
  <2>5. \A v \in Ids : Distinct(tasksCh'[v]) /\ running'[v] \notin Range(tasksCh'[v])
    BY <1>0, <2>1, <2>2, <2>4 DEF Apart
  <2>6. Elsewhere' = Elsewhere \cup {t} /\ t \notin Elsewhere
    BY <1>0, <2>1, <2>3 DEF Elsewhere, Apart
  <2>7. Apart'
    BY <1>0, <2>1, <2>3, <2>5, <2>6 DEF Apart, Elsewhere
  <2>8. Points'
    BY <1>0, <2>1, <2>2 DEF Points, Typed
  <2> QED  BY <1>0, <2>1, <2>2, <2>7, <2>8 DEF OnceInv, Typed
<1> QED  BY <1>1, <1>2, <1>3 DEF Worker

LEMMA NextOnce == PoolAssumption /\ StopInv /\ OnceInv /\ [Next]_vars => OnceInv'
<1> SUFFICES ASSUME PoolAssumption, StopInv, OnceInv, [Next]_vars PROVE OnceInv'
  OBVIOUS
<1>1. CASE Grow
  <2>1. /\ scaler = "grow" /\ HasRoom /\ members' = members \cup {Max(members) + 1}
        /\ run' = [run EXCEPT ![Max(members) + 1] = "new"] /\ scaler' = "tick"
        /\ UNCHANGED <<upcoming, tasksCh, running, disp, scanVars, dropped, done>>
    BY <1>1 DEF Grow
  <2>2. PICK k \in 1..(MaxWorkers - 1) : members = 0..(k - 1) /\ Max(members) + 1 = k
    BY <2>1, NextNumber DEF StopInv
  <2>3. k \in Ids \ members /\ run[k] = "none"
    BY <2>1, <2>2 DEF Ids, PoolAssumption, OnceInv, Points
  <2> QED  BY <2>1, <2>2, <2>3, NothingMoves DEF scanVars, OnceInv, Typed, Points
<1>2. CASE Evaluate \/ ScalerExit \/ Shrink \/ DeleteStopped
  <2>1. /\ UNCHANGED <<upcoming, run, tasksCh, running, disp, scanVars, dropped, done>>
        /\ scaler' = "stuck" \/ (scaler # "stuck" /\ members' = members)
    BY <1>2 DEF Evaluate, ScalerExit, Shrink, DeleteStopped, workerVars
  <2> QED  BY <2>1, NothingMoves DEF scanVars, OnceInv, Typed, Points
<1>3. CASE Stop \/ StopWorkers
  BY <1>3, NothingMoves DEF Stop, StopWorkers, workerVars, scanVars, OnceInv, Typed, Points
<1>4. CASE UNCHANGED vars
  BY <1>4, NothingMoves DEF vars, workerVars, scanVars, OnceInv, Typed, Points
<1> QED  BY <1>1, <1>2, <1>3, <1>4, DispatcherOnce, WorkerOnce DEF Next, Scaler

LEMMA InitOnce == PoolAssumption /\ Init => StopInv /\ OnceInv
<1> SUFFICES ASSUME PoolAssumption, Init PROVE StopInv /\ OnceInv
  OBVIOUS
<1>1. MinWorkers \in 1..MaxWorkers
  BY DEF PoolAssumption
<1>2. StopInv
  BY <1>1 DEF Init, StopInv, Numbered
<1>3. NoTask \notin Tasks /\ \A w \in Ids : tasksCh[w] = <<>> /\ running[w] = NoTask
  BY DEF Init, PoolAssumption
<1>4. \A w \in Ids : Holds(w) = {} /\ Range(tasksCh[w]) = {} /\ Distinct(tasksCh[w])
  BY <1>3 DEF Holds, Range, Distinct
<1>5. Typed
  BY DEF Init, Typed
<1>6. \A w \in Ids \ members : run[w] = "none"
  BY <1>1 DEF Init, Ids
<1>7. Points
  BY <1>3, <1>6 DEF Init, Points
<1>8. Apart
  BY <1>3, <1>4 DEF Init, Apart, Elsewhere
<1> QED  BY <1>2, <1>5, <1>7, <1>8 DEF OnceInv

\* However the pool grows, shrinks and stops, a task the queue has answered is in one place:
\* no two workers, and no worker twice, get the same one.
THEOREM InOnePlace ==
  ASSUME PoolAssumption
  PROVE  Spec => []RunOnce
<1>1. OnceInv => RunOnce
  <2> SUFFICES ASSUME OnceInv, NEW t \in Tasks
               PROVE  Cardinality({w \in Ids : t \in Holds(w)})
                      + (IF t \in upcoming THEN 1 ELSE 0) + (IF t = offered THEN 1 ELSE 0)
                      + (IF t \in dropped THEN 1 ELSE 0) + (IF t \in done THEN 1 ELSE 0) = 1
    BY DEF RunOnce
  <2> DEFINE holders == {w \in Ids : t \in Holds(w)}
  <2>0. Apart /\ t # NoTask
    BY DEF OnceInv, PoolAssumption
  <2>1. CASE \E w \in Ids : t \in Holds(w)
    <3>1. PICK w \in Ids : t \in Holds(w)
      BY <2>1
    <3>2. holders = {w}
      BY <2>0, <3>1 DEF Apart
    <3>3. Cardinality(holders) = 1
      BY <3>2, FS_Singleton
    <3>4. t \notin upcoming /\ t \notin dropped /\ t \notin done /\ t # offered
      BY <2>0, <3>1 DEF Apart, Elsewhere
    <3> QED  BY <3>3, <3>4
  <2>2. CASE \A w \in Ids : t \notin Holds(w)
    <3>1. Cardinality(holders) = 0
      <4>1. holders = {}
        BY <2>2
      <4> QED  BY <4>1, FS_EmptySet
    <3>2. t \in Elsewhere
      BY <2>0, <2>2 DEF Apart
    <3>3. \/ t \in upcoming /\ t # offered /\ t \notin dropped /\ t \notin done
          \/ t = offered /\ t \notin upcoming /\ t \notin dropped /\ t \notin done
          \/ t \in dropped /\ t \notin upcoming /\ t # offered /\ t \notin done
          \/ t \in done /\ t \notin upcoming /\ t # offered /\ t \notin dropped
      BY <2>0, <3>2 DEF Elsewhere, Apart
    <3> QED  BY <3>1, <3>3
  <2> QED  BY <2>1, <2>2
<1> QED  BY <1>1, InitOnce, NextStop, NextOnce, PTL DEF Spec

-----------------------------------------------------------------------------
(* The types and the load.                                                 *)

\* The other variables, and the bounds on the channels and on the scan.
Bounded ==
    /\ members \in SUBSET Ids /\ seen \in SUBSET Ids
    /\ active \in [Ids -> BOOLEAN] /\ healthy \in [Ids -> BOOLEAN] /\ stopped \in [Ids -> BOOLEAN]
    /\ \A w \in Ids : Len(tasksCh[w]) <= ChanSize
    /\ disp \in {"head", "dequeue", "lock", "scan", "count", "exited"}
    /\ lowest \in 0..(ChanSize + 1)
    /\ scaler \in {"tick", "grow", "shrink", "stuck", "exited"}
    /\ stopping \in BOOLEAN /\ stopper \in {"idle", "lock", "wait"}

AllHeld == UNION {Holds(w) : w \in Ids}

\* The load is what the workers hold, but for a task that is sent and not counted yet.
LoadInv ==
    /\ IsFiniteSet(AllHeld) /\ currentLoad \in Int
    /\ currentLoad + (IF disp = "count" THEN 1 ELSE 0) = Cardinality(AllHeld)

LEMMA NextBounded ==
  ASSUME PoolAssumption, StopInv, OnceInv, Bounded, [Next]_vars
  PROVE  Bounded'
<1>0. ChanSize \in Nat /\ Typed
  BY DEF PoolAssumption, OnceInv
<1>1. ASSUME NEW w \in Ids, Look(w) PROVE Bounded'
  <2>1. Len(tasksCh[w]) \in 0..(ChanSize + 1)
    BY <1>0 DEF Bounded, Typed
  <2> QED  BY <1>1, <2>1 DEF Look, Bounded, workerVars, stopVars
<1>2. CASE Send
  <2>1. CASE Drop /\ UNCHANGED tasksCh
    BY <1>2, <2>1 DEF Send, Drop, Bounded, workerVars, stopVars
  <2>2. CASE ~(Drop /\ UNCHANGED tasksCh)
    <3>1. /\ Len(tasksCh[best]) < ChanSize /\ tasksCh' = [tasksCh EXCEPT ![best] = Append(@, offered)]
          /\ disp' = "count" /\ UNCHANGED <<workerVars, seen, lowest, scaler, stopVars>>
      BY <1>2, <2>2 DEF Send
    <3>2. ASSUME NEW w \in Ids PROVE Len(tasksCh'[w]) <= ChanSize
      <4>1. CASE w = best
        <5>1. tasksCh'[w] = Append(tasksCh[w], offered) /\ tasksCh[w] \in Seq(Tasks)
          BY <1>0, <3>1, <4>1 DEF Typed
        <5>2. Len(Append(tasksCh[w], offered)) = Len(tasksCh[w]) + 1
          BY <5>1
        <5>3. Len(tasksCh[w]) \in Nat
          BY <5>1
        <5> QED  BY <1>0, <3>1, <4>1, <5>1, <5>2, <5>3
      <4>2. CASE w # best
        BY <1>0, <3>1, <4>2 DEF Typed, Bounded
      <4> QED  BY <4>1, <4>2
    <3> QED  BY <3>1, <3>2 DEF Bounded, workerVars, stopVars
  <2> QED  BY <2>1, <2>2
<1>3. CASE DispatcherHead \/ Dequeue \/ StartScan \/ NobodyUsable \/ CountLoad
  BY <1>0, <1>3 DEF DispatcherHead, Dequeue, StartScan, NobodyUsable, CountLoad, Drop, Bounded,
                    workerVars, stopVars, scanVars
<1>4. ASSUME NEW w \in Ids, TakeTask(w) PROVE Bounded'
  <2>1. /\ tasksCh' = [tasksCh EXCEPT ![w] = Tail(@)] /\ tasksCh[w] # <<>>
        /\ tasksCh[w] \in Seq(Tasks) /\ tasksCh \in [Ids -> Seq(Tasks)]
    BY <1>0, <1>4 DEF TakeTask, Typed
  <2>2. Len(Tail(tasksCh[w])) <= Len(tasksCh[w]) /\ Len(tasksCh[w]) \in Nat
        /\ Len(Tail(tasksCh[w])) \in Nat
    BY <2>1
  <2>3. Len(tasksCh[w]) <= ChanSize
    BY DEF Bounded
  <2>4. \A v \in Ids : Len(tasksCh'[v]) <= ChanSize
    BY <1>0, <2>1, <2>2, <2>3 DEF Bounded
  <2> QED  BY <1>4, <2>4 DEF TakeTask, Bounded, workerVars, stopVars, scanVars
<1>5. ASSUME NEW w \in Ids, StartRun(w) \/ Judge(w) \/ Finish(w) \/ ExitRun(w) PROVE Bounded'
  BY <1>5 DEF StartRun, Judge, Finish, ExitRun, Bounded, stopVars, scanVars
<1>6. CASE Grow
  <2>1. /\ scaler = "grow" /\ HasRoom /\ members' = members \cup {Max(members) + 1}
        /\ scaler' = "tick"
        /\ UNCHANGED <<active, healthy, stopped, tasksCh, disp, scanVars, stopVars>>
    BY <1>6 DEF Grow
  <2>2. PICK k \in 1..(MaxWorkers - 1) : Max(members) + 1 = k
    BY <2>1, NextNumber DEF StopInv
  <2>3. k \in Ids
    BY <2>2 DEF Ids, PoolAssumption
  <2> QED  BY <2>1, <2>2, <2>3 DEF Bounded, stopVars, scanVars
<1>7. CASE Evaluate \/ ScalerExit \/ Shrink \/ DeleteStopped
  BY <1>7 DEF Evaluate, ScalerExit, Shrink, DeleteStopped, Bounded, workerVars, stopVars, scanVars
<1>8. CASE Stop \/ StopWorkers \/ UNCHANGED vars
  BY <1>8 DEF Stop, StopWorkers, vars, Bounded, workerVars, stopVars, scanVars
<1> QED  BY <1>1, <1>2, <1>3, <1>4, <1>5, <1>6, <1>7, <1>8 DEF Next, Dispatcher, Worker, Scaler

\* Only a send gives a worker a task, and only the end of a task takes one from it.
LEMMA HoldsStay ==
  ASSUME PoolAssumption, OnceInv, [Next]_vars, ~Send, ~\E w \in Ids : Finish(w)
  PROVE  AllHeld' = AllHeld
<1>0. NoTask \notin Tasks /\ Typed /\ Points /\ Apart
  BY DEF PoolAssumption, OnceInv
<1>1. ASSUME NEW w \in Ids, TakeTask(w) PROVE \A v \in Ids : Holds(v)' = Holds(v)
  <2>1. /\ tasksCh[w] # <<>> /\ tasksCh[w] \in Seq(Tasks) /\ Distinct(tasksCh[w])
        /\ running' = [running EXCEPT ![w] = Head(tasksCh[w])]
        /\ tasksCh' = [tasksCh EXCEPT ![w] = Tail(tasksCh[w])] /\ running[w] = NoTask
    BY <1>0, <1>1 DEF TakeTask, Typed, Points, Apart
  <2>2. Head(tasksCh[w]) \in Tasks /\ Range(tasksCh[w]) = Range(Tail(tasksCh[w])) \cup {Head(tasksCh[w])}
    BY <2>1, TailFacts
  <2>3. /\ tasksCh'[w] = Tail(tasksCh[w]) /\ running'[w] = Head(tasksCh[w])
        /\ \A v \in Ids \ {w} : tasksCh'[v] = tasksCh[v] /\ running'[v] = running[v]
    BY <1>0, <2>1 DEF Typed
  <2>4. Holds(w)' = Holds(w)
    BY <1>0, <2>1, <2>2, <2>3 DEF Holds
  <2> QED  BY <2>3, <2>4 DEF Holds
<1>2. ASSUME ~\E w \in Ids : TakeTask(w) PROVE UNCHANGED <<tasksCh, running>>
  BY <1>2 DEF Next, Dispatcher, Worker, Scaler, vars, DispatcherHead, Dequeue, StartScan, Look,
              NobodyUsable, CountLoad, StartRun, Judge, ExitRun, Evaluate, ScalerExit, Shrink,
              DeleteStopped, Grow, Stop, StopWorkers, workerVars
<1> QED  BY <1>1, <1>2 DEF AllHeld, Holds

LEMMA NextLoad ==
  ASSUME PoolAssumption, OnceInv, LoadInv, [Next]_vars
  PROVE  LoadInv'
<1>0. NoTask \notin Tasks /\ Typed /\ Points /\ Apart
  BY DEF PoolAssumption, OnceInv
<1>1. CASE Send /\ Drop /\ UNCHANGED tasksCh
  BY <1>1 DEF Send, Drop, LoadInv, AllHeld, Holds, workerVars
<1>2. CASE Send /\ ~(Drop /\ UNCHANGED tasksCh)
  <2>1. PICK b \in Ids : b = best
    BY <1>0, <1>2 DEF Send, Typed
  <2>2. /\ offered \in Tasks /\ disp = "scan" /\ disp' = "count" /\ currentLoad' = currentLoad
        /\ tasksCh' = [tasksCh EXCEPT ![b] = Append(@, offered)] /\ running' = running
    BY <1>0, <1>2, <2>1 DEF Send, Typed, Points, workerVars
  <2>3. \A w \in Ids : offered \notin Holds(w)
    BY <1>0, <2>2 DEF Apart, Elsewhere
  <2>4. Range(Append(tasksCh[b], offered)) = Range(tasksCh[b]) \cup {offered}
    BY <1>0, <2>2, <2>3, AppendFacts DEF Typed, Apart, Holds
  <2>5. /\ Holds(b)' = Holds(b) \cup {offered}
        /\ \A w \in Ids \ {b} : Holds(w)' = Holds(w)
    BY <1>0, <2>2, <2>4 DEF Holds, Typed
  <2>6. AllHeld' = AllHeld \cup {offered} /\ offered \notin AllHeld
    BY <2>3, <2>5 DEF AllHeld
  <2> QED  BY <2>2, <2>6, FS_AddElement, FS_CardinalityType DEF LoadInv
<1>3. ASSUME NEW w \in Ids, Finish(w) PROVE LoadInv'
  <2>1. /\ running' = [running EXCEPT ![w] = NoTask] /\ tasksCh' = tasksCh /\ disp' = disp
        /\ currentLoad' = currentLoad - 1 /\ running[w] \in Tasks
    BY <1>0, <1>3 DEF Finish, Typed, Points
  <2>2. /\ Holds(w) = Holds(w)' \cup {running[w]} /\ running[w] \notin Holds(w)'
        /\ \A v \in Ids \ {w} : Holds(v)' = Holds(v)
    BY <1>0, <2>1 DEF Holds, Apart, Typed
  <2>3. \A v \in Ids \ {w} : running[w] \notin Holds(v)
    BY <1>0, <2>1 DEF Apart, Holds
  <2>4. AllHeld' = AllHeld \ {running[w]} /\ running[w] \in AllHeld
    BY <2>2, <2>3 DEF AllHeld
  <2> QED  BY <2>1, <2>4, FS_RemoveElement, FS_CardinalityType DEF LoadInv
<1>4. ASSUME ~Send, ~\E w \in Ids : Finish(w) PROVE LoadInv'
  <2>1. AllHeld' = AllHeld
    BY <1>4, HoldsStay
  <2>2. CASE CountLoad
    BY <2>1, <2>2 DEF CountLoad, LoadInv
  <2>3. CASE ~CountLoad
    <3>1. currentLoad' = currentLoad /\ (disp' = "count" <=> disp = "count")
      BY <1>4, <2>3 DEF Next, Dispatcher, Worker, Scaler, vars, DispatcherHead, Dequeue, StartScan, Look,
              NobodyUsable, Drop, StartRun, TakeTask, Judge, ExitRun, Evaluate, ScalerExit, Shrink,
              DeleteStopped, Grow, Stop, StopWorkers
    <3> QED  BY <2>1, <3>1 DEF LoadInv
  <2> QED  BY <2>2, <2>3
<1> QED  BY <1>1, <1>2, <1>3, <1>4

LEMMA InitLoad == PoolAssumption /\ Init => Bounded /\ LoadInv
<1> SUFFICES ASSUME PoolAssumption, Init PROVE Bounded /\ LoadInv
  OBVIOUS
<1>1. Bounded
  <2>1. 0..(MinWorkers - 1) \subseteq Ids /\ ChanSize + 1 \in 0..(ChanSize + 1) /\ 0 <= ChanSize
    BY DEF PoolAssumption, Ids
  <2>2. \A w \in Ids : Len(tasksCh[w]) = 0
    BY DEF Init
  <2> QED  BY <2>1, <2>2 DEF Init, Bounded
<1>2. \A w \in Ids : Range(tasksCh[w]) = {} /\ running[w] = NoTask
  BY DEF Init, Range
<1>3. AllHeld = {}
  BY <1>2 DEF AllHeld, Holds
<1> QED  BY <1>1, <1>3, FS_EmptySet DEF Init, LoadInv

LEMMA PoolOfAll == AllSpec => Spec
<1>1. AllInit => Init
  BY DEF AllInit
<1>2. [AllNext]_allVars => [Next]_vars
  BY DEF AllNext, allVars, PoolStep, LocksStep
<1> QED  BY <1>1, <1>2, PTL DEF AllSpec, Spec

\* A task the queue has answered is run once at most and is in one place, and the load of
\* the engine, which is added to after the send and may be behind the worker's own
\* subtraction, is the number of the tasks that were accepted and not finished.
THEOREM TasksAreAccounted == AllSpec => []TasksAccounted
<1>1. PoolAssumption
  BY Parameters
<1>2. Init => StopInv /\ OnceInv /\ Bounded /\ LoadInv
  BY <1>1, InitOnce, InitLoad
<1>3. ASSUME StopInv /\ OnceInv /\ Bounded /\ LoadInv, [Next]_vars
      PROVE  (StopInv /\ OnceInv /\ Bounded /\ LoadInv)'
  BY <1>1, <1>3, NextStop, NextOnce, NextBounded, NextLoad
<1>4. OnceInv /\ Bounded /\ LoadInv => TypeOK /\ LoadExact
  BY DEF OnceInv, Typed, Bounded, LoadInv, TypeOK, LoadExact, AllHeld
<1>5. Spec => []RunOnce
  BY <1>1, InOnePlace
<1>6. TypeOK /\ LoadExact /\ RunOnce => TasksAccounted
  BY DEF TasksAccounted
<1> QED  BY <1>2, <1>3, <1>4, <1>5, <1>6, PoolOfAll, PTL DEF Spec

-----------------------------------------------------------------------------
(* A dead pool.                                                            *)

\* The sum over channels that are all empty: what the iteration of MapThenSumSet chooses is
\* 0 for every set, as no set can be the smallest for which it is not.
LEMMA NothingQueued ==
  ASSUME IsFiniteSet(members), \A w \in members : tasksCh[w] = <<>>
  PROVE  Queued = 0
<1> DEFINE
      one(s) == CHOOSE x \in s : TRUE
      Body(g) == [s \in SUBSET members |->
                     IF s = {} THEN 0 ELSE Len(tasksCh[one(s)]) + g[s \ {one(s)}]]
      sum == CHOOSE g : g = Body(g)
      none == [s \in SUBSET members |-> 0]
<1>1. Queued = sum[members]
  BY DEF Queued, MapThenSumSet, MapThenFoldSet
<1>2. \A s \in SUBSET members : s # {} => one(s) \in s /\ Len(tasksCh[one(s)]) = 0
  BY Len(<<>>) = 0
<1>3. none = Body(none)
  BY <1>2
<1>4. sum = Body(sum)
  <2> HIDE DEF Body, none
  <2> QED  BY <1>3
<1> HIDE DEF sum
<1>5. ASSUME {s \in SUBSET members : sum[s] # 0} # {} PROVE FALSE
  <2> DEFINE T == {s \in SUBSET members : sum[s] # 0}
  <2>1. IsWellFoundedOn(StrictSubsetOrdering(members), SUBSET members)
    BY FS_FiniteSubsetsOfFinite, FS_StrictSubsetOrderingWellFounded
  <2>2. PICK s \in T : \A r \in T : <<r, s>> \notin StrictSubsetOrdering(members)
    <3>1. T \subseteq SUBSET members /\ T # {}
      BY <1>5
    <3> HIDE DEF T
    <3> QED  BY <2>1, <3>1, WFMin
  <2>3. sum[s] = IF s = {} THEN 0 ELSE Len(tasksCh[one(s)]) + sum[s \ {one(s)}]
    BY <1>4
  <2>4. s # {} /\ one(s) \in s
    BY <2>3
  <2>5. <<s \ {one(s)}, s>> \in StrictSubsetOrdering(members)
    BY <2>4 DEF StrictSubsetOrdering
  <2>6. sum[s \ {one(s)}] = 0
    BY <2>2, <2>5
  <2> QED  BY <1>2, <2>3, <2>4, <2>6
<1> QED  BY <1>1, <1>5

\* Of a dead pool the dispatcher finds no usable worker, no worker runs, and the monitor sees
\* a load of 0: none of them can change that.
LEMMA DeadStays ==
  ASSUME PoolAssumption, OnceInv, Bounded, DeadPool, [Next]_vars
  PROVE  DeadPool'
<1>0. /\ Typed /\ members \in SUBSET Ids /\ scaler # "grow"
      /\ \A w \in members : /\ run[w] \in {"select", "exited"} /\ ~healthy[w] /\ tasksCh[w] = <<>>
                            /\ disp = "scan" => best # w
  BY DEF OnceInv, Bounded, DeadPool, Quarantined
<1>1. ASSUME scaler' # "grow", members' \subseteq members,
             \A w \in members : /\ run'[w] \in {"select", "exited"} /\ ~healthy'[w]
                               /\ tasksCh'[w] = <<>> /\ (disp' = "scan" => best' # w)
      PROVE  DeadPool'
  BY <1>1 DEF DeadPool, Quarantined
<1>2. CASE DispatcherHead \/ Dequeue \/ NobodyUsable \/ CountLoad
  BY <1>0, <1>1, <1>2 DEF DispatcherHead, Dequeue, NobodyUsable, CountLoad, Drop, workerVars
<1>3. CASE StartScan
  <2>1. \A w \in members : NoWorker # w
    BY <1>0 DEF Ids, NoWorker
  <2> QED  BY <1>0, <1>1, <1>3, <2>1 DEF StartScan, workerVars
<1>4. ASSUME NEW w \in Ids, Look(w) PROVE DeadPool'
  BY <1>0, <1>1, <1>4 DEF Look, Usable, workerVars
<1>5. CASE Send
  <2>1. disp' # "scan" /\ UNCHANGED <<workerVars, scaler>>
    BY <1>5 DEF Send, Drop
  <2>2. \A w \in members : tasksCh'[w] = tasksCh[w]
    BY <1>0, <1>5 DEF Send, Typed
  <2> QED  BY <1>0, <1>1, <2>1, <2>2 DEF workerVars
<1>6. ASSUME NEW w \in Ids, Worker(w) PROVE DeadPool'
  <2>1. /\ UNCHANGED <<members, disp, best, scaler>>
        /\ \A v \in Ids : v # w => run'[v] = run[v] /\ healthy'[v] = healthy[v] /\ tasksCh'[v] = tasksCh[v]
    BY <1>0, <1>6 DEF Worker, StartRun, TakeTask, Judge, Finish, ExitRun, scanVars, Typed, Bounded
  <2>2. ASSUME w \in members
        PROVE  run'[w] = "exited" /\ healthy' = healthy /\ tasksCh' = tasksCh
    BY <1>0, <1>6, <2>2 DEF Worker, StartRun, TakeTask, Judge, Finish, ExitRun, Typed
  <2> QED  BY <1>0, <1>1, <2>1, <2>2
<1>7. CASE Evaluate
  <2>1. IsFiniteSet(members)
    <3>1. IsFiniteSet(Ids)
      BY FS_Interval DEF Ids, PoolAssumption
    <3> QED  BY <1>0, <3>1, FS_Subset
  <2>2. Queued = 0 /\ Cardinality(members) \in Nat
    BY <1>0, <2>1, NothingQueued, FS_CardinalityType
  <2>3. ~Overloaded
    BY <2>2 DEF Overloaded
  <2> QED  BY <1>0, <1>1, <1>7, <2>3 DEF Evaluate, workerVars, scanVars
<1>8. CASE Shrink \/ DeleteStopped \/ ScalerExit
  BY <1>0, <1>1, <1>8 DEF Shrink, DeleteStopped, ScalerExit, workerVars, scanVars
<1>9. CASE Stop \/ StopWorkers \/ UNCHANGED vars
  BY <1>0, <1>1, <1>9 DEF Stop, StopWorkers, vars, workerVars, scanVars
<1>10. ~Grow
  BY <1>0 DEF Grow
<1> QED  BY <1>2, <1>3, <1>4, <1>5, <1>6, <1>7, <1>8, <1>9, <1>10 DEF Next, Dispatcher, Scaler

\* Once every worker of the map has failed its last task the pool gives up every later one,
\* whatever is queued, until it is started anew: only a success makes a worker usable again.
THEOREM DeadForGood == AllSpec => DeadPoolStaysDead
<1>1. PoolAssumption
  BY Parameters
<1>2. Init => StopInv /\ OnceInv /\ Bounded
  BY <1>1, InitOnce, InitLoad
<1>3. ASSUME StopInv /\ OnceInv /\ Bounded, [Next]_vars PROVE (StopInv /\ OnceInv /\ Bounded)'
  BY <1>1, <1>3, NextStop, NextOnce, NextBounded
<1>4. ASSUME StopInv /\ OnceInv /\ Bounded, [Next]_vars PROVE [DeadPool => DeadPool']_vars
  BY <1>1, <1>4, DeadStays
<1> QED  BY <1>2, <1>3, <1>4, PoolOfAll, PTL DEF Spec, DeadPoolStaysDead

-----------------------------------------------------------------------------
(* The locks of the pool.                                                  *)

Ops == [what : {"RLock", "RUnlock", "Lock", "Unlock", "go"}, lock : Locking!Locks]

\* In every function but GetStats a lock that is taken for reading is given back at once.
ReadShape(s) ==
    /\ \A i \in 1..Len(s) :
           s[i].what = "RLock" => i < Len(s) /\ s[i + 1] = Locking!RUnlock(s[i].lock)
    /\ \A i \in 2..Len(s) : s[i].what = "RUnlock" => s[i - 1].what = "RLock"

\* What is left of GetStats.
StatsShape(s) ==
    /\ Len(s) <= 6
    /\ \A i \in 1..Len(s) : s[i] = Locking!GetStats[6 - Len(s) + i]

\* A lock is given back once by a function that writes, and the worker is deleted between the
\* two, in removeWorker, which asks to read meanwhile.
Nested == <<Locking!RLock("workers"), Locking!RUnlock("workers"), Locking!Unlock("workers")>>
WriteShape(s) ==
    /\ \A i, j \in 1..Len(s) : s[i] = s[j] /\ s[i].what = "Unlock" => i = j
    /\ \A i \in 1..Len(s) :
           s[i].what = "go" => /\ Len(s) = i + 3 /\ s[i + 1] = Nested[1]
                               /\ s[i + 2] = Nested[2] /\ s[i + 3] = Nested[3]

Shape(t, s) == WriteShape(s) /\ IF t = "stats" THEN StatsShape(s) ELSE ReadShape(s)

\* How often a goroutine has a lock for reading, by what is left of its function.
Reads(t, s, l) ==
    IF t # "stats" THEN IF s # <<>> /\ s[1] = Locking!RUnlock(l) THEN 1 ELSE 0
    ELSE IF l = "health" THEN IF Len(s) = 2 THEN 1 ELSE 0
    ELSE IF Len(s) = 4 THEN 2 ELSE IF Len(s) \in {1, 2, 3, 5} THEN 1 ELSE 0

\* What is left gives the lock back without taking it first.
Ends(s, l) == \E i \in 1..Len(s) : /\ s[i] = Locking!Unlock(l)
                                   /\ \A j \in 1..(i - 1) : s[j] # Locking!Lock(l)

LEMMA TwoAndTwo ==
  ASSUME NEW a, NEW b, NEW c, NEW d
  PROVE  <<a, b>> \o <<c, d>> = <<a, b, c, d>>
<1> DEFINE S == {a, b, c, d}
<1>1. <<a, b>> \in Seq(S) /\ <<c, d>> \in Seq(S) /\ <<a, b, c, d>> \in Seq(S)
  OBVIOUS
<1>2. \A i \in 1..4 : (<<a, b>> \o <<c, d>>)[i] = <<a, b, c, d>>[i]
  OBVIOUS
<1>3. Len(<<a, b>> \o <<c, d>>) = 4 /\ <<a, b>> \o <<c, d>> \in Seq(S)
  BY <1>1
<1> HIDE DEF S
<1> QED  BY <1>1, <1>2, <1>3, SeqEqual

LEMMA FourAndOne ==
  ASSUME NEW a, NEW b, NEW c, NEW d, NEW e
  PROVE  <<a, b, c, d>> \o <<e>> = <<a, b, c, d, e>>
<1> DEFINE S == {a, b, c, d, e}
<1>1. <<a, b, c, d>> \in Seq(S) /\ <<e>> \in Seq(S) /\ <<a, b, c, d, e>> \in Seq(S)
  OBVIOUS
<1>2. \A i \in 1..5 : (<<a, b, c, d>> \o <<e>>)[i] = <<a, b, c, d, e>>[i]
  OBVIOUS
<1>3. Len(<<a, b, c, d>> \o <<e>>) = 5 /\ <<a, b, c, d>> \o <<e>> \in Seq(S)
  BY <1>1
<1> HIDE DEF S
<1> QED  BY <1>1, <1>2, <1>3, SeqEqual

LEMMA OneTwoAndThree ==
  ASSUME NEW a, NEW b, NEW c, NEW d, NEW e, NEW f
  PROVE  (<<a>> \o <<b, c>>) \o <<d, e, f>> = <<a, b, c, d, e, f>>
<1> DEFINE S == {a, b, c, d, e, f}
           p == <<a>> \o <<b, c>>
<1>1. <<a>> \in Seq(S) /\ <<b, c>> \in Seq(S) /\ <<a, b, c, d, e, f>> \in Seq(S)
      /\ <<d, e, f>> \in Seq(S)
  OBVIOUS
<1>2. p \in Seq(S) /\ Len(p) = 3 /\ p[1] = a /\ p[2] = b /\ p[3] = c
  BY <1>1
<1> DEFINE q == <<d, e, f>>
           r == <<a, b, c, d, e, f>>
<1>3. q \in Seq(S) /\ Len(q) = 3 /\ q[1] = d /\ q[2] = e /\ q[3] = f
  BY <1>1
<1>4. r \in Seq(S) /\ Len(r) = 6 /\ r[1] = a /\ r[2] = b /\ r[3] = c /\ r[4] = d /\ r[5] = e
      /\ r[6] = f
  BY <1>1
<1> HIDE DEF p, q, r, S
<1>5. /\ p \o q \in Seq(S) /\ Len(p \o q) = 6
      /\ \A i \in 1..6 : (p \o q)[i] = IF i <= 3 THEN p[i] ELSE q[i - 3]
  <2>1. /\ p \o q \in Seq(S) /\ Len(p \o q) = Len(p) + Len(q)
        /\ \A i \in 1..(Len(p) + Len(q)) : (p \o q)[i] = IF i <= Len(p) THEN p[i] ELSE q[i - Len(p)]
    BY ONLY <1>2, <1>3, ConcatProperties
  <2>2. Len(p) = 3 /\ Len(q) = 3 /\ 3 + 3 = 6
    BY <1>2, <1>3
  <2> QED  BY <2>1, <2>2
<1>6. \A i \in 1..6 : (p \o q)[i] = r[i]
  BY <1>2, <1>3, <1>4, <1>5
<1>7. p \o q = r
  BY <1>6, <1>4, <1>5, SeqEqual
<1> QED  BY <1>7 DEF p, q, r

LEMMA FunctionsSpelled ==
  /\ Locking!Count = <<Locking!RLock("workers"), Locking!RUnlock("workers")>>
  /\ Locking!createWorker = <<Locking!Lock("workers"), Locking!Unlock("workers"),
                              Locking!RLock("workers"), Locking!RUnlock("workers")>>
  /\ Locking!removeWorker = <<Locking!Lock("workers"), Locking!GoDelete, Locking!RLock("workers"),
                              Locking!RUnlock("workers"), Locking!Unlock("workers")>>
  /\ Locking!GetStats = <<Locking!RLock("workers"), Locking!RLock("workers"), Locking!RUnlock("workers"),
                          Locking!RLock("health"), Locking!RUnlock("health"), Locking!RUnlock("workers")>>
<1>1. Locking!Count = <<Locking!RLock("workers"), Locking!RUnlock("workers")>>
  BY DEF Locking!Count
<1>2. Locking!createWorker = <<Locking!Lock("workers"), Locking!Unlock("workers"),
                              Locking!RLock("workers"), Locking!RUnlock("workers")>>
  BY <1>1, TwoAndTwo, Zenon DEF Locking!createWorker
<1>3. Locking!removeWorker = <<Locking!Lock("workers"), Locking!GoDelete, Locking!RLock("workers"),
                              Locking!RUnlock("workers"), Locking!Unlock("workers")>>
  <2>1. Locking!removeWorker = (<<Locking!Lock("workers"), Locking!GoDelete>> \o
           <<Locking!RLock("workers"), Locking!RUnlock("workers")>>) \o <<Locking!Unlock("workers")>>
    BY <1>1 DEF Locking!removeWorker
  <2>2. <<Locking!Lock("workers"), Locking!GoDelete>> \o
           <<Locking!RLock("workers"), Locking!RUnlock("workers")>>
        = <<Locking!Lock("workers"), Locking!GoDelete, Locking!RLock("workers"),
            Locking!RUnlock("workers")>>
    BY TwoAndTwo
  <2> QED  BY <2>1, <2>2, FourAndOne
<1>4. Locking!GetStats = <<Locking!RLock("workers"), Locking!RLock("workers"), Locking!RUnlock("workers"),
                          Locking!RLock("health"), Locking!RUnlock("health"), Locking!RUnlock("workers")>>
  <2>1. Locking!GetStats = (<<Locking!RLock("workers")>> \o
           <<Locking!RLock("workers"), Locking!RUnlock("workers")>>) \o
           <<Locking!RLock("health"), Locking!RUnlock("health"), Locking!RUnlock("workers")>>
    BY <1>1 DEF Locking!GetStats
  <2> QED  BY <2>1, OneTwoAndThree
<1> QED  BY <1>1, <1>2, <1>3, <1>4

LEMMA UpToSix == \A n \in Nat \ {0} : n <= 6 => n \in 1..6 /\ n \in {1, 2, 3, 4, 5, 6}
  OBVIOUS

LEMMA EndsOfTail ==
  ASSUME NEW s \in Seq(Ops), s # <<>>, WriteShape(s), NEW l \in Locking!Locks
  PROVE  /\ s[1] \notin {Locking!Lock(l), Locking!Unlock(l)} => (Ends(Tail(s), l) <=> Ends(s, l))
         /\ s[1] = Locking!Unlock(l) => Ends(s, l) /\ ~Ends(Tail(s), l)
<1>1. /\ Len(Tail(s)) = Len(s) - 1 /\ Len(s) \in Nat \ {0}
      /\ \A i \in 1..(Len(s) - 1) : Tail(s)[i] = s[i + 1]
  OBVIOUS
<1>2. ASSUME s[1] # Locking!Lock(l), NEW i \in 1..(Len(s) - 1), Tail(s)[i] = Locking!Unlock(l),
             \A j \in 1..(i - 1) : Tail(s)[j] # Locking!Lock(l)
      PROVE  Ends(s, l)
  <2>1. i + 1 \in 1..Len(s) /\ s[i + 1] = Locking!Unlock(l)
    BY <1>1, <1>2
  <2>2. ASSUME NEW j \in 1..i PROVE s[j] # Locking!Lock(l)
    <3>1. CASE j = 1
      BY <1>2, <3>1
    <3>2. CASE j # 1
      <4>1. j - 1 \in 1..(i - 1) /\ j - 1 \in 1..(Len(s) - 1) /\ (j - 1) + 1 = j
        BY <1>1, <3>2
      <4> QED  BY <1>1, <1>2, <4>1
    <3> QED  BY <3>1, <3>2
  <2> QED  BY <2>1, <2>2 DEF Ends
<1>3. ASSUME s[1] # Locking!Unlock(l), NEW i \in 1..Len(s), s[i] = Locking!Unlock(l),
             \A j \in 1..(i - 1) : s[j] # Locking!Lock(l)
      PROVE  Ends(Tail(s), l)
  <2>1. i - 1 \in 1..(Len(s) - 1) /\ Tail(s)[i - 1] = Locking!Unlock(l)
    BY <1>1, <1>3
  <2>2. \A j \in 1..((i - 1) - 1) : Tail(s)[j] # Locking!Lock(l)
    BY <1>1, <1>3
  <2> QED  BY <1>1, <2>1, <2>2 DEF Ends
<1>4. ASSUME s[1] = Locking!Unlock(l) PROVE Ends(s, l) /\ ~Ends(Tail(s), l)
  <2>1. Ends(s, l)
    BY <1>1, <1>4 DEF Ends
  <2>2. ASSUME NEW i \in 1..(Len(s) - 1), Tail(s)[i] = Locking!Unlock(l) PROVE FALSE
    <3>1. i + 1 \in 1..Len(s) /\ 1 \in 1..Len(s) /\ s[i + 1] = s[1] /\ s[1].what = "Unlock"
      BY <1>1, <1>4, <2>2 DEF Locking!Unlock, Locking!Op
    <3>2. i + 1 = 1
      BY <3>1 DEF WriteShape
    <3> QED  BY <3>2
  <2> QED  BY <1>1, <2>1, <2>2 DEF Ends
<1>5. s[1] # Locking!Lock(l) /\ Ends(Tail(s), l) => Ends(s, l)
  BY <1>1, <1>2 DEF Ends
<1>6. s[1] # Locking!Unlock(l) /\ Ends(s, l) => Ends(Tail(s), l)
  BY <1>3 DEF Ends
<1> QED  BY <1>4, <1>5, <1>6

LEMMA TailMoves ==
  ASSUME NEW t, NEW s \in Seq(Ops), s # <<>>, Shape(t, s)
  PROVE  /\ Tail(s) \in Seq(Ops) /\ Shape(t, Tail(s))
         /\ \A l \in Locking!Locks :
                /\ Reads(t, Tail(s), l) = Reads(t, s, l) + (IF s[1] = Locking!RLock(l) THEN 1 ELSE 0)
                                                         - (IF s[1] = Locking!RUnlock(l) THEN 1 ELSE 0)
                /\ s[1] = Locking!RUnlock(l) => Reads(t, s, l) >= 1
                /\ s[1] \notin {Locking!Lock(l), Locking!Unlock(l)} => (Ends(Tail(s), l) <=> Ends(s, l))
                /\ s[1] = Locking!Unlock(l) => Ends(s, l) /\ ~Ends(Tail(s), l)
<1>1. /\ Tail(s) \in Seq(Ops) /\ Len(Tail(s)) = Len(s) - 1 /\ Len(s) \in Nat \ {0}
      /\ \A i \in 1..(Len(s) - 1) : Tail(s)[i] = s[i + 1]
      /\ \A i \in 1..Len(s) : s[i] \in Ops
  OBVIOUS
<1>2. WriteShape(Tail(s))
  <2>1. ASSUME NEW i \in 1..(Len(s) - 1), NEW j \in 1..(Len(s) - 1),
               Tail(s)[i] = Tail(s)[j], Tail(s)[i].what = "Unlock"
        PROVE  i = j
    <3>1. i + 1 \in 1..Len(s) /\ j + 1 \in 1..Len(s) /\ s[i + 1] = s[j + 1]
          /\ s[i + 1].what = "Unlock"
      BY <1>1, <2>1
    <3>2. i + 1 = j + 1
      BY <3>1 DEF Shape, WriteShape
    <3> QED  BY <3>2
  <2>2. ASSUME NEW i \in 1..(Len(s) - 1), Tail(s)[i].what = "go"
        PROVE  /\ Len(s) - 1 = i + 3 /\ Tail(s)[i + 1] = Nested[1]
               /\ Tail(s)[i + 2] = Nested[2] /\ Tail(s)[i + 3] = Nested[3]
    <3>1. i + 1 \in 1..Len(s) /\ s[i + 1].what = "go"
      BY <1>1, <2>2
    <3>2. Len(s) = (i + 1) + 3 /\ s[(i + 1) + 1] = Nested[1] /\ s[(i + 1) + 2] = Nested[2]
          /\ s[(i + 1) + 3] = Nested[3]
      BY <3>1 DEF Shape, WriteShape
    <3> QED  BY <1>1, <3>2
  <2> QED  BY <1>1, <2>1, <2>2 DEF WriteShape
<1>3. CASE t = "stats"
  <2>1. Len(s) \in 1..6 /\ \A i \in 1..Len(s) : s[i] = Locking!GetStats[6 - Len(s) + i]
    <3>1. StatsShape(s)
      BY <1>3 DEF Shape
    <3>2. Len(s) <= 6 /\ \A i \in 1..Len(s) : s[i] = Locking!GetStats[6 - Len(s) + i]
      BY <3>1 DEF StatsShape
    <3>3. Len(s) \in 1..6
      <4>1. Len(s) \in Nat \ {0}
        BY ONLY <1>1
      <4>2. Len(s) <= 6
        BY ONLY <3>2
      <4> QED  BY ONLY <4>1, <4>2, UpToSix
    <3> QED  BY ONLY <3>2, <3>3
  <2>2. s[1] = Locking!GetStats[7 - Len(s)]
    <3>1. 1 \in 1..Len(s) /\ 6 - Len(s) + 1 = 7 - Len(s)
      BY <1>1
    <3> QED  BY <2>1, <3>1
  <2>3. StatsShape(Tail(s))
    <3>1. ASSUME NEW i \in 1..(Len(s) - 1)
          PROVE  Tail(s)[i] = Locking!GetStats[6 - (Len(s) - 1) + i]
      <4>1. i + 1 \in 1..Len(s) /\ Tail(s)[i] = s[i + 1]
            /\ 6 - Len(s) + (i + 1) = 6 - (Len(s) - 1) + i
        BY <1>1
      <4> QED  BY <2>1, <4>1
    <3>2. /\ Len(Tail(s)) = Len(s) - 1 /\ Len(Tail(s)) <= 6
          /\ \A i \in 1..Len(Tail(s)) : Tail(s)[i] = Locking!GetStats[6 - Len(Tail(s)) + i]
      <4>1. Len(Tail(s)) = Len(s) - 1 /\ Len(s) - 1 <= 6
        BY <1>1, <2>1
      <4> QED  BY ONLY <3>1, <4>1
    <3> QED  BY ONLY <3>2 DEF StatsShape
  <2>4. \A l \in Locking!Locks :
                /\ Reads(t, Tail(s), l) = Reads(t, s, l) + (IF s[1] = Locking!RLock(l) THEN 1 ELSE 0)
                                                         - (IF s[1] = Locking!RUnlock(l) THEN 1 ELSE 0)
                /\ s[1] = Locking!RUnlock(l) => Reads(t, s, l) >= 1
    <3>1. /\ Locking!GetStats[1] = Locking!RLock("workers") /\ Locking!GetStats[2] = Locking!RLock("workers")
          /\ Locking!GetStats[3] = Locking!RUnlock("workers") /\ Locking!GetStats[4] = Locking!RLock("health")
          /\ Locking!GetStats[5] = Locking!RUnlock("health") /\ Locking!GetStats[6] = Locking!RUnlock("workers")
      BY FunctionsSpelled
    <3>2. /\ Len(s) = 6 => s[1] = Locking!RLock("workers")
          /\ Len(s) = 5 => s[1] = Locking!RLock("workers")
          /\ Len(s) = 4 => s[1] = Locking!RUnlock("workers")
          /\ Len(s) = 3 => s[1] = Locking!RLock("health")
          /\ Len(s) = 2 => s[1] = Locking!RUnlock("health")
          /\ Len(s) = 1 => s[1] = Locking!RUnlock("workers")
      <4>1. ASSUME NEW n \in {1, 2, 3, 4, 5, 6}, s[1] = Locking!GetStats[7 - n]
            PROVE  /\ n = 6 => s[1] = Locking!RLock("workers")
                   /\ n = 5 => s[1] = Locking!RLock("workers")
                   /\ n = 4 => s[1] = Locking!RUnlock("workers")
                   /\ n = 3 => s[1] = Locking!RLock("health")
                   /\ n = 2 => s[1] = Locking!RUnlock("health")
                   /\ n = 1 => s[1] = Locking!RUnlock("workers")
        BY ONLY <3>1, <4>1
      <4>2. Len(s) \in {1, 2, 3, 4, 5, 6}
        <5>1. Len(s) \in 1..6
          BY ONLY <2>1
        <5> QED  BY ONLY <5>1
      <4> QED  BY ONLY <2>2, <4>1, <4>2
    <3>3. \A l, k : Locking!RLock(l) # Locking!RUnlock(k)
                   /\ (Locking!RLock(l) = Locking!RLock(k) => l = k)
                   /\ (Locking!RUnlock(l) = Locking!RUnlock(k) => l = k)
      BY DEF Locking!RLock, Locking!RUnlock, Locking!Op
    <3>4. Len(s) \in {1, 2, 3, 4, 5, 6} /\ Len(Tail(s)) = Len(s) - 1
      <4>1. Len(s) \in 1..6
        BY ONLY <2>1
      <4>2. Len(Tail(s)) = Len(s) - 1
        BY ONLY <1>1
      <4> QED  BY ONLY <4>1, <4>2
    <3> TAKE l \in Locking!Locks
    <3>5. l \in {"workers", "health"} /\ "workers" # "health"
      BY DEF Locking!Locks
    <3>6. /\ Reads(t, s, l) = IF l = "health" THEN IF Len(s) = 2 THEN 1 ELSE 0
                              ELSE IF Len(s) = 4 THEN 2 ELSE IF Len(s) \in {1, 2, 3, 5} THEN 1 ELSE 0
          /\ Reads(t, Tail(s), l) = IF l = "health" THEN IF Len(Tail(s)) = 2 THEN 1 ELSE 0
                              ELSE IF Len(Tail(s)) = 4 THEN 2
                                   ELSE IF Len(Tail(s)) \in {1, 2, 3, 5} THEN 1 ELSE 0
      BY <1>3 DEF Reads
    <3> HIDE DEF Reads
    <3> QED  BY ONLY <3>2, <3>3, <3>4, <3>5, <3>6
  <2> QED  BY <1>1, <1>2, <1>3, <2>3, <2>4, EndsOfTail DEF Shape
<1>4. CASE t # "stats"
  <2>1. ReadShape(s)
    BY <1>4 DEF Shape
  <2>2. ReadShape(Tail(s))
    <3>1. ASSUME NEW i \in 1..(Len(s) - 1), Tail(s)[i].what = "RLock"
          PROVE  i < Len(s) - 1 /\ Tail(s)[i + 1] = Locking!RUnlock(Tail(s)[i].lock)
      <4>1. i + 1 \in 1..Len(s) /\ Tail(s)[i] = s[i + 1]
        BY <1>1
      <4>2. i + 1 < Len(s) /\ s[(i + 1) + 1] = Locking!RUnlock(s[i + 1].lock)
        BY <2>1, <3>1, <4>1 DEF ReadShape
      <4> QED  BY <1>1, <4>1, <4>2
    <3>2. ASSUME NEW i \in 2..(Len(s) - 1), Tail(s)[i].what = "RUnlock"
          PROVE  Tail(s)[i - 1].what = "RLock"
      <4>1. i + 1 \in 2..Len(s) /\ Tail(s)[i] = s[i + 1] /\ Tail(s)[i - 1] = s[i]
        BY <1>1
      <4> QED  BY <2>1, <3>2, <4>1 DEF ReadShape
    <3> QED  BY <1>1, <3>1, <3>2 DEF ReadShape
  <2>3. ASSUME NEW l \in Locking!Locks
        PROVE  Reads(t, Tail(s), l) = IF s[1] = Locking!RLock(l) THEN 1 ELSE 0
    <3>1. CASE Len(s) = 1
      <4>1. s[1].what # "RLock"
        BY <1>1, <2>1, <3>1 DEF ReadShape
      <4>2. Tail(s) = <<>>
        <5>1. Len(Tail(s)) = 0
          BY <1>1, <3>1
        <5> QED  BY <1>1, <5>1, EmptySeq
      <4> QED  BY <1>4, <4>1, <4>2 DEF Reads, Locking!RLock, Locking!Op
    <3>2. CASE Len(s) # 1
      <4>1. Tail(s) # <<>> /\ Tail(s)[1] = s[2] /\ 1 \in 1..Len(s) /\ 2 \in 2..Len(s) /\ 2 - 1 = 1
            /\ 1 + 1 = 2
        BY <1>1, <3>2
      <4>2. s[2].what = "RUnlock" => s[1].what = "RLock"
        BY <2>1, <4>1 DEF ReadShape
      <4>3. s[1].what = "RLock" => s[2] = Locking!RUnlock(s[1].lock)
        BY <2>1, <4>1 DEF ReadShape
      <4>4. s[1] \in Ops
        BY <1>1, <4>1
      <4> QED  BY <1>4, <4>1, <4>2, <4>3, <4>4
               DEF Reads, Ops, Locking!RLock, Locking!RUnlock, Locking!Op
    <3> QED  BY <3>1, <3>2
  <2>4. \A l \in Locking!Locks :
            Reads(t, s, l) = IF s[1] = Locking!RUnlock(l) THEN 1 ELSE 0
    BY <1>4 DEF Reads
  <2>5. \A l \in Locking!Locks : Locking!RLock(l) # Locking!RUnlock(l)
    BY DEF Locking!RLock, Locking!RUnlock, Locking!Op
  <2> QED  BY <1>1, <1>2, <1>4, <2>2, <2>3, <2>4, <2>5, EndsOfTail DEF Shape
<1> QED  BY <1>3, <1>4

\* A function that only reads, one that writes, and what holds of both before their first step.
Passing(p) ==
    /\ p \in Seq(Ops) /\ p # <<>> /\ ReadShape(p) /\ p[1].what # "RUnlock"
    /\ \A i \in 1..Len(p) : p[i].what \in {"RLock", "RUnlock"}

Calm(s) ==
    /\ s \in Seq(Ops) /\ s # <<>> /\ ReadShape(s) /\ WriteShape(s) /\ s[1].what # "RUnlock"
    /\ \A l \in Locking!Locks : ~Ends(s, l)

LEMMA Shorts ==
  ASSUME NEW l \in Locking!Locks
  PROVE  /\ Locking!RLock(l) \in Ops /\ Locking!RUnlock(l) \in Ops /\ Locking!Lock(l) \in Ops
         /\ Locking!Unlock(l) \in Ops /\ Locking!GoDelete \in Ops
         /\ Locking!RLock(l).what = "RLock" /\ Locking!RUnlock(l).what = "RUnlock"
         /\ Locking!Lock(l).what = "Lock" /\ Locking!Unlock(l).what = "Unlock"
         /\ Locking!GoDelete.what = "go" /\ Locking!RLock(l).lock = l
         /\ Locking!Unlock(l).lock = l
BY DEF Ops, Locking!Locks, Locking!RLock, Locking!RUnlock, Locking!Lock, Locking!Unlock,
       Locking!GoDelete, Locking!Op

LEMMA PassingJoin ==
  ASSUME NEW p, NEW q, Passing(p), ReadShape(q), q \in Seq(Ops), q # <<>>, q[1].what # "RUnlock"
  PROVE  /\ p \o q \in Seq(Ops) /\ p \o q # <<>> /\ ReadShape(p \o q) /\ (p \o q)[1].what # "RUnlock"
         /\ Len(p) \in Nat \ {0} /\ Len(q) \in Nat \ {0} /\ Len(p \o q) = Len(p) + Len(q)
         /\ \A i \in 1..(Len(p) + Len(q)) : (p \o q)[i] = IF i <= Len(p) THEN p[i] ELSE q[i - Len(p)]
<1> DEFINE r == p \o q
<1>1. /\ p \in Seq(Ops) /\ p # <<>> /\ ReadShape(p) /\ p[1].what # "RUnlock"
      /\ Len(p) \in Nat \ {0} /\ Len(q) \in Nat \ {0}
  BY DEF Passing
<1>2. /\ r \in Seq(Ops) /\ Len(r) = Len(p) + Len(q)
      /\ \A i \in 1..(Len(p) + Len(q)) : r[i] = IF i <= Len(p) THEN p[i] ELSE q[i - Len(p)]
  BY <1>1, ConcatProperties
<1>3. /\ \A i \in 1..Len(p) : r[i] = p[i]
      /\ \A i \in 1..Len(q) : r[Len(p) + i] = q[i]
  BY <1>1, <1>2
<1> HIDE DEF r
<1>4. r # <<>> /\ r[1] = p[1]
  BY <1>1, <1>2
<1>5. ASSUME NEW i \in 1..Len(r), r[i].what = "RLock"
      PROVE  i < Len(r) /\ r[i + 1] = Locking!RUnlock(r[i].lock)
  <2>1. CASE i <= Len(p)
    <3>1. i \in 1..Len(p) /\ r[i] = p[i]
      BY <1>1, <1>2, <1>3, <2>1
    <3>2. i < Len(p) /\ p[i + 1] = Locking!RUnlock(p[i].lock)
      BY <1>1, <1>5, <3>1 DEF ReadShape
    <3>3. i + 1 \in 1..Len(p)
      BY <1>1, <3>1, <3>2
    <3> QED  BY <1>1, <1>2, <1>3, <3>1, <3>2, <3>3
  <2>2. CASE ~(i <= Len(p))
    <3> DEFINE k == i - Len(p)
    <3>1. k \in 1..Len(q) /\ r[i] = q[k]
      BY <1>1, <1>2, <2>2
    <3> HIDE DEF k
    <3>2. k < Len(q) /\ q[k + 1] = Locking!RUnlock(q[k].lock)
      BY <1>5, <3>1 DEF ReadShape
    <3>3. k + 1 \in 1..Len(q)
      BY <1>1, <3>1, <3>2
    <3>4. r[i + 1] = q[k + 1] /\ i < Len(r)
      <4>1. r[Len(p) + (k + 1)] = q[k + 1]
        BY <1>3, <3>3
      <4>2. Len(p) + (k + 1) = i + 1 /\ i = Len(p) + k
        BY <1>1, <3>1 DEF k
      <4> QED  BY <1>1, <1>2, <3>1, <3>2, <4>1, <4>2
    <3> QED  BY <3>1, <3>2, <3>4
  <2> QED  BY <2>1, <2>2
<1>6. ASSUME NEW i \in 2..Len(r), r[i].what = "RUnlock"
      PROVE  r[i - 1].what = "RLock"
  <2>1. CASE i <= Len(p)
    <3>1. i \in 2..Len(p) /\ r[i] = p[i] /\ r[i - 1] = p[i - 1]
      BY <1>1, <1>2, <1>3, <2>1
    <3> QED  BY <1>1, <1>6, <3>1 DEF ReadShape
  <2>2. CASE i = Len(p) + 1
    <3>1. 1 \in 1..Len(q) /\ r[Len(p) + 1] = q[1]
      BY <1>1, <1>3
    <3> QED  BY <1>6, <2>2, <3>1
  <2>3. CASE i > Len(p) + 1
    <3> DEFINE k == i - Len(p)
    <3>1. k \in 2..Len(q) /\ k - 1 \in 1..Len(q) /\ k \in 1..Len(q)
          /\ Len(p) + k = i /\ Len(p) + (k - 1) = i - 1
      BY <1>1, <1>2, <2>3
    <3> HIDE DEF k
    <3>2. r[i] = q[k] /\ r[i - 1] = q[k - 1]
      BY <1>3, <3>1
    <3> QED  BY <1>6, <3>1, <3>2 DEF ReadShape
  <2> QED  BY <1>1, <1>2, <2>1, <2>2, <2>3
<1>7. ReadShape(r)
  BY <1>5, <1>6 DEF ReadShape
<1> QED  BY <1>1, <1>2, <1>4, <1>7 DEF r

LEMMA PassingTwice ==
  ASSUME NEW p, NEW q, Passing(p), Passing(q)
  PROVE  Passing(p \o q)
<1>1. ReadShape(q) /\ q \in Seq(Ops) /\ q # <<>> /\ q[1].what # "RUnlock"
  BY DEF Passing
<1>2. /\ p \o q \in Seq(Ops) /\ p \o q # <<>> /\ ReadShape(p \o q) /\ (p \o q)[1].what # "RUnlock"
      /\ Len(p) \in Nat \ {0} /\ Len(q) \in Nat \ {0} /\ Len(p \o q) = Len(p) + Len(q)
      /\ \A i \in 1..(Len(p) + Len(q)) : (p \o q)[i] = IF i <= Len(p) THEN p[i] ELSE q[i - Len(p)]
  BY <1>1, PassingJoin
<1>3. ASSUME NEW i \in 1..Len(p \o q) PROVE (p \o q)[i].what \in {"RLock", "RUnlock"}
  <2>1. CASE i <= Len(p)
    <3>1. i \in 1..Len(p) /\ (p \o q)[i] = p[i]
      BY <1>2, <2>1
    <3> QED  BY <3>1 DEF Passing
  <2>2. CASE ~(i <= Len(p))
    <3>1. i - Len(p) \in 1..Len(q) /\ (p \o q)[i] = q[i - Len(p)]
      BY <1>2, <2>2
    <3> QED  BY <3>1 DEF Passing
  <2> QED  BY <2>1, <2>2
<1> QED  BY <1>2, <1>3 DEF Passing

LEMMA PassingThenCalm ==
  ASSUME NEW p, NEW s, Passing(p), Calm(s)
  PROVE  Calm(p \o s)
<1> DEFINE r == p \o s
<1>1. ReadShape(s) /\ WriteShape(s) /\ s \in Seq(Ops) /\ s # <<>> /\ s[1].what # "RUnlock"
  BY DEF Calm
<1>2. /\ r \in Seq(Ops) /\ r # <<>> /\ ReadShape(r) /\ r[1].what # "RUnlock"
      /\ Len(p) \in Nat \ {0} /\ Len(s) \in Nat \ {0} /\ Len(r) = Len(p) + Len(s)
      /\ \A i \in 1..(Len(p) + Len(s)) : r[i] = IF i <= Len(p) THEN p[i] ELSE s[i - Len(p)]
  BY <1>1, PassingJoin
<1> HIDE DEF r
<1>3. ASSUME NEW i \in 1..Len(r), r[i].what \notin {"RLock", "RUnlock"}
      PROVE  i - Len(p) \in 1..Len(s) /\ r[i] = s[i - Len(p)]
  <2>1. ASSUME i <= Len(p) PROVE FALSE
    <3>1. i \in 1..Len(p) /\ r[i] = p[i]
      BY <1>2, <2>1
    <3> QED  BY <1>3, <3>1 DEF Passing
  <2> QED  BY <1>2, <2>1
<1>4. \A k \in 1..Len(s) : r[Len(p) + k] = s[k]
  BY <1>2
<1>5. WriteShape(r)
  <2>1. ASSUME NEW i \in 1..Len(r), NEW j \in 1..Len(r), r[i] = r[j], r[i].what = "Unlock"
        PROVE  i = j
    <3>1. /\ i - Len(p) \in 1..Len(s) /\ r[i] = s[i - Len(p)]
          /\ j - Len(p) \in 1..Len(s) /\ r[j] = s[j - Len(p)]
      BY <1>3, <2>1
    <3>2. i - Len(p) = j - Len(p)
      BY <1>1, <2>1, <3>1 DEF WriteShape
    <3> QED  BY <1>2, <3>2
  <2>2. ASSUME NEW i \in 1..Len(r), r[i].what = "go"
        PROVE  /\ Len(r) = i + 3 /\ r[i + 1] = Nested[1]
               /\ r[i + 2] = Nested[2] /\ r[i + 3] = Nested[3]
    <3> DEFINE k == i - Len(p)
    <3>1. k \in 1..Len(s) /\ r[i] = s[k]
      BY <1>3, <2>2
    <3>2. i = Len(p) + k
      BY <1>2
    <3> HIDE DEF k
    <3>3. Len(s) = k + 3 /\ s[k + 1] = Nested[1] /\ s[k + 2] = Nested[2] /\ s[k + 3] = Nested[3]
      BY <1>1, <2>2, <3>1 DEF WriteShape
    <3>4. k + 1 \in 1..Len(s) /\ k + 2 \in 1..Len(s) /\ k + 3 \in 1..Len(s)
      BY <1>2, <3>1, <3>3
    <3>5. r[Len(p) + (k + 1)] = Nested[1] /\ r[Len(p) + (k + 2)] = Nested[2]
          /\ r[Len(p) + (k + 3)] = Nested[3]
      BY <1>4, <3>3, <3>4
    <3>6. /\ Len(p) + (k + 1) = i + 1 /\ Len(p) + (k + 2) = i + 2 /\ Len(p) + (k + 3) = i + 3
          /\ Len(r) = i + 3
      BY <1>2, <3>1, <3>2, <3>3
    <3> QED  BY <3>5, <3>6
  <2> QED  BY <2>1, <2>2 DEF WriteShape
<1>6. ASSUME NEW l \in Locking!Locks, Ends(r, l) PROVE FALSE
  <2>1. PICK i \in 1..Len(r) : /\ r[i] = Locking!Unlock(l)
                               /\ \A j \in 1..(i - 1) : r[j] # Locking!Lock(l)
    BY <1>6 DEF Ends
  <2>2. i - Len(p) \in 1..Len(s) /\ r[i] = s[i - Len(p)]
    BY <1>3, <2>1, Shorts
  <2>3. ASSUME NEW j \in 1..((i - Len(p)) - 1) PROVE s[j] # Locking!Lock(l)
    <3>1. Len(p) + j \in 1..(i - 1) /\ j \in 1..Len(s)
      BY <1>2, <2>2
    <3> QED  BY <1>4, <2>1, <3>1
  <2>4. Ends(s, l)
    BY <2>1, <2>2, <2>3 DEF Ends
  <2> QED  BY <2>4 DEF Calm
<1> QED  BY <1>2, <1>5, <1>6 DEF Calm, r

LEMMA PassingIsCalm ==
  ASSUME NEW p, Passing(p)
  PROVE  Calm(p)
<1>1. WriteShape(p)
  BY DEF Passing, WriteShape
<1>2. ASSUME NEW l \in Locking!Locks PROVE ~Ends(p, l)
  BY Shorts DEF Passing, Ends
<1> QED  BY <1>1, <1>2 DEF Passing, Calm

LEMMA CountPasses == Passing(Locking!Count)
<1> DEFINE c == <<Locking!RLock("workers"), Locking!RUnlock("workers")>>
<1>1. "workers" \in Locking!Locks
  BY DEF Locking!Locks
<1>2. /\ c \in Seq(Ops) /\ c # <<>> /\ Len(c) = 2
      /\ c[1] = Locking!RLock("workers") /\ c[2] = Locking!RUnlock("workers")
  BY <1>1, Shorts
<1> HIDE DEF c
<1>3. /\ c[1].what = "RLock" /\ c[1].lock = "workers" /\ c[2].what = "RUnlock"
  BY <1>1, <1>2, Shorts
<1>4. ReadShape(c)
  BY <1>2, <1>3 DEF ReadShape
<1>5. Passing(c)
  BY <1>2, <1>3, <1>4 DEF Passing
<1> QED  BY <1>5, FunctionsSpelled DEF c

\* A function that writes: its first operation asks for the lock that its only other one of
\* this kind gives back.
LEMMA CreateIsCalm == Calm(Locking!createWorker)
<1> DEFINE c == <<Locking!Lock("workers"), Locking!Unlock("workers"),
                  Locking!RLock("workers"), Locking!RUnlock("workers")>>
<1>1. "workers" \in Locking!Locks
  BY DEF Locking!Locks
<1>2. /\ c \in Seq(Ops) /\ c # <<>> /\ Len(c) = 4
      /\ c[1] = Locking!Lock("workers") /\ c[2] = Locking!Unlock("workers")
      /\ c[3] = Locking!RLock("workers") /\ c[4] = Locking!RUnlock("workers")
  BY <1>1, Shorts
<1> HIDE DEF c
<1>3. /\ c[1].what = "Lock" /\ c[2].what = "Unlock" /\ c[2].lock = "workers"
      /\ c[3].what = "RLock" /\ c[3].lock = "workers" /\ c[4].what = "RUnlock"
  BY <1>1, <1>2, Shorts
<1>4. ReadShape(c)
  BY <1>2, <1>3 DEF ReadShape
<1>5. WriteShape(c)
  BY <1>2, <1>3 DEF WriteShape
<1>6. ASSUME NEW l \in Locking!Locks, Ends(c, l) PROVE FALSE
  <2>1. PICK i \in 1..4 : c[i] = Locking!Unlock(l) /\ \A j \in 1..(i - 1) : c[j] # Locking!Lock(l)
    BY <1>2, <1>6 DEF Ends
  <2>2. i = 2
    BY <1>3, <2>1, Shorts
  <2>3. l = "workers" /\ 1 \in 1..(i - 1)
    BY <1>3, <2>1, <2>2, Shorts
  <2> QED  BY <1>2, <2>1, <2>3
<1>7. Calm(c)
  BY <1>2, <1>3, <1>4, <1>5, <1>6 DEF Calm
<1> QED  BY <1>7, FunctionsSpelled DEF c

LEMMA RemoveIsCalm == Calm(Locking!removeWorker)
<1> DEFINE c == <<Locking!Lock("workers"), Locking!GoDelete, Locking!RLock("workers"),
                  Locking!RUnlock("workers"), Locking!Unlock("workers")>>
<1>1. "workers" \in Locking!Locks
  BY DEF Locking!Locks
<1>2. /\ c \in Seq(Ops) /\ c # <<>> /\ Len(c) = 5
      /\ c[1] = Locking!Lock("workers") /\ c[2] = Locking!GoDelete
      /\ c[3] = Locking!RLock("workers") /\ c[4] = Locking!RUnlock("workers")
      /\ c[5] = Locking!Unlock("workers")
  BY <1>1, Shorts
<1> HIDE DEF c
<1>3. /\ c[1].what = "Lock" /\ c[2].what = "go" /\ c[5].what = "Unlock" /\ c[5].lock = "workers"
      /\ c[3].what = "RLock" /\ c[3].lock = "workers" /\ c[4].what = "RUnlock"
  BY <1>1, <1>2, Shorts
<1>4. ReadShape(c)
  BY <1>2, <1>3 DEF ReadShape
<1>5. WriteShape(c)
  BY <1>2, <1>3 DEF WriteShape, Nested
<1>6. ASSUME NEW l \in Locking!Locks, Ends(c, l) PROVE FALSE
  <2>1. PICK i \in 1..5 : c[i] = Locking!Unlock(l) /\ \A j \in 1..(i - 1) : c[j] # Locking!Lock(l)
    BY <1>2, <1>6 DEF Ends
  <2>2. i = 5
    BY <1>3, <2>1, Shorts
  <2>3. l = "workers" /\ 1 \in 1..(i - 1)
    BY <1>3, <2>1, <2>2, Shorts
  <2> QED  BY <1>2, <2>1, <2>3
<1>7. Calm(c)
  BY <1>2, <1>3, <1>4, <1>5, <1>6 DEF Calm
<1> QED  BY <1>7, FunctionsSpelled DEF c

LEMMA CheckIsCalm == Calm(Locking!performHealthCheck)
<1> DEFINE c == Locking!performHealthCheck
<1>1. "workers" \in Locking!Locks /\ "health" \in Locking!Locks
  BY DEF Locking!Locks
<1>2. /\ c \in Seq(Ops) /\ c # <<>> /\ Len(c) = 4
      /\ c[1] = Locking!Lock("health") /\ c[2] = Locking!RLock("workers")
      /\ c[3] = Locking!RUnlock("workers") /\ c[4] = Locking!Unlock("health")
  BY <1>1, Shorts DEF Locking!performHealthCheck
<1> HIDE DEF c
<1>3. /\ c[1].what = "Lock" /\ c[4].what = "Unlock" /\ c[4].lock = "health"
      /\ c[2].what = "RLock" /\ c[2].lock = "workers" /\ c[3].what = "RUnlock"
  BY <1>1, <1>2, Shorts
<1>4. ReadShape(c)
  BY <1>2, <1>3 DEF ReadShape
<1>5. WriteShape(c)
  BY <1>2, <1>3 DEF WriteShape
<1>6. ASSUME NEW l \in Locking!Locks, Ends(c, l) PROVE FALSE
  <2>1. PICK i \in 1..4 : c[i] = Locking!Unlock(l) /\ \A j \in 1..(i - 1) : c[j] # Locking!Lock(l)
    BY <1>2, <1>6 DEF Ends
  <2>2. i = 4
    BY <1>3, <2>1, Shorts
  <2>3. l = "health" /\ 1 \in 1..(i - 1)
    BY <1>3, <2>1, <2>2, Shorts
  <2> QED  BY <1>2, <2>1, <2>3
<1>7. Calm(c)
  BY <1>2, <1>3, <1>4, <1>5, <1>6 DEF Calm
<1> QED  BY <1>7 DEF c

LEMMA StopIsCalm == Calm(Locking!stopWorkers)
<1> DEFINE c == Locking!stopWorkers
<1>1. "workers" \in Locking!Locks
  BY DEF Locking!Locks
<1>2. /\ c \in Seq(Ops) /\ c # <<>> /\ Len(c) = 2
      /\ c[1] = Locking!Lock("workers") /\ c[2] = Locking!Unlock("workers")
  BY <1>1, Shorts DEF Locking!stopWorkers
<1> HIDE DEF c
<1>3. c[1].what = "Lock" /\ c[2].what = "Unlock" /\ c[2].lock = "workers"
  BY <1>1, <1>2, Shorts
<1>4. ReadShape(c) /\ WriteShape(c)
  BY <1>2, <1>3 DEF ReadShape, WriteShape
<1>6. ASSUME NEW l \in Locking!Locks, Ends(c, l) PROVE FALSE
  <2>1. PICK i \in 1..2 : c[i] = Locking!Unlock(l) /\ \A j \in 1..(i - 1) : c[j] # Locking!Lock(l)
    BY <1>2, <1>6 DEF Ends
  <2>2. i = 2
    BY <1>3, <2>1, Shorts
  <2>3. l = "workers" /\ 1 \in 1..(i - 1)
    BY <1>3, <2>1, <2>2, Shorts
  <2> QED  BY <1>2, <2>1, <2>3
<1>7. Calm(c)
  BY <1>2, <1>3, <1>4, <1>6 DEF Calm
<1> QED  BY <1>7 DEF c

LEMMA StatsAreShaped ==
  LET f == Locking!GetStats
  IN  /\ f \in Seq(Ops) /\ Shape("stats", f)
      /\ \A l \in Locking!Locks : Reads("stats", f, l) = 0 /\ ~Ends(f, l)
<1> DEFINE c == <<Locking!RLock("workers"), Locking!RLock("workers"), Locking!RUnlock("workers"),
                  Locking!RLock("health"), Locking!RUnlock("health"), Locking!RUnlock("workers")>>
<1>1. "workers" \in Locking!Locks /\ "health" \in Locking!Locks
  BY DEF Locking!Locks
<1>2. /\ c \in Seq(Ops) /\ Len(c) = 6
      /\ c[1] = Locking!RLock("workers") /\ c[2] = Locking!RLock("workers")
      /\ c[3] = Locking!RUnlock("workers") /\ c[4] = Locking!RLock("health")
      /\ c[5] = Locking!RUnlock("health") /\ c[6] = Locking!RUnlock("workers")
  BY <1>1, Shorts
<1> HIDE DEF c
<1>3. \A i \in 1..6 : c[i].what \in {"RLock", "RUnlock"}
  BY <1>1, <1>2, Shorts
<1>4. c = Locking!GetStats
  BY FunctionsSpelled DEF c
<1>5. StatsShape(c)
  BY <1>2, <1>4 DEF StatsShape
<1>6. WriteShape(c)
  BY <1>2, <1>3 DEF WriteShape
<1>7. ASSUME NEW l \in Locking!Locks PROVE Reads("stats", c, l) = 0 /\ ~Ends(c, l)
  <2>1. Reads("stats", c, l) = 0
    BY <1>2 DEF Reads
  <2>2. ~Ends(c, l)
    BY <1>2, <1>3, Shorts DEF Ends
  <2> QED  BY <2>1, <2>2
<1>8. Shape("stats", c)
  BY <1>5, <1>6, Zenon DEF Shape
<1> QED  BY <1>2, <1>4, <1>7, <1>8

\* Every call starts with the lock in nobody's debt.
LEMMA CallsAreShaped ==
  ASSUME NEW t \in DOMAIN Locking!Calls, NEW f \in Locking!Calls[t]
  PROVE  /\ f \in Seq(Ops) /\ Shape(t, f)
         /\ \A l \in Locking!Locks : Reads(t, f, l) = 0 /\ ~Ends(f, l)
<1>1. Calm(Locking!Count) /\ Passing(Locking!evaluateLoad) /\ Calm(Locking!evaluateLoad)
      /\ Passing(Locking!evaluateLoad \o Locking!Count)
  <2>1. Passing(Locking!evaluateLoad)
    BY CountPasses, PassingTwice DEF Locking!evaluateLoad
  <2> QED  BY <2>1, CountPasses, PassingTwice, PassingIsCalm
<1>2. Calm(Locking!scaleUp)
  BY <1>1, CreateIsCalm, PassingThenCalm DEF Locking!scaleUp
<1>3. Calm(Locking!scaleDown)
  BY <1>1, RemoveIsCalm, PassingThenCalm DEF Locking!scaleDown
<1>4. Calm(Locking!dispatchToOptimalWorker) /\ Calm(Locking!updateMetrics)
  BY <1>1 DEF Locking!dispatchToOptimalWorker, Locking!updateMetrics, Locking!Count
<1>5. CASE t = "stats"
  BY <1>5, StatsAreShaped DEF Locking!Calls
<1>6. CASE t # "stats"
  <2>1. Calm(f)
    BY <1>1, <1>2, <1>3, <1>4, <1>6, CheckIsCalm, StopIsCalm DEF Locking!Calls
  <2>2. f \in Seq(Ops) /\ f # <<>> /\ ReadShape(f) /\ WriteShape(f) /\ f[1].what # "RUnlock"
        /\ \A l \in Locking!Locks : ~Ends(f, l)
    BY <2>1 DEF Calm
  <2>3. Shape(t, f)
    BY <1>6, <2>2 DEF Shape
  <2>4. ASSUME NEW l \in Locking!Locks PROVE Reads(t, f, l) = 0
    BY <1>6, <2>2, Shorts DEF Reads
  <2> QED  BY <2>2, <2>3, <2>4
<1> QED  BY <1>5, <1>6

-----------------------------------------------------------------------------
(* The invariant of the locks: who has what is told by what is left of     *)
(* each function; a writer inside has no reader beside it; the worker to   *)
(* delete is one whose remover still has the lock, and waits for itself.   *)

LocksTyped ==
    /\ todo \in [Threads -> Seq(Ops)]
    /\ readers \in [Locking!Locks -> [Threads -> Nat]]
    /\ announced \in [Locking!Locks -> Threads \cup {NoThread}]
    /\ inside \in [Locking!Locks -> BOOLEAN]
    /\ turnedAway \in [Locking!Locks -> SUBSET Threads]

ReadersTold ==
    \A t \in Threads : /\ Shape(t, todo[t])
                       /\ \A l \in Locking!Locks : readers[l][t] = Reads(t, todo[t], l)

WriterTold ==
    \A l \in Locking!Locks :
        /\ \A t \in Threads : Ends(todo[t], l) => announced[l] = t /\ inside[l]
        /\ inside[l] => announced[l] # NoThread /\ \A t \in Threads : readers[l][t] = 0

WaitersTold ==
    \A l \in Locking!Locks : \A t \in turnedAway[l] :
        todo[t] # <<>> /\ todo[t][1] = Locking!RLock(l) /\ announced[l] # NoThread

RemoverStuck == deleting => \E t \in Threads : todo[t] = Nested

LocksInv == LocksTyped /\ ReadersTold /\ WriterTold /\ WaitersTold /\ RemoverStuck

LEMMA HeadIsFirst ==
  ASSUME LocksTyped, NEW t \in Threads, NEW what, NEW l, Locking!At(t, what, l)
  PROVE  todo[t] # <<>> /\ todo[t][1] = Locking!Op(what, l)
BY DEF LocksTyped, Locking!At

LEMMA OpsDiffer ==
  ASSUME NEW l, NEW k
  PROVE  /\ Locking!RLock(l) # Locking!RUnlock(k) /\ Locking!RLock(l) # Locking!Lock(k)
         /\ Locking!RLock(l) # Locking!Unlock(k) /\ Locking!RUnlock(l) # Locking!Lock(k)
         /\ Locking!RUnlock(l) # Locking!Unlock(k) /\ Locking!Lock(l) # Locking!Unlock(k)
         /\ Locking!GoDelete \notin {Locking!RLock(l), Locking!RUnlock(l), Locking!Lock(l),
                                     Locking!Unlock(l)}
         /\ Locking!RLock(l) = Locking!RLock(k) => l = k
         /\ Locking!RUnlock(l) = Locking!RUnlock(k) => l = k
         /\ Locking!Lock(l) = Locking!Lock(k) => l = k
         /\ Locking!Unlock(l) = Locking!Unlock(k) => l = k
BY DEF Locking!RLock, Locking!RUnlock, Locking!Lock, Locking!Unlock, Locking!GoDelete, Locking!Op

LEMMA AdvanceMoves ==
  ASSUME LocksTyped, ReadersTold, NEW ts \in SUBSET Threads, \A t \in ts : todo[t] # <<>>,
         Locking!Advance(ts)
  PROVE  /\ todo' \in [Threads -> Seq(Ops)]
         /\ \A t \in Threads : Shape(t, todo'[t])
         /\ \A t \in Threads \ ts : todo'[t] = todo[t]
         /\ \A t \in ts : todo'[t] = Tail(todo[t])
         /\ \A t \in ts, l \in Locking!Locks :
                /\ Reads(t, todo'[t], l) = Reads(t, todo[t], l)
                       + (IF todo[t][1] = Locking!RLock(l) THEN 1 ELSE 0)
                       - (IF todo[t][1] = Locking!RUnlock(l) THEN 1 ELSE 0)
                /\ todo[t][1] = Locking!RUnlock(l) => Reads(t, todo[t], l) >= 1
                /\ todo[t][1] \notin {Locking!Lock(l), Locking!Unlock(l)} =>
                       (Ends(todo'[t], l) <=> Ends(todo[t], l))
                /\ todo[t][1] = Locking!Unlock(l) => Ends(todo[t], l) /\ ~Ends(todo'[t], l)
<1>1. \A t \in Threads : todo[t] \in Seq(Ops) /\ Shape(t, todo[t])
  BY DEF LocksTyped, ReadersTold
<1>2. todo' = [t \in Threads |-> IF t \in ts THEN Tail(todo[t]) ELSE todo[t]]
  BY DEF Locking!Advance
<1>3. /\ \A t \in Threads \ ts : todo'[t] = todo[t]
      /\ \A t \in ts : todo'[t] = Tail(todo[t])
  BY <1>2
<1>4. ASSUME NEW t \in ts
      PROVE  /\ todo'[t] \in Seq(Ops) /\ Shape(t, todo'[t])
             /\ \A l \in Locking!Locks :
                /\ Reads(t, todo'[t], l) = Reads(t, todo[t], l)
                       + (IF todo[t][1] = Locking!RLock(l) THEN 1 ELSE 0)
                       - (IF todo[t][1] = Locking!RUnlock(l) THEN 1 ELSE 0)
                /\ todo[t][1] = Locking!RUnlock(l) => Reads(t, todo[t], l) >= 1
                /\ todo[t][1] \notin {Locking!Lock(l), Locking!Unlock(l)} =>
                       (Ends(todo'[t], l) <=> Ends(todo[t], l))
                /\ todo[t][1] = Locking!Unlock(l) => Ends(todo[t], l) /\ ~Ends(todo'[t], l)
  <2>1. todo[t] \in Seq(Ops) /\ todo[t] # <<>> /\ Shape(t, todo[t]) /\ todo'[t] = Tail(todo[t])
    BY <1>1, <1>3
  <2> QED  BY ONLY <2>1, TailMoves
<1>5. \A t \in Threads : todo'[t] \in Seq(Ops) /\ Shape(t, todo'[t])
  BY <1>1, <1>3, <1>4
<1>6. todo' \in [Threads -> Seq(Ops)]
  BY <1>2, <1>5
<1> QED  BY <1>3, <1>4, <1>5, <1>6

\* The remover has the lock it asks to read.
LEMMA StuckHolds ==
  ASSUME LocksInv, NEW t \in Threads, todo[t] = Nested
  PROVE  /\ announced["workers"] = t /\ inside["workers"] /\ "workers" \in Locking!Locks
         /\ todo[t] # <<>> /\ todo[t][1] = Locking!RLock("workers")
<1>1. "workers" \in Locking!Locks
  BY DEF Locking!Locks
<1>2. /\ Len(Nested) = 3 /\ Nested[3] = Locking!Unlock("workers")
      /\ Nested[1] = Locking!RLock("workers") /\ Nested[2] = Locking!RUnlock("workers")
      /\ Nested # <<>>
  BY DEF Nested
<1>3. \A j \in 1..(3 - 1) : Nested[j] # Locking!Lock("workers")
  BY <1>2, OpsDiffer
<1>4. Ends(Nested, "workers")
  BY <1>2, <1>3 DEF Ends
<1> QED  BY <1>1, <1>2, <1>4 DEF LocksInv, WriterTold

LEMMA NothingLeft == Len(<<>>) = 0 /\ \A t, l : Reads(t, <<>>, l) = 0 /\ ~Ends(<<>>, l)
BY DEF Reads, Ends

LEMMA InitLocks == Locking!PoolLocksAssumption /\ Locking!Init => LocksInv
<1> SUFFICES ASSUME Locking!PoolLocksAssumption, Locking!Init PROVE LocksInv
  OBVIOUS
<1>1. \A t \in Threads : todo[t] = <<>>
  BY DEF Locking!Init
<1>2. /\ <<>> \in Seq(Ops) /\ Len(<<>>) = 0
      /\ \A l \in Locking!Locks : ~Ends(<<>>, l) /\ \A t : Reads(t, <<>>, l) = 0
  BY NothingLeft
<1>3. WriteShape(<<>>) /\ ReadShape(<<>>) /\ StatsShape(<<>>)
  BY <1>2 DEF WriteShape, ReadShape, StatsShape
<1>4. \A t : Shape(t, <<>>)
  BY <1>3 DEF Shape
<1>5. LocksTyped /\ todo = [t \in Threads |-> <<>>]
  BY <1>2 DEF Locking!Init, LocksTyped
<1>6. ReadersTold
  BY <1>1, <1>2, <1>4 DEF Locking!Init, ReadersTold
<1>7. WriterTold /\ WaitersTold /\ RemoverStuck
  BY <1>1, <1>2 DEF Locking!Init, WriterTold, WaitersTold, RemoverStuck
<1> QED  BY <1>5, <1>6, <1>7 DEF LocksInv

LEMMA CallKeeps ==
  ASSUME Locking!PoolLocksAssumption, LocksInv, NEW t \in Threads, Locking!Call(t)
  PROVE  LocksInv'
<1>1. PICK f \in Locking!Calls[t] : todo' = [todo EXCEPT ![t] = f]
  BY DEF Locking!Call
<1>2. t \in DOMAIN Locking!Calls
  BY DEF Locking!PoolLocksAssumption
<1>3. f \in Seq(Ops) /\ Shape(t, f) /\ \A l \in Locking!Locks : Reads(t, f, l) = 0 /\ ~Ends(f, l)
  BY <1>1, <1>2, CallsAreShaped
<1>4. /\ todo[t] = <<>> /\ UNCHANGED <<readers, announced, inside, turnedAway, deleting>>
      /\ todo \in [Threads -> Seq(Ops)]
  BY DEF Locking!Call, LocksInv, LocksTyped
<1>5. /\ todo' \in [Threads -> Seq(Ops)] /\ todo'[t] = f
      /\ \A u \in Threads \ {t} : todo'[u] = todo[u]
  BY <1>1, <1>3, <1>4
<1>6. \A l \in Locking!Locks : readers[l][t] = 0
  BY <1>4, NothingLeft DEF LocksInv, ReadersTold
<1>7. LocksTyped'
  BY <1>4, <1>5 DEF LocksInv, LocksTyped
<1>8. ReadersTold'
  BY <1>3, <1>4, <1>5, <1>6 DEF LocksInv, ReadersTold
<1>9. WriterTold'
  BY <1>3, <1>4, <1>5 DEF LocksInv, WriterTold
<1>10. WaitersTold'
  BY <1>4, <1>5 DEF LocksInv, LocksTyped, WaitersTold
<1>11. RemoverStuck'
  <2>1. ASSUME deleting' PROVE \E u \in Threads : todo'[u] = Nested
    <3>1. PICK u \in Threads : todo[u] = Nested
      BY <1>4, <2>1 DEF LocksInv, RemoverStuck
    <3>2. todo[u] # <<>>
      BY <3>1, StuckHolds
    <3> QED  BY <1>4, <1>5, <3>1, <3>2
  <2> QED  BY <2>1 DEF RemoverStuck
<1> QED  BY <1>7, <1>8, <1>9, <1>10, <1>11 DEF LocksInv

LEMMA StartReadKeeps ==
  ASSUME Locking!PoolLocksAssumption, LocksInv, NEW t \in Threads, NEW l \in Locking!Locks,
         Locking!StartRead(t, l)
  PROVE  LocksInv'
<1>1. todo[t] # <<>> /\ todo[t][1] = Locking!RLock(l)
  BY HeadIsFirst DEF LocksInv, Locking!StartRead, Locking!RLock
<1>2. CASE announced[l] = NoThread
  <2>1. /\ readers' = [readers EXCEPT ![l][t] = @ + 1] /\ Locking!Advance({t})
        /\ UNCHANGED <<announced, inside, turnedAway, deleting>>
    BY <1>2 DEF Locking!StartRead
  <2>2. /\ todo' \in [Threads -> Seq(Ops)]
        /\ \A u \in Threads : Shape(u, todo'[u])
        /\ \A u \in Threads \ {t} : todo'[u] = todo[u]
        /\ \A k \in Locking!Locks :
              /\ Reads(t, todo'[t], k) = Reads(t, todo[t], k) + (IF k = l THEN 1 ELSE 0)
              /\ Ends(todo'[t], k) <=> Ends(todo[t], k)
    <3>1. \A u \in {t} : todo[u] # <<>>
      BY <1>1
    <3>2. \A k \in Locking!Locks :
              /\ Reads(t, todo'[t], k) = Reads(t, todo[t], k)
                       + (IF todo[t][1] = Locking!RLock(k) THEN 1 ELSE 0)
                       - (IF todo[t][1] = Locking!RUnlock(k) THEN 1 ELSE 0)
              /\ todo[t][1] \notin {Locking!Lock(k), Locking!Unlock(k)} =>
                       (Ends(todo'[t], k) <=> Ends(todo[t], k))
      BY <2>1, <3>1, AdvanceMoves DEF LocksInv
    <3>3. \A k \in Locking!Locks : Reads(t, todo[t], k) \in Nat
      BY DEF LocksInv, LocksTyped, ReadersTold
    <3>4. \A k \in Locking!Locks :
              /\ Reads(t, todo'[t], k) = Reads(t, todo[t], k) + (IF k = l THEN 1 ELSE 0)
              /\ Ends(todo'[t], k) <=> Ends(todo[t], k)
      BY <1>1, <3>2, <3>3, OpsDiffer
    <3> QED  BY <2>1, <3>1, <3>4, AdvanceMoves DEF LocksInv
  <2>3. readers \in [Locking!Locks -> [Threads -> Nat]]
    BY DEF LocksInv, LocksTyped
  <2>4. /\ readers' \in [Locking!Locks -> [Threads -> Nat]]
        /\ readers'[l][t] = readers[l][t] + 1
        /\ \A k \in Locking!Locks, u \in Threads :
              k # l \/ u # t => readers'[k][u] = readers[k][u]
    BY <2>1, <2>3
  <2>5. LocksTyped'
    BY <2>1, <2>2, <2>4 DEF LocksInv, LocksTyped
  <2>6. ReadersTold'
    <3>1. ASSUME NEW u \in Threads, NEW k \in Locking!Locks PROVE readers'[k][u] = Reads(u, todo'[u], k)
      <4>1. readers[k][u] = Reads(u, todo[u], k) /\ readers[k][u] \in Nat
        BY <2>3 DEF LocksInv, ReadersTold
      <4>2. CASE u = t
        <5>1. Reads(t, todo'[t], k) = readers[k][t] + (IF k = l THEN 1 ELSE 0)
          BY <2>2, <4>1, <4>2
        <5> QED  BY <2>4, <4>1, <4>2, <5>1
      <4>3. CASE u # t
        BY <2>2, <2>4, <4>1, <4>3
      <4> QED  BY <4>2, <4>3
    <3> QED  BY <2>2, <3>1 DEF ReadersTold
  <2>7. WriterTold'
    BY <1>2, <2>1, <2>2, <2>4 DEF LocksInv, WriterTold
  <2>8. WaitersTold'
    <3>1. \A k \in Locking!Locks : t \notin turnedAway[k]
      BY <1>1, <1>2, OpsDiffer DEF LocksInv, WaitersTold
    <3> QED  BY <2>1, <2>2, <3>1 DEF LocksInv, LocksTyped, WaitersTold
  <2>9. RemoverStuck'
    <3>1. ASSUME deleting' PROVE \E u \in Threads : todo'[u] = Nested
      <4>1. PICK u \in Threads : todo[u] = Nested
        BY <2>1, <3>1 DEF LocksInv, RemoverStuck
      <4>2. announced["workers"] = u /\ todo[u][1] = Locking!RLock("workers")
        BY <4>1, StuckHolds
      <4>3. u # t
        BY <1>1, <1>2, <4>2, OpsDiffer DEF Locking!PoolLocksAssumption
      <4> QED  BY <2>2, <4>1, <4>3
    <3> QED  BY <3>1 DEF RemoverStuck
  <2> QED  BY <2>5, <2>6, <2>7, <2>8, <2>9 DEF LocksInv
<1>3. CASE announced[l] # NoThread
  <2>1. /\ turnedAway' = [turnedAway EXCEPT ![l] = @ \cup {t}]
        /\ UNCHANGED <<readers, todo, announced, inside, deleting>>
    BY <1>3 DEF Locking!StartRead
  <2>2. turnedAway \in [Locking!Locks -> SUBSET Threads]
    BY DEF LocksInv, LocksTyped
  <2>3. LocksTyped'
    BY <2>1, <2>2 DEF LocksInv, LocksTyped
  <2>4. WaitersTold'
    BY <1>1, <1>3, <2>1, <2>2 DEF LocksInv, WaitersTold
  <2>5. ReadersTold' /\ WriterTold' /\ RemoverStuck'
    BY <2>1 DEF LocksInv, ReadersTold, WriterTold, RemoverStuck
  <2> QED  BY <2>3, <2>4, <2>5 DEF LocksInv
<1> QED  BY <1>2, <1>3

LEMMA EndReadKeeps ==
  ASSUME LocksInv, NEW t \in Threads, NEW l \in Locking!Locks, Locking!EndRead(t, l)
  PROVE  LocksInv'
<1>1. todo[t] # <<>> /\ todo[t][1] = Locking!RUnlock(l)
  BY HeadIsFirst DEF LocksInv, Locking!EndRead, Locking!RUnlock
<1>2. /\ readers' = [readers EXCEPT ![l][t] = @ - 1] /\ Locking!Advance({t})
      /\ UNCHANGED <<announced, inside, turnedAway, deleting>>
  BY DEF Locking!EndRead
<1>3. readers \in [Locking!Locks -> [Threads -> Nat]]
  BY DEF LocksInv, LocksTyped
<1>4. /\ todo' \in [Threads -> Seq(Ops)]
      /\ \A u \in Threads : Shape(u, todo'[u])
      /\ \A u \in Threads \ {t} : todo'[u] = todo[u]
      /\ \A k \in Locking!Locks :
            /\ Reads(t, todo'[t], k) = readers[k][t] - (IF k = l THEN 1 ELSE 0)
            /\ Ends(todo'[t], k) <=> Ends(todo[t], k)
      /\ readers[l][t] >= 1
  <2>1. \A u \in {t} : todo[u] # <<>>
    BY <1>1
  <2>2. \A k \in Locking!Locks :
            /\ Reads(t, todo'[t], k) = Reads(t, todo[t], k)
                     + (IF todo[t][1] = Locking!RLock(k) THEN 1 ELSE 0)
                     - (IF todo[t][1] = Locking!RUnlock(k) THEN 1 ELSE 0)
            /\ todo[t][1] = Locking!RUnlock(k) => Reads(t, todo[t], k) >= 1
            /\ todo[t][1] \notin {Locking!Lock(k), Locking!Unlock(k)} =>
                     (Ends(todo'[t], k) <=> Ends(todo[t], k))
    BY <1>2, <2>1, AdvanceMoves DEF LocksInv
  <2>3. \A k \in Locking!Locks : Reads(t, todo[t], k) = readers[k][t] /\ readers[k][t] \in Nat
    BY <1>3 DEF LocksInv, ReadersTold
  <2>4. \A k \in Locking!Locks :
            /\ Reads(t, todo'[t], k) = readers[k][t] - (IF k = l THEN 1 ELSE 0)
            /\ Ends(todo'[t], k) <=> Ends(todo[t], k)
    BY <1>1, <2>2, <2>3, OpsDiffer
  <2> QED  BY <1>1, <1>2, <2>1, <2>2, <2>3, <2>4, AdvanceMoves DEF LocksInv
<1>5. /\ readers' \in [Locking!Locks -> [Threads -> Nat]]
      /\ readers'[l][t] = readers[l][t] - 1
      /\ \A k \in Locking!Locks, u \in Threads : k # l \/ u # t => readers'[k][u] = readers[k][u]
  <2>1. readers[l][t] - 1 \in Nat
    BY <1>3, <1>4
  <2> QED  BY <1>2, <1>3, <2>1
<1>6. LocksTyped'
  BY <1>2, <1>4, <1>5 DEF LocksInv, LocksTyped
<1>7. ReadersTold'
  <2>1. ASSUME NEW u \in Threads, NEW k \in Locking!Locks PROVE readers'[k][u] = Reads(u, todo'[u], k)
    <3>1. readers[k][u] = Reads(u, todo[u], k) /\ readers[k][u] \in Nat
      BY <1>3 DEF LocksInv, ReadersTold
    <3>2. CASE u = t
      <4>1. Reads(t, todo'[t], k) = readers[k][t] - (IF k = l THEN 1 ELSE 0)
        BY <1>4
      <4> QED  BY <1>5, <3>1, <3>2, <4>1
    <3>3. CASE u # t
      BY <1>4, <1>5, <3>1, <3>3
    <3> QED  BY <3>2, <3>3
  <2> QED  BY <1>4, <2>1 DEF ReadersTold
<1>8. WriterTold'
  <2>1. ~inside[l]
    <3>1. ASSUME inside[l] PROVE FALSE
      <4>1. readers[l][t] = 0
        BY <3>1 DEF LocksInv, WriterTold
      <4> QED  BY <1>4, <4>1
    <3> QED  BY <3>1
  <2> QED  BY <1>2, <1>4, <1>5, <2>1 DEF LocksInv, WriterTold
<1>9. WaitersTold'
  <2>1. \A k \in Locking!Locks : t \notin turnedAway[k]
    BY <1>1, OpsDiffer DEF LocksInv, WaitersTold
  <2> QED  BY <1>2, <1>4, <2>1 DEF LocksInv, LocksTyped, WaitersTold
<1>10. RemoverStuck'
  <2>1. ASSUME deleting' PROVE \E u \in Threads : todo'[u] = Nested
    <3>1. PICK u \in Threads : todo[u] = Nested
      BY <1>2, <2>1 DEF LocksInv, RemoverStuck
    <3>2. todo[u][1] = Locking!RLock("workers")
      BY <3>1, StuckHolds
    <3>3. u # t
      BY <1>1, <3>2, OpsDiffer
    <3> QED  BY <1>4, <3>1, <3>3
  <2> QED  BY <2>1 DEF RemoverStuck
<1> QED  BY <1>6, <1>7, <1>8, <1>9, <1>10 DEF LocksInv

LEMMA AnnounceKeeps ==
  ASSUME Locking!PoolLocksAssumption, LocksInv, NEW t \in Threads, NEW l \in Locking!Locks,
         Locking!Announce(t, l)
  PROVE  LocksInv'
<1>1. /\ announced[l] = NoThread /\ announced' = [announced EXCEPT ![l] = t]
      /\ UNCHANGED <<todo, readers, inside, turnedAway, deleting>>
  BY DEF Locking!Announce
<1>2. announced \in [Locking!Locks -> Threads \cup {NoThread}] /\ NoThread \notin Threads
  BY DEF LocksInv, LocksTyped, Locking!PoolLocksAssumption
<1>3. announced'[l] = t /\ \A k \in Locking!Locks \ {l} : announced'[k] = announced[k]
  BY <1>1, <1>2
<1>4. LocksTyped'
  BY <1>1, <1>2 DEF LocksInv, LocksTyped
<1>5. WriterTold'
  BY <1>1, <1>2, <1>3 DEF LocksInv, WriterTold
<1>6. WaitersTold'
  BY <1>1, <1>2, <1>3 DEF LocksInv, WaitersTold
<1>7. ReadersTold' /\ RemoverStuck'
  BY <1>1 DEF LocksInv, ReadersTold, RemoverStuck
<1> QED  BY <1>4, <1>5, <1>6, <1>7 DEF LocksInv

\* A step that changes neither the readers nor the announcements, of a goroutine whose
\* first operation is neither to read nor to stop reading.
LEMMA WriterMoves ==
  ASSUME LocksInv, NEW t \in Threads, NEW op, Locking!Advance({t}), todo[t] # <<>>,
         todo[t][1] = op,
         \A k \in Locking!Locks : op \notin {Locking!RLock(k), Locking!RUnlock(k)}
  PROVE  /\ todo' \in [Threads -> Seq(Ops)]
         /\ \A u \in Threads : Shape(u, todo'[u])
         /\ \A u \in Threads \ {t} : todo'[u] = todo[u]
         /\ \A u \in Threads, k \in Locking!Locks : Reads(u, todo'[u], k) = readers[k][u]
         /\ \A k \in Locking!Locks :
                op \notin {Locking!Lock(k), Locking!Unlock(k)} =>
                    (Ends(todo'[t], k) <=> Ends(todo[t], k))
<1>1. \A u \in {t} : todo[u] # <<>>
  OBVIOUS
<1>2. \A u \in Threads, k \in Locking!Locks : Reads(u, todo[u], k) = readers[k][u] /\ readers[k][u] \in Nat
  BY DEF LocksInv, LocksTyped, ReadersTold
<1>3. \A k \in Locking!Locks :
          /\ Reads(t, todo'[t], k) = Reads(t, todo[t], k)
                   + (IF todo[t][1] = Locking!RLock(k) THEN 1 ELSE 0)
                   - (IF todo[t][1] = Locking!RUnlock(k) THEN 1 ELSE 0)
          /\ todo[t][1] \notin {Locking!Lock(k), Locking!Unlock(k)} =>
                   (Ends(todo'[t], k) <=> Ends(todo[t], k))
  BY <1>1, AdvanceMoves DEF LocksInv
<1>4. /\ todo' \in [Threads -> Seq(Ops)]
      /\ \A u \in Threads : Shape(u, todo'[u])
      /\ \A u \in Threads \ {t} : todo'[u] = todo[u]
  BY <1>1, AdvanceMoves DEF LocksInv
<1>5. \A k \in Locking!Locks : Reads(t, todo'[t], k) = readers[k][t]
  BY <1>2, <1>3
<1> QED  BY <1>2, <1>3, <1>4, <1>5

LEMMA StartWriteKeeps ==
  ASSUME Locking!PoolLocksAssumption, LocksInv, NEW t \in Threads, NEW l \in Locking!Locks,
         Locking!StartWrite(t, l)
  PROVE  LocksInv'
<1>1. todo[t] # <<>> /\ todo[t][1] = Locking!Lock(l)
  BY HeadIsFirst DEF LocksInv, Locking!StartWrite, Locking!Lock
<1>2. /\ announced[l] = t /\ \A r \in Threads : readers[l][r] = 0
      /\ inside' = [inside EXCEPT ![l] = TRUE] /\ Locking!Advance({t})
      /\ UNCHANGED <<readers, announced, turnedAway, deleting>>
  BY DEF Locking!StartWrite
<1>3. /\ todo' \in [Threads -> Seq(Ops)]
      /\ \A u \in Threads : Shape(u, todo'[u])
      /\ \A u \in Threads \ {t} : todo'[u] = todo[u]
      /\ \A u \in Threads, k \in Locking!Locks : Reads(u, todo'[u], k) = readers[k][u]
      /\ \A k \in Locking!Locks \ {l} : Ends(todo'[t], k) <=> Ends(todo[t], k)
  <2>1. \A k \in Locking!Locks : Locking!Lock(l) \notin {Locking!RLock(k), Locking!RUnlock(k)}
    BY OpsDiffer
  <2>2. \A k \in Locking!Locks \ {l} : Locking!Lock(l) \notin {Locking!Lock(k), Locking!Unlock(k)}
    BY OpsDiffer
  <2> QED  BY <1>1, <1>2, <2>1, <2>2, WriterMoves
<1>4. /\ inside \in [Locking!Locks -> BOOLEAN] /\ inside'[l]
      /\ \A k \in Locking!Locks \ {l} : inside'[k] = inside[k]
  BY <1>2 DEF LocksInv, LocksTyped
<1>5. LocksTyped'
  BY <1>2, <1>3, <1>4 DEF LocksInv, LocksTyped
<1>6. ReadersTold'
  BY <1>2, <1>3 DEF ReadersTold
<1>7. WriterTold'
  <2>1. announced[l] # NoThread
    BY <1>2 DEF Locking!PoolLocksAssumption
  <2>2. ASSUME NEW k \in Locking!Locks, NEW u \in Threads, Ends(todo'[u], k)
        PROVE  announced'[k] = u /\ inside'[k]
    <3>1. CASE u = t /\ k = l
      BY <1>2, <1>4, <3>1
    <3>2. CASE ~(u = t /\ k = l)
      <4>1. Ends(todo[u], k)
        BY <1>3, <2>2, <3>2
      <4> QED  BY <1>2, <1>4, <4>1 DEF LocksInv, WriterTold
    <3> QED  BY <3>1, <3>2
  <2>3. ASSUME NEW k \in Locking!Locks, inside'[k]
        PROVE  announced'[k] # NoThread /\ \A u \in Threads : readers'[k][u] = 0
    BY <1>2, <1>4, <2>1, <2>3 DEF LocksInv, WriterTold
  <2> QED  BY <2>2, <2>3 DEF WriterTold
<1>8. WaitersTold'
  <2>1. \A k \in Locking!Locks : t \notin turnedAway[k]
    BY <1>1, OpsDiffer DEF LocksInv, WaitersTold
  <2> QED  BY <1>2, <1>3, <2>1 DEF LocksInv, LocksTyped, WaitersTold
<1>9. RemoverStuck'
  <2>1. ASSUME deleting' PROVE \E u \in Threads : todo'[u] = Nested
    <3>1. PICK u \in Threads : todo[u] = Nested
      BY <1>2, <2>1 DEF LocksInv, RemoverStuck
    <3>2. todo[u][1] = Locking!RLock("workers")
      BY <3>1, StuckHolds
    <3>3. u # t
      BY <1>1, <3>2, OpsDiffer
    <3> QED  BY <1>3, <3>1, <3>3
  <2> QED  BY <2>1 DEF RemoverStuck
<1> QED  BY <1>5, <1>6, <1>7, <1>8, <1>9 DEF LocksInv

LEMMA EndWriteKeeps ==
  ASSUME LocksInv, NEW t \in Threads, NEW l \in Locking!Locks, Locking!EndWrite(t, l)
  PROVE  LocksInv'
<1> DEFINE ts == {t} \cup turnedAway[l]
<1>1. todo[t] # <<>> /\ todo[t][1] = Locking!Unlock(l)
  BY HeadIsFirst DEF LocksInv, Locking!EndWrite, Locking!Unlock
<1>2. /\ announced' = [announced EXCEPT ![l] = NoThread] /\ inside' = [inside EXCEPT ![l] = FALSE]
      /\ readers' = [readers EXCEPT ![l] =
                         [r \in Threads |-> IF r \in turnedAway[l] THEN @[r] + 1 ELSE @[r]]]
      /\ Locking!Advance(ts) /\ turnedAway' = [turnedAway EXCEPT ![l] = {}]
      /\ UNCHANGED deleting
  BY DEF Locking!EndWrite
<1>3. /\ ts \in SUBSET Threads
      /\ \A u \in turnedAway[l] : todo[u] # <<>> /\ todo[u][1] = Locking!RLock(l)
      /\ \A u \in ts : todo[u] # <<>>
      /\ t \notin turnedAway[l]
  <2>1. turnedAway[l] \subseteq Threads
    BY DEF LocksInv, LocksTyped
  <2>2. \A u \in turnedAway[l] : todo[u] # <<>> /\ todo[u][1] = Locking!RLock(l)
    BY DEF LocksInv, WaitersTold
  <2>3. t \notin turnedAway[l]
    BY <1>1, <2>2, OpsDiffer
  <2> QED  BY <1>1, <2>1, <2>2, <2>3
<1> HIDE DEF ts
<1>4. \A u \in Threads, k \in Locking!Locks :
          Reads(u, todo[u], k) = readers[k][u] /\ readers[k][u] \in Nat
  BY DEF LocksInv, LocksTyped, ReadersTold
<1>5. /\ todo' \in [Threads -> Seq(Ops)]
      /\ \A u \in Threads : Shape(u, todo'[u])
      /\ \A u \in Threads \ ts : todo'[u] = todo[u]
      /\ \A u \in ts, k \in Locking!Locks :
             /\ Reads(u, todo'[u], k) = Reads(u, todo[u], k)
                    + (IF todo[u][1] = Locking!RLock(k) THEN 1 ELSE 0)
                    - (IF todo[u][1] = Locking!RUnlock(k) THEN 1 ELSE 0)
             /\ todo[u][1] \notin {Locking!Lock(k), Locking!Unlock(k)} =>
                    (Ends(todo'[u], k) <=> Ends(todo[u], k))
             /\ todo[u][1] = Locking!Unlock(k) => Ends(todo[u], k) /\ ~Ends(todo'[u], k)
  BY <1>2, <1>3, AdvanceMoves DEF LocksInv
<1>6. \A u \in turnedAway[l], k \in Locking!Locks :
          /\ Reads(u, todo'[u], k) = readers[k][u] + (IF k = l THEN 1 ELSE 0)
          /\ Ends(todo'[u], k) <=> Ends(todo[u], k)
  <2> TAKE u \in turnedAway[l], k \in Locking!Locks
  <2>1. u \in ts /\ u \in Threads
    BY <1>3 DEF ts
  <2>2. /\ todo[u][1] = Locking!RLock(k) <=> k = l
        /\ todo[u][1] # Locking!RUnlock(k) /\ todo[u][1] \notin {Locking!Lock(k), Locking!Unlock(k)}
    BY <1>3, OpsDiffer
  <2>3. Reads(u, todo[u], k) = readers[k][u] /\ readers[k][u] \in Nat
    BY <1>4, <2>1
  <2>4. /\ Reads(u, todo'[u], k) = Reads(u, todo[u], k)
               + (IF todo[u][1] = Locking!RLock(k) THEN 1 ELSE 0)
               - (IF todo[u][1] = Locking!RUnlock(k) THEN 1 ELSE 0)
        /\ Ends(todo'[u], k) <=> Ends(todo[u], k)
    BY <1>5, <2>1, <2>2
  <2> QED  BY <2>2, <2>3, <2>4
<1>7. \A k \in Locking!Locks :
          /\ Reads(t, todo'[t], k) = readers[k][t]
          /\ k # l => (Ends(todo'[t], k) <=> Ends(todo[t], k))
          /\ ~Ends(todo'[t], l) /\ Ends(todo[t], l)
  <2> TAKE k \in Locking!Locks
  <2>1. t \in ts
    BY DEF ts
  <2>2. /\ todo[t][1] # Locking!RLock(k) /\ todo[t][1] # Locking!RUnlock(k)
        /\ k # l => todo[t][1] \notin {Locking!Lock(k), Locking!Unlock(k)}
    BY <1>1, OpsDiffer
  <2> QED  BY <1>1, <1>4, <1>5, <2>1, <2>2
<1>8. announced[l] = t /\ \A u \in Threads : Ends(todo[u], l) => u = t
  BY <1>7 DEF LocksInv, WriterTold
<1>9. /\ \A k \in Locking!Locks \ {l} : /\ announced'[k] = announced[k] /\ inside'[k] = inside[k]
                                        /\ readers'[k] = readers[k] /\ turnedAway'[k] = turnedAway[k]
      /\ announced'[l] = NoThread /\ ~inside'[l] /\ turnedAway'[l] = {}
      /\ \A u \in Threads : readers'[l][u] = readers[l][u] + (IF u \in turnedAway[l] THEN 1 ELSE 0)
      /\ readers' \in [Locking!Locks -> [Threads -> Nat]]
  <2>1. /\ readers \in [Locking!Locks -> [Threads -> Nat]]
        /\ announced \in [Locking!Locks -> Threads \cup {NoThread}]
        /\ inside \in [Locking!Locks -> BOOLEAN]
        /\ turnedAway \in [Locking!Locks -> SUBSET Threads]
    BY DEF LocksInv, LocksTyped
  <2> DEFINE new == [r \in Threads |-> IF r \in turnedAway[l] THEN readers[l][r] + 1 ELSE readers[l][r]]
  <2>2. /\ new \in [Threads -> Nat]
        /\ \A u \in Threads : new[u] = readers[l][u] + (IF u \in turnedAway[l] THEN 1 ELSE 0)
    BY <2>1
  <2>3. readers' = [readers EXCEPT ![l] = new]
    BY <1>2
  <2> HIDE DEF new
  <2> QED  BY <1>2, <2>1, <2>2, <2>3
<1>10. \A u \in Threads \ ts : u # t /\ u \notin turnedAway[l]
  BY DEF ts
<1>11. LocksTyped'
  BY <1>2, <1>5, <1>9 DEF LocksInv, LocksTyped
<1>12. ReadersTold'
  <2>1. ASSUME NEW u \in Threads, NEW k \in Locking!Locks PROVE readers'[k][u] = Reads(u, todo'[u], k)
    <3>1. readers'[k][u] = readers[k][u] + (IF k = l /\ u \in turnedAway[l] THEN 1 ELSE 0)
      BY <1>4, <1>9
    <3>2. CASE u \in turnedAway[l]
      BY <1>6, <3>1, <3>2
    <3>3. CASE u = t
      BY <1>3, <1>4, <1>7, <3>1, <3>3
    <3>4. CASE u \notin turnedAway[l] /\ u # t
      <4>1. todo'[u] = todo[u]
        BY <1>5, <3>4 DEF ts
      <4> QED  BY <1>4, <3>1, <3>4, <4>1
    <3> QED  BY <3>2, <3>3, <3>4
  <2> QED  BY <1>5, <2>1 DEF ReadersTold
<1>13. \A u \in Threads, k \in Locking!Locks :
           Ends(todo'[u], k) => Ends(todo[u], k) /\ k # l
  <2> SUFFICES ASSUME NEW u \in Threads, NEW k \in Locking!Locks, Ends(todo'[u], k)
               PROVE  Ends(todo[u], k) /\ k # l
    OBVIOUS
  <2>1. CASE u = t
    BY <1>7, <2>1
  <2>2. CASE u \in turnedAway[l]
    <3>1. Ends(todo[u], k)
      BY <1>6, <2>2
    <3> QED  BY <1>3, <1>8, <2>2, <3>1
  <2>3. CASE u \notin turnedAway[l] /\ u # t
    <3>1. todo'[u] = todo[u]
      BY <1>5, <2>3 DEF ts
    <3> QED  BY <1>8, <2>3, <3>1
  <2> QED  BY <2>1, <2>2, <2>3
<1>14. WriterTold'
  <2>1. ASSUME NEW k \in Locking!Locks, NEW u \in Threads, Ends(todo'[u], k)
        PROVE  announced'[k] = u /\ inside'[k]
    BY <1>9, <1>13, <2>1 DEF LocksInv, WriterTold
  <2>2. ASSUME NEW k \in Locking!Locks, inside'[k]
        PROVE  announced'[k] # NoThread /\ \A u \in Threads : readers'[k][u] = 0
    BY <1>9, <2>2 DEF LocksInv, WriterTold
  <2> QED  BY <2>1, <2>2 DEF WriterTold
<1>15. WaitersTold'
  <2>1. ASSUME NEW k \in Locking!Locks, NEW u \in turnedAway'[k]
        PROVE  todo'[u] # <<>> /\ todo'[u][1] = Locking!RLock(k) /\ announced'[k] # NoThread
    <3>1. k # l /\ u \in turnedAway[k] /\ u \in Threads
      BY <1>9, <2>1 DEF LocksInv, LocksTyped
    <3>2. todo[u] # <<>> /\ todo[u][1] = Locking!RLock(k) /\ announced[k] # NoThread
      BY <3>1 DEF LocksInv, WaitersTold
    <3>3. u # t /\ u \notin turnedAway[l]
      BY <1>1, <1>3, <3>1, <3>2, OpsDiffer
    <3>4. todo'[u] = todo[u]
      BY <1>5, <3>1, <3>3 DEF ts
    <3> QED  BY <1>9, <3>1, <3>2, <3>4
  <2> QED  BY <2>1 DEF WaitersTold
<1>16. RemoverStuck'
  <2>1. ASSUME deleting' PROVE \E u \in Threads : todo'[u] = Nested
    <3>1. PICK u \in Threads : todo[u] = Nested
      BY <1>2, <2>1 DEF LocksInv, RemoverStuck
    <3>2. announced["workers"] = u /\ todo[u][1] = Locking!RLock("workers")
      BY <3>1, StuckHolds
    <3>3. u # t
      BY <1>1, <3>2, OpsDiffer
    <3>4. l # "workers"
      BY <1>8, <3>2, <3>3
    <3>5. u \notin turnedAway[l]
      BY <1>3, <3>2, <3>4, OpsDiffer
    <3>6. todo'[u] = todo[u]
      BY <1>5, <3>3, <3>5 DEF ts
    <3> QED  BY <3>1, <3>6
  <2> QED  BY <2>1 DEF RemoverStuck
<1> QED  BY <1>11, <1>12, <1>14, <1>15, <1>16 DEF LocksInv

LEMMA GoDeleteKeeps ==
  ASSUME LocksInv, NEW t \in Threads, Locking!GoDeleteWorker(t)
  PROVE  LocksInv'
<1>1. todo[t] # <<>> /\ todo[t][1] = Locking!GoDelete
  BY HeadIsFirst DEF LocksInv, Locking!GoDeleteWorker, Locking!GoDelete
<1>2. /\ deleting' = TRUE /\ Locking!Advance({t})
      /\ UNCHANGED <<readers, announced, inside, turnedAway>>
  BY DEF Locking!GoDeleteWorker
<1>3. /\ todo' \in [Threads -> Seq(Ops)]
      /\ \A u \in Threads : Shape(u, todo'[u])
      /\ \A u \in Threads \ {t} : todo'[u] = todo[u]
      /\ \A u \in Threads, k \in Locking!Locks : Reads(u, todo'[u], k) = readers[k][u]
      /\ \A k \in Locking!Locks : Ends(todo'[t], k) <=> Ends(todo[t], k)
  <2>1. \A k \in Locking!Locks : Locking!GoDelete \notin {Locking!RLock(k), Locking!RUnlock(k),
                                                          Locking!Lock(k), Locking!Unlock(k)}
    BY OpsDiffer
  <2>2. \A k \in Locking!Locks : Locking!GoDelete \notin {Locking!RLock(k), Locking!RUnlock(k)}
    BY <2>1
  <2> QED  BY <1>1, <1>2, <2>1, <2>2, WriterMoves
<1>4. todo'[t] = Nested
  <2>1. todo[t] \in Seq(Ops) /\ WriteShape(todo[t]) /\ todo[t][1].what = "go"
    BY <1>1 DEF LocksInv, LocksTyped, ReadersTold, Shape, Locking!GoDelete, Locking!Op
  <2>2. 1 \in 1..Len(todo[t])
    BY <1>1, <2>1
  <2>3. /\ Len(todo[t]) = 1 + 3 /\ todo[t][1 + 1] = Nested[1]
        /\ todo[t][1 + 2] = Nested[2] /\ todo[t][1 + 3] = Nested[3]
    BY <2>1, <2>2 DEF WriteShape
  <2>4. todo'[t] = Tail(todo[t])
    BY <1>2 DEF Locking!Advance
  <2>5. /\ Tail(todo[t]) \in Seq(Ops) /\ Len(Tail(todo[t])) = 3
        /\ \A i \in 1..3 : Tail(todo[t])[i] = Nested[i]
    BY <1>1, <2>1, <2>3
  <2>6. Nested \in Seq(Ops) /\ Len(Nested) = 3
    <3>1. "workers" \in Locking!Locks
      BY DEF Locking!Locks
    <3> QED  BY <3>1, Shorts DEF Nested
  <2>7. Tail(todo[t]) = Nested
    BY ONLY <2>5, <2>6, SeqEqual
  <2> QED  BY <2>4, <2>7
<1>5. LocksTyped' /\ ReadersTold'
  BY <1>2, <1>3 DEF LocksInv, LocksTyped, ReadersTold
<1>6. WriterTold'
  BY <1>2, <1>3 DEF LocksInv, WriterTold
<1>7. WaitersTold'
  <2>1. \A k \in Locking!Locks : t \notin turnedAway[k]
    BY <1>1, OpsDiffer DEF LocksInv, WaitersTold
  <2> QED  BY <1>2, <1>3, <2>1 DEF LocksInv, LocksTyped, WaitersTold
<1>8. RemoverStuck'
  BY <1>4 DEF RemoverStuck
<1> QED  BY <1>5, <1>6, <1>7, <1>8 DEF LocksInv

LEMMA NextLocks ==
  ASSUME Locking!PoolLocksAssumption, LocksInv, [Locking!Next]_lockVars
  PROVE  LocksInv'
<1>1. ASSUME NEW t \in Threads, Locking!Call(t) PROVE LocksInv'
  BY <1>1, CallKeeps
<1>2. ASSUME NEW t \in Threads, Locking!Step(t) PROVE LocksInv'
  BY <1>2, StartReadKeeps, EndReadKeeps, AnnounceKeeps, StartWriteKeeps, EndWriteKeeps,
     GoDeleteKeeps DEF Locking!Step
<1>3. CASE Locking!Delete
  BY <1>3 DEF Locking!Delete, LocksInv, LocksTyped, ReadersTold, WriterTold, WaitersTold,
              RemoverStuck
<1>4. CASE UNCHANGED lockVars
  BY <1>4 DEF lockVars, LocksInv, LocksTyped, ReadersTold, WriterTold, WaitersTold, RemoverStuck
<1> QED  BY <1>1, <1>2, <1>3, <1>4 DEF Locking!Next

LEMMA DeleteAlone ==
  ASSUME LocksInv
  PROVE  Locking!Delete => \A t \in Threads : readers["workers"][t] = 0
<1>1. ASSUME Locking!Delete PROVE \A t \in Threads : readers["workers"][t] = 0
  <2>1. PICK u \in Threads : todo[u] = Nested
    BY <1>1 DEF Locking!Delete, LocksInv, RemoverStuck
  <2>2. inside["workers"] /\ "workers" \in Locking!Locks
    BY <2>1, StuckHolds
  <2> QED  BY <2>2 DEF LocksInv, WriterTold
<1> QED  BY <1>1

\* removeWorker deletes from the map in a goroutine that takes no lock
\* (internal/worker/pool.go): nobody reads the map then, as the remover is still inside.
THEOREM DeletesAreAlone == AllSpec => NoMapRace
<1> USE Parameters
<1>1. AllInit => LocksInv
  BY InitLocks DEF AllInit
<1>2. LocksInv /\ [AllNext]_allVars => LocksInv'
  <2> SUFFICES ASSUME LocksInv, [AllNext]_allVars PROVE LocksInv'
    OBVIOUS
  <2>1. [Locking!Next]_lockVars
    BY DEF AllNext, PoolStep, LocksStep, allVars
  <2> QED  BY <2>1, NextLocks
<1>3. LocksInv => (Locking!Delete => \A t \in Threads : readers["workers"][t] = 0)
  BY DeleteAlone
<1>4. [AllNext]_allVars /\ LocksInv =>
          [Locking!Delete => \A t \in Threads : readers["workers"][t] = 0]_(Locking!vars)
  BY <1>3
<1> QED  BY <1>1, <1>2, <1>4, PTL DEF AllSpec, NoMapRace, Locking!NoMapRace
=============================================================================
