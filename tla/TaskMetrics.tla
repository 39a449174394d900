----------------------------- MODULE TaskMetrics -----------------------------
(***************************************************************************)
(* The collector of worker/monitoring.go, used from several goroutines:    *)
(* five counters written atomically, the figures of an action type under   *)
(* one lock and those of the hours and days under another.  One action     *)
(* type is followed and the time it takes; the uptime, the last execution  *)
(* and the copies that readers get are left out.  The engine starts the    *)
(* periodic cleanup and CheckHealth is called; nothing calls               *)
(* RecordTaskProcessed yet.                                                *)
(***************************************************************************)
EXTENDS Naturals, FiniteSets, FiniteSetsExt

CONSTANTS
    Callers,      \* bound: goroutines that use the collector at the same time
    Durations,    \* what a task may take
    MaxTasks,     \* bound: tasks recorded
    MaxRetries,   \* bound: retries recorded
    LastDay,      \* bound: days that pass
    KeptDays,     \* how many days the cleanup keeps, 30
    None

\* The five counters, the figures of a day or hour, those of an action type, and what a
\* goroutine is in the middle of.
Counters == [processed : Nat, succeeded : Nat, failed : Nat, retried : Nat, time : Nat]
Tasks == [ok : Nat, bad : Nat]
Actions == [count : Nat, tasks : Tasks, total : Nat, min : Durations, max : Durations, avg : Nat]
Calls == [at : {"time", "outcome", "action", "temporal", "zero", "clear", "clear2", "load", "loaded"},
          duration : Nat, success : BOOLEAN, seen : Nat, rate : Nat, moved : BOOLEAN]

TaskMetricsAssumption ==
    /\ Durations \subseteq Nat /\ Durations # {}
    /\ {MaxTasks, MaxRetries, LastDay, KeptDays} \subseteq Nat
    /\ None \notin Nat \cup Tasks \cup Actions \cup Calls

VARIABLES
    counters,     \* the five counters
    action,       \* the figures of the action type, or None
    daily,        \* daily[d]: the figures of a day, or None
    hourly,       \* the figures of the current hour of the day, over all days
    call,         \* call[c]: what goroutine c is in the middle of, or None
    day,          \* the clock
    started,      \* how many tasks were recorded
    retries,      \* history: how many retries the figures of the action hold
    torn          \* history: a reset ran while a task was being recorded

figures == <<action, daily, hourly>>
history == <<started, retries, torn>>
vars == <<counters, figures, call, day, history>>

Days == 0..LastDay
NoCounts == [processed |-> 0, succeeded |-> 0, failed |-> 0, retried |-> 0, time |-> 0]
NoTasks == [ok |-> 0, bad |-> 0]

Init ==
    /\ counters = NoCounts
    /\ action = None /\ hourly = None
    /\ daily = [d \in Days |-> None]
    /\ call = [c \in Callers |-> None]
    /\ day = 0
    /\ started = 0 /\ retries = 0 /\ torn = FALSE

At(c, at) == call[c] # None /\ call[c].at = at
Go(c, at) == call' = [call EXCEPT ![c].at = at]
End(c) == call' = [call EXCEPT ![c] = None]
Begin(c, at, duration, success) ==
    /\ call[c] = None
    /\ call' = [call EXCEPT ![c] = [at |-> at, duration |-> duration, success |-> success,
                                    seen |-> 0, rate |-> 0, moved |-> FALSE]]
In(places) == {c \in Callers : call[c] # None /\ call[c].at \in places}
Recording == In({"time", "outcome", "action", "temporal"})
Resetting == In({"zero", "clear", "clear2"})

-----------------------------------------------------------------------------
(* RecordTaskProcessed, one atomic step or one critical section at a time. *)

RecordTaskProcessed(c) ==
    /\ started < MaxTasks /\ started' = started + 1
    /\ \E d \in Durations, success \in BOOLEAN : Begin(c, "time", d, success)
    /\ counters' = [counters EXCEPT !.processed = @ + 1]
    /\ torn' = (torn \/ Resetting # {})
    /\ UNCHANGED <<figures, day, retries>>

AddTime(c) ==
    /\ At(c, "time") /\ Go(c, "outcome")
    /\ counters' = [counters EXCEPT !.time = @ + call[c].duration]
    /\ UNCHANGED <<figures, day, history>>

\* Mutant: a failed task counts as succeeded.
AddOutcome_Always(c) ==
    /\ At(c, "outcome") /\ Go(c, "action")
    /\ counters' = [counters EXCEPT !.succeeded = @ + 1]
    /\ UNCHANGED <<figures, day, history>>

AddOutcome(c) ==
    /\ At(c, "outcome") /\ Go(c, "action")
    /\ counters' = IF call[c].success THEN [counters EXCEPT !.succeeded = @ + 1]
                   ELSE [counters EXCEPT !.failed = @ + 1]
    /\ UNCHANGED <<figures, day, history>>

AddTask(tasks, success) ==
    LET t == IF tasks = None THEN NoTasks ELSE tasks
    IN  IF success THEN [t EXCEPT !.ok = @ + 1] ELSE [t EXCEPT !.bad = @ + 1]

\* updateActionMetrics: the average is over the count, retries included.
UpdateActionMetrics(c) ==
    /\ At(c, "action") /\ Go(c, "temporal")
    /\ LET d == call[c].duration
           old == IF action # None THEN action
                  ELSE [count |-> 0, tasks |-> NoTasks, total |-> 0, min |-> d, max |-> d, avg |-> 0]
       IN  action' = [count |-> old.count + 1, tasks |-> AddTask(old.tasks, call[c].success),
                      total |-> old.total + d, min |-> Min({old.min, d}), max |-> Max({old.max, d}),
                      avg |-> (old.total + d) \div (old.count + 1)]
    /\ UNCHANGED <<counters, daily, hourly, day, history>>

\* updateTemporalStats: the hour is one of the day, whichever day it is.
UpdateTemporalStats(c) ==
    /\ At(c, "temporal") /\ End(c)
    /\ hourly' = AddTask(hourly, call[c].success)
    /\ daily' = [daily EXCEPT ![day] = AddTask(@, call[c].success)]
    /\ UNCHANGED <<counters, action, day, history>>

\* RecordTaskRetried: a retry is counted where the tasks are, when there are any.
RecordTaskRetried ==
    /\ counters.retried < MaxRetries
    /\ counters' = [counters EXCEPT !.retried = @ + 1]
    /\ action' = IF action # None THEN [action EXCEPT !.count = @ + 1] ELSE action
    /\ retries' = IF action # None THEN retries + 1 ELSE retries
    /\ UNCHANGED <<daily, hourly, call, day, started, torn>>

-----------------------------------------------------------------------------
(* ResetMetrics: the counters one by one, then each group of figures.      *)

ResetMetrics(c) ==
    /\ Begin(c, "zero", 0, FALSE)
    /\ counters' = [counters EXCEPT !.processed = 0]
    /\ torn' = (torn \/ Recording # {})
    /\ UNCHANGED <<figures, day, started, retries>>

ResetCounters(c) ==
    /\ At(c, "zero") /\ Go(c, "clear")
    /\ counters' = [NoCounts EXCEPT !.processed = counters.processed]
    /\ UNCHANGED <<figures, day, history>>

ResetActions(c) ==
    /\ At(c, "clear") /\ Go(c, "clear2")
    /\ action' = None /\ retries' = 0
    /\ UNCHANGED <<counters, daily, hourly, day, started, torn>>

ResetTemporal(c) ==
    /\ At(c, "clear2") /\ End(c)
    /\ daily' = [d \in Days |-> None] /\ hourly' = None
    /\ UNCHANGED <<counters, action, day, history>>

-----------------------------------------------------------------------------
(* The readers, and time.                                                  *)

Rate(part, whole) == IF whole = 0 THEN 0 ELSE (part * 100) \div whole

\* GetMetrics, GetSuccessRate and CheckHealth load the number of tasks first, and
\* those that succeeded or failed after it.
GetMetrics(c) ==
    /\ call[c] = None
    /\ call' = [call EXCEPT ![c] = [at |-> "load", duration |-> 0, success |-> FALSE,
                                    seen |-> counters.processed, rate |-> 0, moved |-> FALSE]]
    /\ UNCHANGED <<counters, figures, day, history>>
\* The second load, of `part', and the rate it gives.
Loaded(c, part) ==
    /\ At(c, "load")
    /\ call' = [call EXCEPT ![c] = [@ EXCEPT
           !.at = "loaded", !.rate = Rate(part, call[c].seen), !.moved = counters.processed # call[c].seen]]
    /\ UNCHANGED <<counters, figures, day, history>>
GetSuccessRate(c) == Loaded(c, counters.succeeded)
CheckHealth(c) == Loaded(c, counters.failed)
Reply(c) == At(c, "loaded") /\ End(c) /\ UNCHANGED <<counters, figures, day, history>>

\* CleanupOldStats, once a day.
CleanupOldStats ==
    /\ daily' = [d \in Days |-> IF d + KeptDays < day THEN None ELSE daily[d]]
    /\ UNCHANGED <<counters, action, hourly, call, day, history>>

Tick == day < LastDay /\ day' = day + 1 /\ UNCHANGED <<counters, figures, call, history>>

Step(c) ==
    \/ RecordTaskProcessed(c) \/ AddTime(c) \/ AddOutcome(c)
    \/ UpdateActionMetrics(c) \/ UpdateTemporalStats(c)
    \/ ResetMetrics(c) \/ ResetCounters(c) \/ ResetActions(c) \/ ResetTemporal(c)
    \/ GetMetrics(c) \/ GetSuccessRate(c) \/ CheckHealth(c) \/ Reply(c)
Next == RecordTaskRetried \/ CleanupOldStats \/ Tick \/ \E c \in Callers : Step(c)

Spec == Init /\ [][Next]_vars

-----------------------------------------------------------------------------
(* The properties.                                                         *)

TypeOK ==
    /\ counters \in Counters /\ action \in Actions \cup {None}
    /\ call \in [Callers -> Calls \cup {None}]
    /\ hourly \in Tasks \cup {None} /\ daily \in [Days -> Tasks \cup {None}]
    /\ day \in Days /\ {started, retries} \subseteq Nat /\ torn \in BOOLEAN

Count(tasks) == IF tasks = None THEN 0 ELSE tasks.ok + tasks.bad
\* As long as no reset met a recording, the five counters, the figures of the action and
\* those of the hour tell the same story: they differ by the tasks that are between the
\* two, and by nothing else.
CountersAgree ==
    ~torn /\ Resetting = {} =>
        /\ counters.processed = counters.succeeded + counters.failed + Cardinality(In({"time", "outcome"}))
        /\ counters.failed >= (IF action = None THEN 0 ELSE action.tasks.bad)
        /\ counters.processed =
               (IF action = None THEN 0 ELSE Count(action.tasks)) + Cardinality(In({"time", "outcome", "action"}))
        /\ counters.processed = Count(hourly) + Cardinality(In({"time", "outcome", "action", "temporal"}))

\* The figures of an action are consistent whenever its lock is free, resets or not: the
\* count is the tasks and the retries, and no average is above the longest task.
ActionAddsUp ==
    action # None =>
        /\ action.count = Count(action.tasks) + retries
        /\ action.avg <= action.max /\ action.min <= action.max

\* The two loads of a rate are not one: a rate above 100 is answered, but only to a
\* reader that was overtaken by a recording or a reset.
RatesAreRates ==
    \A c \in Callers : At(c, "loaded") /\ ~torn /\ ~call[c].moved => call[c].rate <= 100
=============================================================================
