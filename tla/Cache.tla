------------------------------- MODULE Cache --------------------------------
(***************************************************************************)
(* The cache: pkg/cache under services/cached_workflow_services.go and     *)
(* cached_dashboard_service.go, with the routes of api/handlers/           *)
(* cache_handler.go.  One key is followed, of any of the families the      *)
(* services build; what it holds and what the documents say are versions.  *)
(*                                                                         *)
(* A read fills the key, a write starts goroutines that nobody waits for,  *)
(* and each command to Redis is an action.  A hit leaves the cache as it   *)
(* is (a reader that wants a structure panics on the plain map it gets; the*)
(* request is recovered), so it is no action.  Redis may fail at any       *)
(* command; a cache whose CacheConfig.Enabled is false, as main.go leaves  *)
(* it, is one where each fails.  Counters are left out.                    *)
(***************************************************************************)
EXTENDS Naturals, FiniteSets

CONSTANTS
    Tasks,        \* warm-up tasks
    Filler,       \* the one that fills the key, when its family is warmed
    Slots,        \* bound: goroutines under way, requests and detached ones
    Semaphore,    \* size of the warm-up's semaphore, 5
    MaxVersion,   \* bound
    None

CacheAssumption ==
    /\ Filler \in Tasks
    /\ Semaphore \in Nat \ {0} /\ MaxVersion \in Nat /\ None \notin Nat

VARIABLES
    family,       \* the family of the key
    version,      \* the version of the documents
    entry,        \* the version stored, or None
    job,          \* job[s]: what goroutine s is about to do, or None
    phase,        \* of the manager, see Phase
    warm,         \* warm[t]: where task t of the running warm-up is
    manual        \* a request waits for that warm-up, not the worker

workflow == <<version, entry, job>>
manager == <<phase, warm, manual>>
vars == <<family, workflow, manager>>

\* Keys that the same invalidations reach: a workflow's own, searches and lists, a
\* user's workflows, what the dashboard shows, its figures, the system's state.
Family == {"workflow", "search", "active", "user", "dashboard", "metrics", "system"}

\* What the warm-up tasks fill, as far as some read asks for the key.
WorkflowWarmup == {"active"}
DashboardWarmup == {"dashboard", "system"}
Warmed == WorkflowWarmup \cup DashboardWarmup

\* The patterns of invalidateWorkflowCaches; a new workflow has no keys of its own yet,
\* and Delete gives no user.
Listed == {"search", "active", "dashboard", "metrics"}
OfCreate == Listed \cup {"user"}
OfUpdate == Listed \cup {"workflow", "user"}
OfDelete == Listed \cup {"workflow"}
OfRefresh == {"dashboard", "metrics", "system"}

\* Close cancels the context, waits for the workers and closes the channel; a
\* detached goroutine that sends on the closed channel ends the process.
Phase == {"open", "cancelled", "closed", "crashed"}
Version == 0..MaxVersion
Job == [op : {"fetch", "fill", "put", "keys", "del", "flush", "warm"},
        value : Version \cup {None}, reached : BOOLEAN, kind : {"request", "detached", "refresh"}]
Step == [at : {"idle", "wait", "fetch", "set", "done"}, value : Version \cup {None}]
Idle == [at |-> "idle", value |-> None]

Init ==
    /\ family \in Family
    /\ version = 0
    /\ entry = None
    /\ job = [s \in Slots |-> None]
    /\ phase = "open"
    /\ warm = [t \in Tasks |-> Idle]
    /\ manual = FALSE

Alive == phase # "crashed"
\* primary.Close closes the client.
Works == phase # "closed"

-----------------------------------------------------------------------------
(* The reads, and GetOrSet under them.                                     *)

At(s, op) == Alive /\ job[s] # None /\ job[s].op = op
Go(s, op, value) == job' = [job EXCEPT ![s].op = op, ![s].value = value]
Ends(s) == job' = [job EXCEPT ![s] = None]
NewJob(op, value, reached, kind) == [op |-> op, value |-> value, reached |-> reached, kind |-> kind]
Start(s, new) == Alive /\ job[s] = None /\ job' = [job EXCEPT ![s] = new]

\* Get, at the start of GetOrSet, when it misses: any error is a miss, one of a
\* disabled or closed cache as well.
Miss(s, f) ==
    /\ family = f
    /\ Start(s, NewJob("fetch", None, FALSE, "request"))
    /\ UNCHANGED <<family, version, entry, manager>>

\* Each read of the two services, by the family of its key.
GetByID(s) == Miss(s, "workflow")
GetWorkflowForExecution(s) == Miss(s, "workflow")
GetWorkflowHealth(s) == Miss(s, "workflow")
PreloadWorkflow(s) == Miss(s, "workflow")
Search(s) == Miss(s, "search")
GetActiveWorkflows(s) == Miss(s, "active")
GetUserWorkflows(s) == Miss(s, "user")
GetCompleteDashboard(s) == Miss(s, "dashboard")
GetDashboardSummary(s) == Miss(s, "dashboard")
GetQuickStats(s) == Miss(s, "dashboard")
GetRecentActivity(s) == Miss(s, "dashboard")
GetWorkflowStatus(s) == Miss(s, "dashboard")
GetSystemMetrics(s) == Miss(s, "metrics")
GetDashboardMetrics(s) == Miss(s, "metrics")
GetPerformanceData(s) == Miss(s, "metrics")
GetSystemHealth(s) == Miss(s, "system")
GetQueueStatus(s) == Miss(s, "system")

\* The fetch of GetOrSet: the base service reads the documents, or fails (or finds a
\* workflow that may not be executed).
GetOrSet(s) ==
    /\ At(s, "fetch")
    /\ Go(s, "fill", version) \/ Ends(s)
    /\ UNCHANGED <<family, version, entry, manager>>

\* Set stores for the time given or the default one; its error is only logged.
Set(value) == entry' = IF Works THEN value ELSE entry

Fill(s) ==
    /\ At(s, "fill")
    /\ Set(job[s].value) \/ UNCHANGED entry
    /\ Ends(s)
    /\ UNCHANGED <<family, version, manager>>

\* Mutant: an entry stored without a time of its own never expires.
Expire_Never == FALSE

\* Redis drops the entry when its time is up.
Expire == entry # None /\ entry' = None

-----------------------------------------------------------------------------
(* The writes, and the goroutines they leave behind.                       *)

Invalidation(families, kind) == NewJob("keys", None, family \in families, kind)
Written == Alive /\ version < MaxVersion /\ version' = version + 1

\* The document, then an invalidation and a store of the answer under the key of the
\* workflow, in no order.
StoreAndInvalidate(s, families) ==
    /\ Written
    /\ \E i \in Slots \ {s} :
           /\ job[s] = None /\ job[i] = None
           /\ job' = [job EXCEPT
                ![s] = Invalidation(families, "detached"),
                ![i] = IF family = "workflow" THEN NewJob("put", version + 1, FALSE, "detached")
                       ELSE None]
    /\ UNCHANGED <<family, entry, manager>>
Create(s) == StoreAndInvalidate(s, OfCreate)
Clone(s) == StoreAndInvalidate(s, OfCreate)
Update(s) == StoreAndInvalidate(s, OfUpdate)

\* The document and an invalidation.
WriteAndInvalidate(s, families) ==
    /\ Written /\ Start(s, Invalidation(families, "detached"))
    /\ UNCHANGED <<family, entry, manager>>
ToggleStatus(s) == WriteAndInvalidate(s, OfUpdate)
Delete(s) == WriteAndInvalidate(s, OfDelete)

\* Requests that write nothing: a refresh of the dashboard, that warms the cache up as
\* well, and the routes that clear a pattern or everything.
Asked(s, new) == Start(s, new) /\ UNCHANGED <<family, version, entry, manager>>
RefreshDashboardData(s) == Asked(s, Invalidation(OfRefresh, "refresh"))
ClearPattern(s) == \E fs \in {{}, Family} : Asked(s, Invalidation(fs, "request"))
ClearCache(s) == Asked(s, NewJob("flush", None, TRUE, "request"))
WarmNow(s) == Asked(s, NewJob("warm", None, FALSE, "request"))

Put(s) ==
    /\ At(s, "put")
    /\ Set(job[s].value) \/ UNCHANGED entry
    /\ Ends(s)
    /\ UNCHANGED <<family, version, manager>>

Invalidated(s) == IF job[s].kind = "refresh" THEN Go(s, "warm", None) ELSE Ends(s)

\* InvalidatePattern: the event is sent without waiting (a full channel drops it),
\* which panics on a closed one; then the keys are read.
InvalidatePattern(s) ==
    /\ At(s, "keys")
    /\ \/ /\ phase = "closed" /\ Ends(s)
          /\ phase' = IF job[s].kind = "detached" THEN "crashed" ELSE phase
       \/ phase # "closed" /\ job[s].reached /\ Go(s, "del", None) /\ UNCHANGED phase
       \/ phase # "closed" /\ Invalidated(s) /\ UNCHANGED phase
    /\ UNCHANGED <<family, version, entry, warm, manual>>

\* The second half of DeletePattern: the keys that matched are deleted, or not.
DeletePattern(s) ==
    /\ At(s, "del")
    /\ entry' \in {entry, IF Works THEN None ELSE entry}
    /\ Invalidated(s)
    /\ UNCHANGED <<family, version, manager>>

\* Clear flushes the database, the queue and the blacklist that share it included.
Clear(s) ==
    /\ At(s, "flush")
    /\ entry' \in {entry, IF Works THEN None ELSE entry}
    /\ Ends(s)
    /\ UNCHANGED <<family, version, manager>>

-----------------------------------------------------------------------------
(* The warm-up worker, and Close.                                          *)

Inside == {t \in Tasks : warm[t].at \in {"fetch", "set"}}
Warming == \E t \in Tasks : warm[t] # Idle
Move(t, from, to, value) ==
    /\ Alive /\ warm[t].at = from
    /\ warm' = [warm EXCEPT ![t] = [at |-> to, value |-> value]]
Fills(t) == t = Filler /\ family \in Warmed

\* One goroutine per task, all started; one warm-up at a time (bound).
StartTasks == ~Warming /\ warm' = [t \in Tasks |-> [at |-> "wait", value |-> None]]

\* The ticker of the worker.
Tick ==
    /\ phase = "open" /\ StartTasks /\ manual' = FALSE
    /\ UNCHANGED <<family, workflow, phase>>

\* RefreshDashboardData and the route, under the request's context.
RequestWarmup(s) ==
    /\ At(s, "warm") /\ StartTasks /\ manual' = TRUE
    /\ Ends(s)
    /\ UNCHANGED <<family, version, entry, phase>>

\* A task takes a place of the semaphore, or leaves when its context has ended; one
\* whose key is there is done.
ExecuteWarmup(t) ==
    /\ \/ /\ Cardinality(Inside) < Semaphore
          /\ \/ Move(t, "wait", "fetch", None)
             \/ Works /\ Fills(t) /\ entry # None /\ Move(t, "wait", "done", None)
       \/ phase # "open" /\ ~manual /\ Move(t, "wait", "done", None)
    /\ UNCHANGED <<family, workflow, phase, manual>>

\* A task whose fetch fails is done; otherwise it stores what it fetched (the step of a
\* task with another key is left out), and is done whether that succeeds or not.
WarmupTask(t) ==
    /\ \/ Fills(t) /\ Move(t, "fetch", "set", version) /\ UNCHANGED entry
       \/ Move(t, "fetch", "done", None) /\ UNCHANGED entry
       \/ Move(t, "set", "done", None) /\ (Set(warm[t].value) \/ UNCHANGED entry)
    /\ UNCHANGED <<family, version, job, phase, manual>>

\* wg.Wait of the warm-up.
WarmupEnds ==
    /\ Alive /\ \A t \in Tasks : warm[t].at = "done"
    /\ warm' = [t \in Tasks |-> Idle] /\ manual' = FALSE
    /\ UNCHANGED <<family, workflow, phase>>

\* Close: cancel; then, the worker gone, the channel and the client are closed.
Close ==
    /\ phase = "open" /\ phase' = "cancelled"
    /\ UNCHANGED <<family, workflow, warm, manual>>
CloseChannel ==
    /\ phase = "cancelled" /\ (Warming => manual) /\ phase' = "closed"
    /\ UNCHANGED <<family, workflow, warm, manual>>

Read(s) ==
    \/ GetByID(s) \/ GetWorkflowForExecution(s) \/ GetWorkflowHealth(s) \/ PreloadWorkflow(s)
    \/ Search(s) \/ GetActiveWorkflows(s) \/ GetUserWorkflows(s)
    \/ GetCompleteDashboard(s) \/ GetDashboardSummary(s) \/ GetQuickStats(s)
    \/ GetRecentActivity(s) \/ GetWorkflowStatus(s)
    \/ GetSystemMetrics(s) \/ GetDashboardMetrics(s) \/ GetPerformanceData(s)
    \/ GetSystemHealth(s) \/ GetQueueStatus(s)
Write(s) == Create(s) \/ Clone(s) \/ Update(s) \/ ToggleStatus(s) \/ Delete(s)
Ask(s) == RefreshDashboardData(s) \/ ClearPattern(s) \/ ClearCache(s) \/ WarmNow(s)
Goroutine(s) ==
    \/ GetOrSet(s) \/ Fill(s) \/ Put(s) \/ InvalidatePattern(s) \/ DeletePattern(s)
    \/ Clear(s) \/ RequestWarmup(s)
RunTask(t) == ExecuteWarmup(t) \/ WarmupTask(t)
ExpireEntry == Expire /\ UNCHANGED <<family, version, job, manager>>

Next ==
    \/ \E s \in Slots : (Read(s) \/ Write(s) \/ Ask(s) \/ Goroutine(s))
    \/ \E t \in Tasks : RunTask(t)
    \/ ExpireEntry \/ Tick \/ WarmupEnds \/ Close \/ CloseChannel

Spec == Init /\ [][Next]_vars

\* Goroutines run, tasks end, time passes for the entry.
Fairness ==
    /\ \A s \in Slots : WF_vars(Goroutine(s))
    /\ \A t \in Tasks : WF_vars(RunTask(t))
    /\ WF_vars(WarmupEnds) /\ WF_vars(CloseChannel) /\ WF_vars(ExpireEntry)
FairSpec == Spec /\ Fairness

-----------------------------------------------------------------------------
(* The properties.                                                         *)

TypeOK ==
    /\ family \in Family /\ version \in Version
    /\ entry \in Version \cup {None}
    /\ job \in [Slots -> Job \cup {None}]
    /\ phase \in Phase
    /\ warm \in [Tasks -> Step] /\ manual \in BOOLEAN

\* Once the documents are no longer written the cache comes to hold nothing but what
\* they say, and keeps to it: no fill, store or warm-up under way brings an old answer
\* back for good, in whatever order they and the invalidations arrive, and although a
\* family that a write does not name is not invalidated.
CacheSettles == <>[](entry \in {None, version})
=============================================================================
