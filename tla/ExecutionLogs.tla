---------------------------- MODULE ExecutionLogs ----------------------------
(***************************************************************************)
(* The logs of workflow executions: internal/services/log_service.go over  *)
(* the logs' repository, and the handlers of handlers/trigger.go that make *)
(* a log for each run they ask for.                                        *)
(*                                                                         *)
(* A log, the list the run is pushed onto and the workflow's statistics    *)
(* are three writes that nothing ties together.  An action is one access   *)
(* to MongoDB or Redis; between two of them a request may be overtaken, or *)
(* die with the process.  Times, durations, messages and trigger data are  *)
(* left out.                                                               *)
(***************************************************************************)
EXTENDS Naturals, FiniteSets

CONSTANTS
    Workflows,
    Logs,         \* bound: ids that logs are given, each once
    Steps,        \* steps of a run
    Requests,     \* callers served at the same time
    MaxRuns,      \* bound: completions of the logs of one workflow
    None

VARIABLES
    stats,        \* stats[w]: the counters in the workflow's document
    log,          \* log[l]: the document, or None
    queued,       \* logs whose task is in queue:tasks:high; nothing takes one out
    call,         \* call[r]: what is being done for caller r, or None
    used,         \* ids that have been given
    added,        \* history: added[l], the steps whose addition was answered
    runs,         \* history: runs[w], completions that reached their log
    left,         \* history: logs that a failure or a crash left as they were
    mixed         \* history: workflows for which two counts overlapped, or one broke off

documents == <<stats, log>>
history == <<used, added, runs, left, mixed>>
vars == <<documents, queued, call, history>>

Status == {"active", "completed", "failed", "cancelled"}
Log == [workflow : Workflows, status : Status, steps : SUBSET Steps]
Stats == [total : Nat, ok : Nat, failed : Nat]
Stages == {"create", "enqueue", "refuse", "add", "complete", "count", "stats"}
Call == [stage : Stages, workflow : Workflows, log : Logs \cup {None},
         steps : SUBSET Steps, ok : BOOLEAN, seen : Stats]

ExecutionLogsAssumption ==
    /\ None \notin Logs \cup Workflows \cup Log \cup Call
    /\ MaxRuns \in Nat /\ IsFiniteSet(Requests)

NoStats == [total |-> 0, ok |-> 0, failed |-> 0]

Init ==
    /\ stats = [w \in Workflows |-> NoStats]
    /\ log = [l \in Logs |-> None]
    /\ queued = {} /\ used = {} /\ left = {} /\ mixed = {}
    /\ call = [r \in Requests |-> None]
    /\ added = [l \in Logs |-> {}]
    /\ runs = [w \in Workflows |-> 0]

At(r, stage) == call[r] # None /\ call[r].stage = stage
Go(r, c) == call' = [call EXCEPT ![r] = c]
Return(r) == Go(r, None)
Begin(stage, w, l) == [stage |-> stage, workflow |-> w, log |-> l, steps |-> {},
                       ok |-> FALSE, seen |-> NoStats]

\* Update of the repository sets the fields it is given and no other.
SetStatus(l, s) == log' = [log EXCEPT ![l].status = s]
SetSteps(l, S) == log' = [log EXCEPT ![l].steps = S]

-----------------------------------------------------------------------------
(* Triggers.                                                               *)

\* The workflow was found active; another request ends here.  It may be switched off
\* (module Workflows) from this moment on, so that the test holds nothing up later.
FoundActive(r, w) ==
    /\ call[r] = None
    /\ Go(r, Begin("create", w, None))
    /\ UNCHANGED <<documents, queued, history>>

TriggerWorkflow(r, w) == FoundActive(r, w)    \* by its owner or an administrator
TriggerWebhook(r, w) == FoundActive(r, w)     \* found by the webhook, signature checked
TriggerScheduled(r, w) == FoundActive(r, w)   \* no route leads to it

\* The log is stored, not stored, or stored without an answer.
CreateLog(r) ==
    LET w == call[r].workflow IN
    /\ At(r, "create")
    /\ \/ \E l \in Logs \ used :
             /\ log' = [log EXCEPT ![l] =
                    [workflow |-> w, status |-> "active", steps |-> {}]]
             /\ used' = used \cup {l}
             /\ \/ Go(r, Begin("enqueue", w, l)) /\ UNCHANGED left
                \/ Return(r) /\ left' = left \cup {l}
       \/ Return(r) /\ UNCHANGED <<log, used, left>>
    /\ UNCHANGED <<stats, queued, added, runs, mixed>>

\* The push may fail, and may fail after Redis has carried it out.
EnqueueExecution(r) ==
    LET l == call[r].log IN
    /\ At(r, "enqueue")
    /\ \/ queued' = queued \cup {l} /\ Return(r)
       \/ /\ queued' = queued \/ queued' = queued \cup {l}
          /\ Go(r, [call[r] EXCEPT !.stage = "refuse"])
    /\ UNCHANGED <<documents, history>>

\* Mutant: the failure is reported to the caller and the log forgotten.
RefuseTrigger_NoUpdate(r) ==
    /\ At(r, "refuse")
    /\ Return(r)
    /\ UNCHANGED <<documents, queued, history>>

\* The error of this update is not looked at.
RefuseTrigger(r) ==
    LET l == call[r].log IN
    /\ At(r, "refuse")
    /\ \/ log[l] # None /\ SetStatus(l, "failed") /\ UNCHANGED left
       \/ UNCHANGED log /\ left' = left \cup {l}
    /\ Return(r)
    /\ UNCHANGED <<stats, queued, used, added, runs, mixed>>

-----------------------------------------------------------------------------
(* The log service.                                                        *)

CreateWorkflowLog(w) ==
    \E l \in Logs \ used :
        /\ log' = [log EXCEPT ![l] = [workflow |-> w, status |-> "active", steps |-> {}]]
        /\ used' = used \cup {l}
        /\ left' = left \cup {l}    \* this log is no trigger's
        /\ UNCHANGED <<stats, queued, call, added, runs, mixed>>

UpdateLogStatus(l) ==
    /\ log[l] # None
    /\ SetStatus(l, "cancelled")
    /\ UNCHANGED <<stats, queued, call, history>>

\* The steps of a run are added by the worker that has it, one after the other.
AddStepExecution(r, l) ==
    /\ call[r] = None /\ log[l] # None
    /\ \A q \in Requests : ~(At(q, "add") /\ call[q].log = l)
    /\ \E s \in Steps \ added[l] :
           Go(r, [Begin("add", log[l].workflow, l) EXCEPT !.steps = log[l].steps \cup {s}])
    /\ UNCHANGED <<documents, queued, history>>

WriteSteps(r) ==
    LET l == call[r].log IN
    /\ At(r, "add")
    /\ IF log[l] = None
       THEN UNCHANGED <<log, added>>
       ELSE /\ SetSteps(l, call[r].steps)
            /\ added' = [added EXCEPT ![l] = call[r].steps]
    /\ Return(r)
    /\ UNCHANGED <<stats, queued, used, runs, left, mixed>>

CompleteWorkflowLog(r, l) ==
    /\ call[r] = None /\ log[l] # None
    /\ \E ok \in BOOLEAN :
           Go(r, [Begin("complete", log[l].workflow, l) EXCEPT
                    !.ok = ok, !.steps = log[l].steps])
    /\ UNCHANGED <<documents, queued, history>>

FinalStatus(ok) == IF ok THEN "completed" ELSE "failed"

WriteCompletion(r) ==
    LET w == call[r].workflow
        l == call[r].log
    IN
    /\ At(r, "complete") /\ runs[w] < MaxRuns
    /\ IF log[l] = None
       THEN Return(r) /\ UNCHANGED <<log, runs>>
       ELSE /\ SetStatus(l, FinalStatus(call[r].ok))
            /\ runs' = [runs EXCEPT ![w] = @ + 1]
            /\ Go(r, [Begin("count", w, None) EXCEPT !.ok = call[r].ok])
    /\ UNCHANGED <<stats, queued, used, added, left, mixed>>

Counting(w) == {r \in Requests : call[r] # None /\ call[r].workflow = w
                                 /\ call[r].stage \in {"count", "stats"}}

\* The workflow is read for its counters.  A failure of either access is logged.
ReadStats(r) ==
    LET w == call[r].workflow IN
    /\ At(r, "count")
    /\ \/ /\ Go(r, [call[r] EXCEPT !.stage = "stats", !.seen = stats[w]])
          /\ mixed' = IF Counting(w) = {r} THEN mixed ELSE mixed \cup {w}
       \/ Return(r) /\ mixed' = mixed \cup {w}
    /\ UNCHANGED <<documents, queued, used, added, runs, left>>

Counted(s, ok) == [total |-> s.total + 1,
                   ok |-> IF ok THEN s.ok + 1 ELSE s.ok,
                   failed |-> IF ok THEN s.failed ELSE s.failed + 1]

WriteStats(r) ==
    LET w == call[r].workflow IN
    /\ At(r, "stats")
    /\ \/ stats' = [stats EXCEPT ![w] = Counted(call[r].seen, call[r].ok)] /\ UNCHANGED mixed
       \/ UNCHANGED stats /\ mixed' = mixed \cup {w}
    /\ Return(r)
    /\ UNCHANGED <<log, queued, used, added, runs, left>>

-----------------------------------------------------------------------------
(* Deletions, and the process.                                             *)

Remove(L) == log' = [l \in Logs |-> IF l \in L THEN None ELSE log[l]]

\* The logs that are old enough, whatever they are.
DeleteOldLogs ==
    /\ \E L \in SUBSET {l \in Logs : log[l] # None} : L # {} /\ Remove(L)
    /\ UNCHANGED <<stats, queued, call, history>>

DeleteLogsByWorkflow(w) ==
    /\ \E l \in Logs : log[l] # None /\ log[l].workflow = w
    /\ Remove({l \in Logs : log[l] # None /\ log[l].workflow = w})
    /\ UNCHANGED <<stats, queued, call, history>>

Crash ==
    /\ \E r \in Requests : call[r] # None
    /\ call' = [r \in Requests |-> None]
    /\ left' = left \cup {l \in Logs : \E r \in Requests :
                             call[r] # None /\ call[r].log = l
                             /\ call[r].stage \in {"enqueue", "refuse"}}
    /\ mixed' = mixed \cup {w \in Workflows : Counting(w) # {}}
    /\ UNCHANGED <<documents, queued, used, added, runs>>

Next ==
    \/ \E r \in Requests :
           \/ \E w \in Workflows : TriggerWorkflow(r, w) \/ TriggerWebhook(r, w) \/ TriggerScheduled(r, w)
           \/ \E l \in Logs : AddStepExecution(r, l) \/ CompleteWorkflowLog(r, l)
           \/ CreateLog(r) \/ EnqueueExecution(r) \/ RefuseTrigger(r)
           \/ WriteSteps(r) \/ WriteCompletion(r) \/ ReadStats(r) \/ WriteStats(r)
    \/ \E w \in Workflows : CreateWorkflowLog(w) \/ DeleteLogsByWorkflow(w)
    \/ \E l \in Logs : UpdateLogStatus(l)
    \/ DeleteOldLogs \/ Crash

Spec == Init /\ [][Next]_vars

-----------------------------------------------------------------------------
(* The properties.                                                         *)

\* Every variable has its type.
TypeOK ==
    /\ stats \in [Workflows -> Stats]
    /\ log \in [Logs -> Log \cup {None}]
    /\ queued \subseteq used /\ used \subseteq Logs /\ left \subseteq used
    /\ call \in [Requests -> Call \cup {None}]
    /\ added \in [Logs -> SUBSET Steps]
    /\ runs \in [Workflows -> 0..MaxRuns]
    /\ mixed \subseteq Workflows

\* A step whose addition was answered stays in its log as long as the log exists,
\* whatever changes of status come in between.
StepsComplete == \A l \in Logs : log[l] # None => log[l].steps = added[l]

\* The counters of a workflow say what was completed: exactly, once nobody is
\* counting, unless two counts overlapped or one broke off; and even then each run
\* they count succeeded or failed, and none is counted twice.
StatsCountRuns ==
    \A w \in Workflows :
        /\ stats[w].total = stats[w].ok + stats[w].failed
        /\ stats[w].total <= runs[w]
        /\ w \notin mixed /\ Counting(w) = {} => stats[w].total = runs[w]

Handled == {call[r].log : r \in {q \in Requests : call[q] # None
                                    /\ call[q].stage \in {"enqueue", "refuse"}}}

\* A trigger's log that is still active has its task in the queue or a request at
\* work on it, unless a failed answer, a failed update or a crash left it behind.
ActiveLogHasTask ==
    \A l \in Logs \ left :
        log[l] # None /\ log[l].status = "active" => l \in queued \cup Handled
=============================================================================
