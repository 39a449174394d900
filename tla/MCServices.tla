------------------------------ MODULE MCServices ------------------------------
(***************************************************************************)
(* What the services write, for TLC: workflow documents, execution logs,   *)
(* and the lists of QueueService.  The modules share no variable: `part'   *)
(* says which of them moves, the others stay as they begin.                *)
(***************************************************************************)
EXTENDS Naturals, TLC

CONSTANTS
    Requests, None,                              \* the callers of all of them are alike
    Ids, StepLists, WellFormed, MaxVersion,      \* of Workflows
    LoggedWorkflows, Logs, Steps, MaxRuns,       \* of ExecutionLogs
    Tasks, Movers, Consumers, MaxRetries, Count  \* of QueueService

VARIABLES
    part,
    doc, edit, wanted, gone,
    stats, log, queued, trigger, used, added, runs, left, mixed,
    scheduled, due, list, batch, hand, asked, dropped

Documents == INSTANCE Workflows WITH call <- edit
Runs == INSTANCE ExecutionLogs WITH Workflows <- LoggedWorkflows, call <- trigger
Lists == INSTANCE QueueService WITH NoTask <- None

ASSUME Parameters ==
    /\ Documents!WorkflowsAssumption /\ Runs!ExecutionLogsAssumption
    /\ Lists!QueueServiceAssumption

Symmetry == Permutations(Requests) \cup Permutations(Logs)

-----------------------------------------------------------------------------
documentVars == <<doc, edit, wanted, gone>>
logVars == <<stats, log, queued, trigger, used, added, runs, left, mixed>>
listVars == <<scheduled, due, list, batch, hand, asked, dropped>>
vars == <<part, documentVars, logVars, listVars>>

Init ==
    /\ part \in {"documents", "logs", "lists"}
    /\ Documents!Init /\ Runs!Init /\ Lists!Init

DocumentsStep ==
    /\ part = "documents" /\ Documents!Next
    /\ UNCHANGED <<part, logVars, listVars>>
LogsStep ==
    /\ part = "logs" /\ Runs!Next
    /\ UNCHANGED <<part, documentVars, listVars>>
ListsStep ==
    /\ part = "lists" /\ Lists!Next
    /\ UNCHANGED <<part, documentVars, logVars>>

Next == DocumentsStep \/ LogsStep \/ ListsStep

Spec == Init /\ [][Next]_vars

-----------------------------------------------------------------------------
(* The properties of the services, as their modules state them, of the     *)
(* part that moves.                                                        *)

\* Every query finds the workflows that IsActive says run, a deleted workflow never runs
\* again, and an edit is not undone by what was decided on an older copy.
DocumentsHold ==
    part = "documents" =>
        /\ Documents!TypeOK /\ Documents!QueriesAgree
        /\ Documents!DeletedStaysDead /\ Documents!EditsSurvive

\* Logs keep every step that was added, the counters of a workflow say what was
\* completed, and an active log has its task or somebody who is at work on it.
LogsHold ==
    part = "logs" =>
        Runs!TypeOK /\ Runs!StepsComplete /\ Runs!StatsCountRuns /\ Runs!ActiveLogHasTask

\* No task given to QueueService is lost unless something failed, and none is copied
\* more often than there are movers.
ListsHold == part = "lists" => Lists!TypeOK /\ Lists!Accounted /\ Lists!CopiesBounded
=============================================================================
