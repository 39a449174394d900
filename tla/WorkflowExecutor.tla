--------------------------- MODULE WorkflowExecutor ---------------------------
(***************************************************************************)
(* One call of WorkflowExecutor.Execute (internal/worker/executor.go): the *)
(* loop that runs the steps of a workflow one after another, each with its *)
(* retries, follows branches, and stops at the end of the workflow, at a   *)
(* failure, or after twice as many steps as the workflow has.              *)
(*                                                                         *)
(* A workflow is the document that was loaded for this execution.  Every   *)
(* step has a kind, which decides what an attempt can return and whether   *)
(* it heeds the context; what conditions evaluate to depends on the data   *)
(* and is arbitrary.  The executors of HTTP, Slack and database actions    *)
(* behave alike here ("remote"), and so do the actions of an integration   *)
(* or a notification, which only wait ("simulated").  AddStepExecution is left out: its result only goes to   *)
(* the program's own log.  A workflow without steps is refused beforehand. *)
(***************************************************************************)
EXTENDS Integers, Sequences, FiniteSets, SequencesExt

CONSTANTS
    Steps,        \* the ids of the workflow's steps
    First,        \* the first step of the list
    End,          \* the empty id
    Missing,      \* an id that no step has
    Workflows     \* the workflows that may be executed

Kinds == {"condition", "simulated", "delay", "email", "remote", "webhook",
          "transform", "invalid transform", "invalid delay"}

WorkflowShape ==
    [kind : [Steps -> Kinds],
     next : [Steps -> Steps \cup {End, Missing}],          \* getNextStepID
     branches : [Steps -> SUBSET (Steps \cup {Missing})],   \* of its conditions
     enabled : [Steps -> BOOLEAN],
     maxRetries : [Steps -> Int],     \* Config["max_retries"], or RetryAttempts
     retryAttempts : Nat]             \* RetryAttempts

ASSUME ExecutorAssumption ==
    /\ IsFiniteSet(Steps) /\ First \in Steps
    /\ End \notin Steps /\ Missing \notin Steps /\ End # Missing
    /\ Workflows \subseteq WorkflowShape

VARIABLES
    workflow,
    at,           \* currentStepID
    point,        \* where the call is: head, try, done, panicked
    counted,      \* stepsExecuted
    attempt,
    limit,        \* maxRetries, of the step that is being tried
    timedOut,     \* whether the context is done
    late,         \* whether a head of the loop has seen that
    success,      \* result.Success
    steps,        \* result.StepsExecuted
    runs,         \* runs[s]: how often an executor was called for s
    rewritten     \* webhook steps of which Config has been replaced

inputs == <<workflow, timedOut>>
effects == <<runs, rewritten>>
vars == <<inputs, at, point, counted, attempt, limit, late, success, steps, effects>>

Kind(s) == workflow.kind[s]
MaxSteps == 2 * Cardinality(Steps)

Record(s, status, retries) == [step |-> s, status |-> status, retries |-> retries]

Init ==
    /\ workflow \in Workflows
    /\ at = First /\ point = "head" /\ counted = 0
    /\ attempt = 0 /\ limit = 0
    /\ timedOut = FALSE /\ late = FALSE /\ success = TRUE
    /\ steps = <<>>
    /\ runs = [s \in Steps |-> 0] /\ rewritten = {}

\* The half hour that the worker gives a task is over.
TimeOut ==
    /\ ~timedOut
    /\ timedOut' = TRUE
    /\ UNCHANGED <<workflow, at, point, counted, attempt, limit, late, success, steps,
                   effects>>

-----------------------------------------------------------------------------
(* The head of the loop.                                                   *)

Continues == at # End /\ counted < MaxSteps

\* The context is looked at, but "break" inside the select only leaves the
\* select: the execution is marked as failed, and goes on.
SeeTimeout ==
    /\ late' = (late \/ timedOut)
    /\ success' = (success /\ ~timedOut)

\* Mutant: "break" only leaves a switch.
StepNotFound_GoesOn ==
    /\ point = "head" /\ Continues /\ at = Missing
    /\ late' = (late \/ timedOut)
    /\ success' = FALSE
    /\ UNCHANGED <<inputs, at, point, counted, attempt, limit, steps, effects>>

\* No step has the id.
StepNotFound ==
    /\ point = "head" /\ Continues /\ at = Missing
    /\ late' = (late \/ timedOut)
    /\ success' = FALSE
    /\ point' = "done"
    /\ UNCHANGED <<inputs, at, counted, attempt, limit, steps, effects>>

SkipDisabled ==
    /\ point = "head" /\ Continues /\ at \in Steps /\ ~workflow.enabled[at]
    /\ SeeTimeout
    /\ steps' = Append(steps, Record(at, "skipped", 0))
    /\ at' = workflow.next[at]
    /\ counted' = counted + 1
    /\ UNCHANGED <<inputs, point, attempt, limit, effects>>

\* A webhook step that has been tried before has lost its own limit.
MaxRetries(s) ==
    IF s \in rewritten THEN workflow.retryAttempts ELSE workflow.maxRetries[s]

\* With a negative number of retries the loop over the attempts has no round,
\* and the record of the step is then made from a result that is nil.
BeginStep ==
    /\ point = "head" /\ Continues /\ at \in Steps /\ workflow.enabled[at]
    /\ SeeTimeout
    /\ attempt' = 0 /\ limit' = MaxRetries(at)
    /\ point' = IF limit' < 0 THEN "panicked" ELSE "try"
    /\ UNCHANGED <<inputs, at, counted, steps, effects>>

\* Mutant: running out of steps is no failure.
Conclude_NoLimit ==
    /\ point = "head" /\ ~Continues
    /\ point' = "done"
    /\ UNCHANGED <<inputs, at, counted, attempt, limit, late, success, steps, effects>>

\* The loop ends; after MaxSteps steps that is a failure, wherever they led to.
Conclude ==
    /\ point = "head" /\ ~Continues
    /\ success' = (success /\ counted < MaxSteps)
    /\ point' = "done"
    /\ UNCHANGED <<inputs, at, counted, attempt, limit, late, steps, effects>>

-----------------------------------------------------------------------------
(* An attempt at a step: executeStep and the executors in actions.go.      *)

\* What an executor may return: "ok", "error" with a result, or neither and a panic.
\* A request, whoever it is for, fails once the context is done, and the write that was
\* under way may have happened; email is sent, or simulated, without the context.
HTTPOutcomes == IF timedOut THEN {"error"} ELSE {"ok", "error"}
SlackOutcomes == HTTPOutcomes
DatabaseOutcomes == HTTPOutcomes
EmailOutcomes == {"ok", "error"}

\* The operations of a transform fail on data they cannot read as a map.  A configuration
\* that cannot be parsed, or an unknown operation, returns an error and no result;
\* executeStep writes the duration into the result.
TransformOutcomes(config) == IF config = "invalid" THEN {"panic"} ELSE {"ok", "error"}

\* The delay ends, or the context: that of the step, after ten minutes.  A delay that is
\* configured as anything but a number panics.
DelayOutcomes(config) == IF config = "invalid" THEN {"panic"} ELSE {"ok", "error"}

\* Nothing that a condition or a simulated action finds is an error.
ConditionOutcomes == {"ok"}
SimulatedOutcomes == {"ok"}

Outcomes(s) ==
    CASE Kind(s) = "condition" -> ConditionOutcomes
      [] Kind(s) = "simulated" -> SimulatedOutcomes
      [] Kind(s) = "delay" -> DelayOutcomes("valid")
      [] Kind(s) = "invalid delay" -> DelayOutcomes("invalid")
      [] Kind(s) = "email" -> EmailOutcomes
      [] Kind(s) = "transform" -> TransformOutcomes("valid")
      [] Kind(s) = "invalid transform" -> TransformOutcomes("invalid")
      [] Kind(s) = "webhook" -> HTTPOutcomes
      [] Kind(s) = "remote" -> HTTPOutcomes \cup SlackOutcomes \cup DatabaseOutcomes

\* WebhookActionExecutor.Execute replaces step.Config by the request that it builds
\* from it; "max_retries", the payload and the headers are not in that.
CallExecutor(s) ==
    /\ runs' = [runs EXCEPT ![s] = @ + 1]
    /\ rewritten' = rewritten \cup {t \in {s} : Kind(t) = "webhook"}

\* The step a successful step leads to: the one its conditions select, if any.
Successors(s) ==
    {workflow.next[s]} \cup
        (IF Kind(s) = "condition" THEN workflow.branches[s] ELSE {})

AttemptSucceeds ==
    /\ point = "try" /\ "ok" \in Outcomes(at)
    /\ CallExecutor(at)
    /\ steps' = Append(steps, Record(at, "completed", attempt))
    /\ at' \in Successors(at)
    /\ counted' = counted + 1
    /\ point' = "head"
    /\ UNCHANGED <<inputs, attempt, limit, late, success>>

\* Mutants: the record is one retry short; the execution goes on after a failure.
AttemptFails_Miscounted ==
    /\ point = "try" /\ "error" \in Outcomes(at)
    /\ CallExecutor(at)
    /\ IF attempt < limit
       THEN attempt' = attempt + 1 /\ UNCHANGED <<point, success, steps>>
       ELSE /\ steps' = Append(steps, Record(at, "failed", limit - 1))
            /\ success' = FALSE
            /\ point' = "done"
            /\ UNCHANGED attempt
    /\ UNCHANGED <<inputs, at, counted, limit, late>>
AttemptFails_GoesOn ==
    /\ point = "try" /\ "error" \in Outcomes(at)
    /\ CallExecutor(at)
    /\ IF attempt < limit
       THEN attempt' = attempt + 1 /\ UNCHANGED <<at, point, counted, success, steps>>
       ELSE /\ steps' = Append(steps, Record(at, "failed", attempt))
            /\ success' = FALSE
            /\ at' = workflow.next[at] /\ counted' = counted + 1
            /\ point' = "head"
            /\ UNCHANGED attempt
    /\ UNCHANGED <<inputs, limit, late>>

\* Once the context is done the delay before a retry is cut short, and the retry
\* is made all the same.
AttemptFails ==
    /\ point = "try" /\ "error" \in Outcomes(at)
    /\ CallExecutor(at)
    /\ IF attempt < limit
       THEN attempt' = attempt + 1 /\ UNCHANGED <<point, success, steps>>
       ELSE /\ steps' = Append(steps, Record(at, "failed", attempt))
            /\ success' = FALSE
            /\ point' = "done"
            /\ UNCHANGED attempt
    /\ UNCHANGED <<inputs, at, counted, limit, late>>

\* Nothing recovers from a panic: the process ends.
AttemptPanics ==
    /\ point = "try" /\ "panic" \in Outcomes(at)
    /\ CallExecutor(at)
    /\ point' = "panicked"
    /\ UNCHANGED <<inputs, at, counted, attempt, limit, late, success, steps>>

Execute ==
    \/ StepNotFound \/ SkipDisabled \/ BeginStep \/ Conclude
    \/ AttemptSucceeds \/ AttemptFails \/ AttemptPanics

Next == Execute \/ TimeOut

Spec == Init /\ [][Next]_vars

\* Every attempt returns: a step has ten minutes, a request thirty seconds.
FairSpec == Spec /\ WF_vars(Execute)

-----------------------------------------------------------------------------
(* Properties.                                                             *)

TypeOK ==
    /\ workflow \in Workflows
    /\ at \in Steps \cup {End, Missing}
    /\ point \in {"head", "try", "done", "panicked"}
    /\ point \in {"try", "panicked"} => at \in Steps
    /\ counted \in 0..MaxSteps
    /\ attempt \in Nat /\ limit \in Int
    /\ timedOut \in BOOLEAN /\ late \in BOOLEAN /\ success \in BOOLEAN
    /\ steps \in Seq([step : Steps, status : {"skipped", "completed", "failed"},
                      retries : Nat])
    /\ runs \in [Steps -> Nat]
    /\ rewritten \in SUBSET Steps

\* What Execute tells the worker is what has happened: it reports success exactly
\* when the steps led to the end of the workflow, with room to spare, none of
\* them failed, and no head of the loop found the context done.
VerdictIsTrue ==
    point = "done" =>
        (success <=> /\ at = End
                     /\ counted < MaxSteps
                     /\ ~late
                     /\ \A i \in DOMAIN steps : steps[i].status # "failed")

\* The steps recorded are a way through the workflow: it begins at the first
\* step, each step follows from the one before it, and nothing is run after a
\* step that failed.
Follows(r, s) ==
    \/ r.status = "skipped" /\ s = workflow.next[r.step]
    \/ r.status = "completed" /\ s \in Successors(r.step)

RecordIsPath ==
    /\ steps # <<>> => steps[1].step = First
    /\ \A i \in 1..(Len(steps) - 1) : Follows(steps[i], steps[i + 1].step)
    /\ steps # <<>> /\ Last(steps).status # "failed" => Follows(Last(steps), at)

\* Every call of an executor is accounted for in the record: a step was run once
\* for each of its records, and once more for each retry that the record admits.
Tries(i) == {i} \X (0..steps[i].retries)
Runs(s) ==
    Cardinality(UNION {Tries(i) : i \in
        {i \in DOMAIN steps : steps[i].step = s /\ steps[i].status # "skipped"}})

RunsAreRecorded ==
    point \in {"head", "done"} => \A s \in Steps : runs[s] = Runs(s)

\* "Prevenir loops infinitos": whatever the branches, disabled steps, retries and
\* timeouts, an execution ends.
EveryExecutionEnds == <>(point \in {"done", "panicked"})

\* Only three kinds of step take the process down: a transform or a delay that is
\* configured wrongly, and a step with a negative number of retries.
PanicHasCause ==
    point = "panicked" =>
        Kind(at) \in {"invalid transform", "invalid delay"} \/ workflow.maxRetries[at] < 0
=============================================================================
