------------------------------ MODULE MCExecution ------------------------------
(***************************************************************************)
(* Who may run a workflow, the workflow that is loaded, and its execution, *)
(* for TLC: accounts and their tokens, the cache, and the executor.  The   *)
(* modules share no variable: `part' says which of them moves, the others  *)
(* stay as they begin.                                                     *)
(***************************************************************************)
EXTENDS WorkflowExecutor, TLC

CONSTANTS
    Other, None,                               \* the second step
    Accounts, Emails, Requests, Slots,         \* of Access
    Warmups, Filler, Semaphore, MaxVersion     \* of Cache, with the slots of Access

VARIABLES
    part,
    account, owner, live, revoked, call, spent,
    family, version, entry, job, phase, warm, manual

Sessions == INSTANCE Access
Cached == INSTANCE Cache WITH Tasks <- Warmups

ASSUME Parameters == Sessions!AccessAssumption /\ Cached!CacheAssumption

\* Every workflow of two steps, of a few kinds, whose steps lead anywhere: the first
\* step decides, the second acts, and either may be disabled.
MCWorkflows ==
    [kind : {First :> k1 @@ Other :> k2 : k1 \in {"condition", "transform"},
                k2 \in {"remote", "webhook", "simulated", "invalid transform"}},
     next : [Steps -> Steps \cup {End, Missing}],
     branches : {[s \in Steps |-> Steps \cup {Missing}]},
     enabled : [Steps -> BOOLEAN],
     maxRetries : [Steps -> {-1, 0, 1}], retryAttempts : {0}]

-----------------------------------------------------------------------------
sessionVars == <<account, owner, live, revoked, call, spent>>
cacheVars == <<family, version, entry, job, phase, warm, manual>>
allVars == <<part, vars, sessionVars, cacheVars>>

AllInit ==
    /\ part \in {"executor", "sessions", "cache"}
    /\ Init /\ (part = "executor" \/ workflow = CHOOSE w \in Workflows : TRUE)
    /\ Sessions!Init
    /\ Cached!Init /\ (part = "cache" \/ family = "workflow")

ExecutorStep(A) == part = "executor" /\ A /\ UNCHANGED <<part, sessionVars, cacheVars>>
SessionsStep(A) == part = "sessions" /\ A /\ UNCHANGED <<part, vars, cacheVars>>
CacheStep(A) == part = "cache" /\ A /\ UNCHANGED <<part, vars, sessionVars>>

AllNext == ExecutorStep(Next) \/ SessionsStep(Sessions!Next) \/ CacheStep(Cached!Next)

\* The fairness of each module, for the part that moves.
AllSpec ==
    /\ AllInit /\ [][AllNext]_allVars
    /\ WF_allVars(ExecutorStep(Execute))
    /\ \A t \in Sessions!Token : WF_allVars(SessionsStep(Sessions!Expire(t)))
    /\ \A s \in Slots : WF_allVars(CacheStep(Cached!Goroutine(s)))
    /\ \A t \in Warmups : WF_allVars(CacheStep(Cached!RunTask(t)))
    /\ WF_allVars(CacheStep(Cached!WarmupEnds))
    /\ WF_allVars(CacheStep(Cached!CloseChannel))
    /\ WF_allVars(CacheStep(Cached!ExpireEntry))

-----------------------------------------------------------------------------
(* The properties.                                                         *)

\* The variables keep their types, every run that ended has its record, whatever the
\* steps did and however they failed, and only a transform or delay that is
\* configured wrongly and a negative number of retries take the process down
\* (worker/executor.go).
RunsAccounted ==
    /\ TypeOK /\ RunsAreRecorded /\ PanicHasCause
    /\ part = "sessions" => Sessions!TypeOK
    /\ part = "cache" => Cached!TypeOK

\* Every execution of a workflow ends.
ExecutionsEnd == part = "executor" => EveryExecutionEnds

\* A token that was exchanged or logged out of opens no further request while Redis
\* answers.
SpentStaysSpent == Sessions!SpentStaysSpent

\* Once an account is left inactive, in the end none of its tokens is alive.
DeactivationEnds == Sessions!DeactivationEnds

\* Once documents are no longer written the cache comes to hold what they say.
CacheSettles == Cached!CacheSettles
=============================================================================
