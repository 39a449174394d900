---------------------------- MODULE ServicesProofs ----------------------------
(***************************************************************************)
(* Theorems about what the services write, for any number of requests that *)
(* overtake each other: workflow documents, execution logs, task lists.    *)
(***************************************************************************)
EXTENDS MCServices, FiniteSetTheorems, SequenceTheorems, TLAPS


\* What a request has read stays good for the write it is about to make: the document is
\* there, because none is ever removed.
EditsPrepared ==
    \A r \in Requests : edit[r] # None =>
        \/ edit[r].op = "insert" /\ edit[r].steps \in StepLists
        \/ /\ edit[r].op \in {"update", "toggle", "delete"}
           /\ edit[r].id \in Ids /\ Documents!Found(edit[r].id)
           /\ edit[r].op = "toggle" => edit[r].status \in Documents!Asked
           /\ edit[r].op = "update" /\ edit[r].steps # None => edit[r].version \in 1..MaxVersion

\* A deleted document keeps the mark that no other write touches.
GoneAreMarked == \A w \in gone : Documents!Found(w) /\ doc[w].deleted_at = TRUE

\* No write of the program leaves the flag out, or puts it there again once it is off.
FlagIsSet == \A w \in Ids : Documents!Found(w) => doc[w].is_active # "unset"

DocInv ==
    Documents!TypeOK /\ EditsPrepared /\ GoneAreMarked /\ FlagIsSet /\ Documents!EditsSurvive

-----------------------------------------------------------------------------
\* What a $set leaves in the document, and that it leaves the others alone.
LEMMA SetEffect ==
  ASSUME Documents!WorkflowsAssumption, Documents!TypeOK, NEW w \in Ids, Documents!Found(w),
         NEW status \in Documents!Asked \cup {None}, NEW steps \in StepLists \cup {None},
         NEW version,
         steps # None => version \in 1..MaxVersion, Documents!Set(w, status, steps, version)
  PROVE  /\ doc' \in [Ids -> Documents!Workflow \cup {None}]
         /\ doc'[w] # None
         /\ doc'[w].steps = IF steps = None THEN doc[w].steps ELSE steps
         /\ doc'[w].deleted_at = doc[w].deleted_at /\ doc'[w].is_active = doc[w].is_active
         /\ \A i \in Ids \ {w} : doc'[i] = doc[i]
<1>1. doc[w] \in Documents!Workflow
  BY DEF Documents!TypeOK, Documents!Found
<1> DEFINE new == [status |-> IF status = None THEN doc[w].status ELSE status,
                   steps |-> IF steps = None THEN doc[w].steps ELSE steps,
                   version |-> IF steps = None THEN doc[w].version ELSE version,
                   is_active |-> doc[w].is_active,
                   deleted_at |-> doc[w].deleted_at]
<1>2. new \in Documents!Workflow
  BY <1>1 DEF Documents!Workflow, Documents!Status
<1>3. doc' = [doc EXCEPT ![w] = new]
  BY <1>1 DEF Documents!Set, Documents!TypeOK
<1> QED  BY <1>1, <1>2, <1>3 DEF Documents!TypeOK, Documents!WorkflowsAssumption

LEMMA DeleteEffect ==
  ASSUME Documents!WorkflowsAssumption, Documents!TypeOK, NEW w \in Ids, Documents!Found(w),
         Documents!Delete(w)
  PROVE  /\ doc' \in [Ids -> Documents!Workflow \cup {None}]
         /\ doc'[w] # None /\ doc'[w].steps = doc[w].steps /\ doc'[w].deleted_at = TRUE
         /\ doc'[w].is_active # "unset"
         /\ \A i \in Ids \ {w} : doc'[i] = doc[i]
<1>1. doc[w] \in Documents!Workflow
  BY DEF Documents!TypeOK, Documents!Found
<1> DEFINE new == [status |-> "deleted", steps |-> doc[w].steps, version |-> doc[w].version,
                   is_active |-> "false", deleted_at |-> TRUE]
<1>2. new \in Documents!Workflow
  BY <1>1 DEF Documents!Workflow, Documents!Status, Documents!Flag
<1>3. doc' = [doc EXCEPT ![w] = new]
  BY <1>1 DEF Documents!Delete, Documents!TypeOK
<1> QED  BY <1>1, <1>2, <1>3 DEF Documents!TypeOK, Documents!WorkflowsAssumption

\* A request that moves on, or returns, leaves the others as they are.
LEMMA GoEffect ==
  ASSUME Documents!TypeOK, NEW r \in Requests, NEW op \in {"insert", "update", "toggle", "delete"},
         NEW w \in Ids \cup {None}, NEW status \in Documents!Asked \cup {None},
         NEW steps \in StepLists \cup {None}, NEW version \in 0..MaxVersion,
         Documents!Go(r, op, w, status, steps, version)
  PROVE  /\ edit' \in [Requests -> Documents!Call \cup {None}]
         /\ edit'[r].op = op /\ edit'[r].id = w /\ edit'[r].status = status
         /\ edit'[r].steps = steps /\ edit'[r].version = version
         /\ \A q \in Requests \ {r} : edit'[q] = edit[q]
<1>1. [op |-> op, id |-> w, status |-> status, steps |-> steps, version |-> version]
         \in Documents!Call
  BY DEF Documents!Call
<1> QED  BY <1>1 DEF Documents!Go, Documents!TypeOK

LEMMA ReturnEffect ==
  ASSUME Documents!TypeOK, NEW r \in Requests, Documents!Return(r)
  PROVE  /\ edit' \in [Requests -> Documents!Call \cup {None}] /\ edit'[r] = None
         /\ \A q \in Requests \ {r} : edit'[q] = edit[q]
BY DEF Documents!Return, Documents!TypeOK

-----------------------------------------------------------------------------
(* Requests read and prepare, then write.                                  *)

LEMMA ReadKeeps ==
  ASSUME Documents!WorkflowsAssumption, DocInv, NEW r \in Requests,
         \/ \E steps \in StepLists : Documents!CreateWorkflow(r, steps)
         \/ \E w \in Ids : \/ Documents!CloneWorkflow(r, w) \/ Documents!UpdateWorkflow(r, w)
                           \/ Documents!ToggleStatus(r, w) \/ Documents!DeleteWorkflow(r, w)
  PROVE  DocInv'
<1>0. Documents!TypeOK /\ UNCHANGED <<doc, Documents!history>> /\ 0 \in 0..MaxVersion
  BY DEF DocInv, Documents!CreateWorkflow, Documents!CloneWorkflow, Documents!UpdateWorkflow,
         Documents!ToggleStatus, Documents!DeleteWorkflow,
         Documents!WorkflowsAssumption
<1>1. SUFFICES edit' \in [Requests -> Documents!Call \cup {None}] /\ EditsPrepared'
  BY <1>0 DEF DocInv, Documents!TypeOK, GoneAreMarked, FlagIsSet, Documents!EditsSurvive,
              Documents!Found, Documents!history
<1>2. ASSUME NEW op \in {"insert", "update", "toggle", "delete"},
             NEW w \in Ids \cup {None}, NEW status \in Documents!Asked \cup {None},
             NEW steps \in StepLists \cup {None}, NEW version \in 0..MaxVersion,
             Documents!Go(r, op, w, status, steps, version),
             op = "insert" => steps \in StepLists,
             op # "insert" => w \in Ids /\ Documents!Found(w),
             op = "toggle" => status \in Documents!Asked,
             op = "update" /\ steps # None => version \in 1..MaxVersion
      PROVE  edit' \in [Requests -> Documents!Call \cup {None}] /\ EditsPrepared'
  <2>1. /\ edit' \in [Requests -> Documents!Call \cup {None}]
        /\ edit'[r].op = op /\ edit'[r].id = w /\ edit'[r].status = status
        /\ edit'[r].steps = steps /\ edit'[r].version = version
        /\ \A q \in Requests \ {r} : edit'[q] = edit[q]
    BY <1>0, <1>2, GoEffect
  <2>2. EditsPrepared /\ \A i \in Ids : Documents!Found(i)' <=> Documents!Found(i)
    BY <1>0 DEF DocInv, Documents!Found
  <2> QED  BY <1>2, <2>1, <2>2 DEF EditsPrepared
<1>3. ASSUME NEW steps \in StepLists, Documents!CreateWorkflow(r, steps)
      PROVE  edit' \in [Requests -> Documents!Call \cup {None}] /\ EditsPrepared'
  BY <1>0, <1>2, <1>3 DEF Documents!CreateWorkflow
<1>4. ASSUME NEW w \in Ids, Documents!Found(w),
             Documents!CloneWorkflow(r, w) \/ Documents!DeleteWorkflow(r, w)
      PROVE  edit' \in [Requests -> Documents!Call \cup {None}] /\ EditsPrepared'
  <2>1. doc[w].steps \in StepLists
    BY <1>0, <1>4 DEF Documents!TypeOK, Documents!Workflow, Documents!Found
  <2> QED  BY <1>0, <1>2, <1>4, <2>1 DEF Documents!CloneWorkflow, Documents!DeleteWorkflow
<1>5. ASSUME NEW w \in Ids, Documents!Found(w), Documents!UpdateWorkflow(r, w)
      PROVE  edit' \in [Requests -> Documents!Call \cup {None}] /\ EditsPrepared'
  <2>1. PICK status \in Documents!Asked \cup {None}, steps \in StepLists \cup {None} :
           /\ steps # None => doc[w].version < MaxVersion
           /\ Documents!Go(r, "update", w, status, steps,
                           IF steps = None THEN 0 ELSE doc[w].version + 1)
    BY <1>5 DEF Documents!UpdateWorkflow
  <2>2. doc[w].version \in 1..MaxVersion
    BY <1>0, <1>5 DEF Documents!TypeOK, Documents!Workflow, Documents!Found
  <2>3. steps # None => doc[w].version + 1 \in 1..MaxVersion
    BY <2>1, <2>2 DEF Documents!WorkflowsAssumption
  <2>4. CASE steps = None
    BY <1>0, <1>2, <1>5, <2>1, <2>4
  <2>5. CASE steps # None
    BY <1>0, <1>2, <1>5, <2>1, <2>3, <2>5
  <2> QED  BY <2>4, <2>5
<1>6. ASSUME NEW w \in Ids, Documents!Found(w), Documents!ToggleStatus(r, w)
      PROVE  edit' \in [Requests -> Documents!Call \cup {None}] /\ EditsPrepared'
  <2>1. doc[w].steps \in StepLists
    BY <1>0, <1>6 DEF Documents!TypeOK, Documents!Workflow, Documents!Found
  <2>2. \E status \in {"inactive", "active"} : Documents!Go(r, "toggle", w, status, doc[w].steps, 0)
    BY <1>6 DEF Documents!ToggleStatus
  <2> QED  BY <1>0, <1>2, <1>6, <2>1, <2>2 DEF Documents!Asked
<1> QED  BY <1>3, <1>4, <1>5, <1>6
         DEF Documents!CloneWorkflow, Documents!UpdateWorkflow, Documents!ToggleStatus,
             Documents!DeleteWorkflow

LEMMA WriteKeeps ==
  ASSUME Documents!WorkflowsAssumption, DocInv, NEW r \in Requests,
         \/ Documents!InsertWorkflow(r) \/ Documents!WriteUpdate(r)
         \/ Documents!WriteToggle(r) \/ Documents!WriteDelete(r)
  PROVE  DocInv'
<1>0. /\ Documents!TypeOK /\ Documents!Return(r) /\ edit[r] # None
      /\ edit[r] \in Documents!Call
  BY DEF DocInv, Documents!TypeOK, Documents!InsertWorkflow, Documents!WriteUpdate,
         Documents!WriteToggle, Documents!WriteDelete, Documents!At
<1>1. /\ edit' \in [Requests -> Documents!Call \cup {None}] /\ edit'[r] = None
      /\ \A q \in Requests \ {r} : edit'[q] = edit[q]
  BY <1>0, ReturnEffect
<1>2. ASSUME \A w \in Ids : Documents!Found(w) => Documents!Found(w)' PROVE EditsPrepared'
  BY <1>1, <1>2 DEF DocInv, EditsPrepared, Documents!Found
<1>3. CASE Documents!InsertWorkflow(r)
  <2>0. edit[r].steps \in StepLists /\ gone' = gone
    BY <1>3 DEF DocInv, EditsPrepared, Documents!InsertWorkflow, Documents!At
  <2>1. CASE UNCHANGED <<doc, wanted>>
    BY <1>0, <1>1, <1>2, <2>0, <2>1 DEF DocInv, Documents!TypeOK, GoneAreMarked, FlagIsSet,
                                        Documents!EditsSurvive, Documents!Found
  <2>2. ASSUME NEW w \in Ids, ~Documents!Found(w),
               doc' = [doc EXCEPT ![w] = Documents!SetDefaults(edit[r].steps)],
               wanted' = [wanted EXCEPT ![w] = edit[r].steps]
        PROVE  DocInv'
    <3>1. Documents!SetDefaults(edit[r].steps) \in Documents!Workflow
      BY <2>0 DEF Documents!SetDefaults, Documents!Workflow, Documents!Status, Documents!Asked,
                  Documents!Flag, Documents!WorkflowsAssumption
    <3>2. /\ Documents!SetDefaults(edit[r].steps) # None
          /\ Documents!SetDefaults(edit[r].steps).steps = edit[r].steps
          /\ Documents!SetDefaults(edit[r].steps).is_active = "true"
      BY <3>1 DEF Documents!WorkflowsAssumption, Documents!SetDefaults
    <3>3. /\ doc' \in [Ids -> Documents!Workflow \cup {None}]
          /\ wanted' \in [Ids -> StepLists \cup {None}]
          /\ doc'[w] # None /\ doc'[w].steps = wanted'[w] /\ doc'[w].is_active = "true"
          /\ \A i \in Ids \ {w} : doc'[i] = doc[i] /\ wanted'[i] = wanted[i]
      BY <1>0, <2>0, <2>2, <3>1, <3>2 DEF Documents!TypeOK
    <3> QED  BY <1>0, <1>1, <1>2, <2>0, <2>2, <3>3
             DEF DocInv, Documents!TypeOK, GoneAreMarked, FlagIsSet, Documents!EditsSurvive,
                 Documents!Found
  <2> QED  BY <1>3, <2>1, <2>2 DEF Documents!InsertWorkflow
<1>4. ASSUME NEW w \in Ids, Documents!Found(w),
             gone' = gone \/ (gone' = gone \cup {w} /\ doc'[w].deleted_at),
             doc' \in [Ids -> Documents!Workflow \cup {None}],
             wanted' \in [Ids -> StepLists \cup {None}],
             doc'[w] # None, doc'[w].deleted_at = doc[w].deleted_at \/ doc'[w].deleted_at = TRUE,
             doc'[w].steps = wanted'[w], doc'[w].is_active # "unset",
             \A i \in Ids \ {w} : doc'[i] = doc[i] /\ wanted'[i] = wanted[i]
      PROVE  DocInv'
  BY <1>0, <1>1, <1>2, <1>4 DEF DocInv, Documents!TypeOK, GoneAreMarked, FlagIsSet,
                                Documents!EditsSurvive, Documents!Found
<1> DEFINE c == edit[r]
<1>5. CASE Documents!WriteUpdate(r)
  <2>1. /\ c.id \in Ids /\ Documents!Found(c.id) /\ c.status \in Documents!Asked \cup {None}
        /\ c.steps \in StepLists \cup {None}
        /\ c.steps # None => c.version \in 1..MaxVersion
        /\ doc[c.id].steps = wanted[c.id] /\ doc[c.id].is_active # "unset"
    BY <1>0, <1>5 DEF DocInv, EditsPrepared, Documents!WriteUpdate, Documents!At, Documents!Call,
                      FlagIsSet,
                Documents!EditsSurvive
  <2>2. /\ Documents!Set(c.id, c.status, c.steps, c.version) /\ gone' = gone
        /\ wanted' = [wanted EXCEPT ![c.id] = IF c.steps = None THEN @ ELSE c.steps]
    BY <1>5 DEF Documents!WriteUpdate
  <2>3. /\ wanted' \in [Ids -> StepLists \cup {None}]
        /\ wanted'[c.id] = IF c.steps = None THEN wanted[c.id] ELSE c.steps
        /\ \A i \in Ids \ {c.id} : wanted'[i] = wanted[i]
    BY <1>0, <2>1, <2>2 DEF Documents!TypeOK
  <2>4. /\ doc' \in [Ids -> Documents!Workflow \cup {None}]
        /\ doc'[c.id] # None
        /\ doc'[c.id].steps = IF c.steps = None THEN doc[c.id].steps ELSE c.steps
        /\ doc'[c.id].deleted_at = doc[c.id].deleted_at
        /\ doc'[c.id].is_active = doc[c.id].is_active
        /\ \A i \in Ids \ {c.id} : doc'[i] = doc[i]
    <3> HIDE DEF c
    <3> QED  BY <1>0, <2>1, <2>2, SetEffect
  <2>5. doc'[c.id].steps = wanted'[c.id]
    BY <2>1, <2>3, <2>4
  <2> HIDE DEF c
  <2> QED  BY <1>4, <2>1, <2>2, <2>3, <2>4, <2>5
<1>6. CASE Documents!WriteToggle(r)
  <2>1. /\ c.id \in Ids /\ Documents!Found(c.id) /\ c.status \in Documents!Asked
        /\ doc[c.id].steps = wanted[c.id] /\ doc[c.id].is_active # "unset"
    BY <1>0, <1>6 DEF DocInv, EditsPrepared, Documents!WriteToggle, Documents!At, FlagIsSet,
                      Documents!EditsSurvive
  <2>2. Documents!Set(c.id, c.status, None, 0) /\ UNCHANGED <<wanted, gone>>
    BY <1>6 DEF Documents!WriteToggle, Documents!history
  <2>3. /\ doc' \in [Ids -> Documents!Workflow \cup {None}]
        /\ doc'[c.id] # None
        /\ doc'[c.id].steps = doc[c.id].steps
        /\ doc'[c.id].deleted_at = doc[c.id].deleted_at
        /\ doc'[c.id].is_active = doc[c.id].is_active
        /\ \A i \in Ids \ {c.id} : doc'[i] = doc[i]
    <3> HIDE DEF c
    <3> QED  BY <1>0, <2>1, <2>2, SetEffect
  <2>4. wanted' \in [Ids -> StepLists \cup {None}]
    BY <1>0, <2>2 DEF Documents!TypeOK
  <2> HIDE DEF c
  <2> QED  BY <1>4, <2>1, <2>2, <2>3, <2>4
<1>7. CASE Documents!WriteDelete(r)
  <2>1. c.id \in Ids /\ Documents!Found(c.id) /\ doc[c.id].steps = wanted[c.id]
    BY <1>0, <1>7 DEF DocInv, EditsPrepared, Documents!WriteDelete, Documents!At,
                      Documents!EditsSurvive
  <2>2. Documents!Delete(c.id) /\ gone' = gone \cup {c.id} /\ wanted' = wanted
    BY <1>7 DEF Documents!WriteDelete
  <2>3. /\ doc' \in [Ids -> Documents!Workflow \cup {None}]
        /\ doc'[c.id] # None /\ doc'[c.id].steps = doc[c.id].steps
        /\ doc'[c.id].deleted_at = TRUE /\ doc'[c.id].is_active # "unset"
        /\ \A i \in Ids \ {c.id} : doc'[i] = doc[i]
    <3> HIDE DEF c
    <3> QED  BY <1>0, <2>1, <2>2, DeleteEffect
  <2>4. wanted' \in [Ids -> StepLists \cup {None}]
    BY <1>0, <2>2 DEF Documents!TypeOK
  <2> HIDE DEF c
  <2> QED  BY <1>4, <2>1, <2>2, <2>3, <2>4
<1> QED  BY <1>3, <1>5, <1>6, <1>7

-----------------------------------------------------------------------------

LEMMA InitDocInv == Documents!Init => DocInv
BY DEF Documents!Init, DocInv, Documents!TypeOK, EditsPrepared, GoneAreMarked, FlagIsSet,
       Documents!EditsSurvive, Documents!Found

LEMMA NextDocInv ==
  Documents!WorkflowsAssumption /\ DocInv /\ [Documents!Next]_(Documents!vars) => DocInv'
<1> SUFFICES ASSUME Documents!WorkflowsAssumption, DocInv, [Documents!Next]_(Documents!vars)
             PROVE  DocInv'
  OBVIOUS
<1>1. CASE UNCHANGED Documents!vars
  BY <1>1 DEF Documents!vars, Documents!history, DocInv, Documents!TypeOK, EditsPrepared,
              GoneAreMarked, FlagIsSet, Documents!EditsSurvive, Documents!Found
<1> QED  BY <1>1, ReadKeeps, WriteKeeps DEF Documents!Next

LEMMA DocumentsOfAll == Spec => Documents!Spec
<1>1. Init => Documents!Init
  BY DEF Init
<1>2. [Next]_vars => [Documents!Next]_(Documents!vars)
  BY DEF Next, vars, documentVars, DocumentsStep, LogsStep, ListsStep, Documents!vars,
         Documents!history
<1> QED  BY <1>1, <1>2, PTL DEF Spec, Documents!Spec

\* However requests overtake each other: the queries find what runs, none of the updates and
\* toggles that were under way when a workflow was deleted makes it run again, and the steps
\* of a workflow are those of the last edit that was written.
THEOREM DocumentsAreRight == Spec => []DocumentsHold
<1>0. Documents!WorkflowsAssumption
  BY Parameters
<1>1. DocInv => DocumentsHold
  <2> SUFFICES ASSUME DocInv PROVE DocumentsHold
    OBVIOUS
  <2>1. Documents!GetActiveWorkflows = {w \in Ids : Documents!IsActive(w)}
    <3>1. ASSUME NEW w \in Ids, Documents!Found(w)
          PROVE  /\ doc[w].is_active \in {"true", "false"} /\ doc[w].status # "published"
                 /\ doc[w].deleted_at \in BOOLEAN
      BY <3>1 DEF DocInv, FlagIsSet, Documents!TypeOK, Documents!Found, Documents!Workflow,
                  Documents!Flag, Documents!Status, Documents!Asked
    <3> QED  BY <3>1 DEF Documents!GetActiveWorkflows, Documents!IsActive
  <2>2. Documents!GetActiveWorkflows \subseteq Documents!FindByWebhookID
    BY DEF Documents!GetActiveWorkflows, Documents!FindByWebhookID
  <2>3. Documents!DeletedStaysDead
    BY DEF DocInv, GoneAreMarked, Documents!DeletedStaysDead, Documents!IsActive
  <2> QED  BY <2>1, <2>2, <2>3 DEF DocumentsHold, DocInv, Documents!QueriesAgree
<1>2. Documents!Spec => []DocInv
  BY <1>0, InitDocInv, NextDocInv, PTL DEF Documents!Spec
<1> QED  BY <1>1, <1>2, DocumentsOfAll, PTL

-----------------------------------------------------------------------------
(* Execution logs: what a request that is under way may rely on.           *)

\* A log that was never given is not there and nothing was added to it.
LogsFresh == \A l \in Logs \ used : log[l] = None /\ added[l] = {}

\* The log a request works on was given.
LogsGiven ==
    \A r \in Requests :
        trigger[r] # None /\ trigger[r].stage \in {"enqueue", "refuse", "add", "complete"}
            => trigger[r].log \in used

\* A run counts once in all: in the counters, or while somebody is about to count it, even
\* after an older count has been written over a newer one; and a workflow whose counts never
\* overlapped has none missing.
CountsKept ==
    \A w \in LoggedWorkflows :
        /\ stats[w].total = stats[w].ok + stats[w].failed
        /\ stats[w].total + Cardinality(Runs!Counting(w)) <= runs[w]
        /\ w \notin mixed => stats[w].total + Cardinality(Runs!Counting(w)) = runs[w]

SeenKept ==
    \A w \in LoggedWorkflows : \A r \in Runs!Counting(w) : trigger[r].stage = "stats" =>
        /\ trigger[r].seen.total = trigger[r].seen.ok + trigger[r].seen.failed
        /\ trigger[r].seen.total + Cardinality(Runs!Counting(w)) <= runs[w]
        /\ w \notin mixed =>
              /\ trigger[r].seen = stats[w]
              /\ \A q \in Runs!Counting(w) : trigger[q].stage = "stats" => q = r

LogTyped == Runs!TypeOK /\ LogsFresh /\ LogsGiven
LogInv ==
    LogTyped /\ CountsKept /\ SeenKept /\ Runs!StepsComplete /\ Runs!ActiveLogHasTask

\* Who is at work on a log, and who counts.
Handles(c, l) == c # None /\ c.log = l /\ c.stage \in {"enqueue", "refuse"}
Counts(c, w) == c # None /\ c.workflow = w /\ c.stage \in {"count", "stats"}

LEMMA LogParameters ==
  /\ IsFiniteSet(Requests) /\ MaxRuns \in Nat
  /\ None \notin Logs /\ None \notin Runs!Log /\ None \notin Runs!Call
BY Parameters DEF Runs!ExecutionLogsAssumption, Runs!IsFiniteSet, IsFiniteSet

LEMMA GoLog ==
  ASSUME LogTyped, NEW r \in Requests, NEW c \in Runs!Call \cup {None}, Runs!Go(r, c)
  PROVE  /\ trigger' \in [Requests -> Runs!Call \cup {None}] /\ trigger'[r] = c
         /\ \A q \in Requests \ {r} : trigger'[q] = trigger[q]
BY DEF LogTyped, Runs!TypeOK, Runs!Go

LEMMA BeginTyped ==
  ASSUME NEW stage \in Runs!Stages, NEW w \in LoggedWorkflows, NEW l \in Logs \cup {None}
  PROVE  /\ Runs!Begin(stage, w, l) \in Runs!Call
         /\ Runs!Begin(stage, w, l).stage = stage /\ Runs!Begin(stage, w, l).workflow = w
         /\ Runs!Begin(stage, w, l).log = l
BY DEF Runs!Begin, Runs!Call, Runs!NoStats, Runs!Stats

\* A change of status touches nothing else.
LEMMA SetStatusEffect ==
  ASSUME LogTyped, NEW l \in Logs, log[l] # None, NEW s \in Runs!Status, Runs!SetStatus(l, s)
  PROVE  /\ log' \in [Logs -> Runs!Log \cup {None}] /\ log'[l] # None
         /\ log'[l].status = s /\ log'[l].steps = log[l].steps
         /\ \A i \in Logs \ {l} : log'[i] = log[i]
<1> DEFINE new == [log[l] EXCEPT !.status = s]
<1>1. log \in [Logs -> Runs!Log \cup {None}] /\ log[l] \in Runs!Log
  BY DEF LogTyped, Runs!TypeOK
<1>2. new \in Runs!Log /\ new.status = s /\ new.steps = log[l].steps
  BY <1>1 DEF Runs!Log
<1>3. log' = [log EXCEPT ![l] = new]
  BY <1>1 DEF Runs!SetStatus
<1> HIDE DEF new
<1> QED  BY <1>1, <1>2, <1>3, LogParameters

LEMMA SetStepsEffect ==
  ASSUME LogTyped, NEW l \in Logs, log[l] # None, NEW S \in SUBSET Steps, Runs!SetSteps(l, S)
  PROVE  /\ log' \in [Logs -> Runs!Log \cup {None}] /\ log'[l] # None
         /\ log'[l].status = log[l].status /\ log'[l].steps = S
         /\ \A i \in Logs \ {l} : log'[i] = log[i]
<1> DEFINE new == [log[l] EXCEPT !.steps = S]
<1>1. log \in [Logs -> Runs!Log \cup {None}] /\ log[l] \in Runs!Log
  BY DEF LogTyped, Runs!TypeOK
<1>2. new \in Runs!Log /\ new.status = log[l].status /\ new.steps = S
  BY <1>1 DEF Runs!Log
<1>3. log' = [log EXCEPT ![l] = new]
  BY <1>1 DEF Runs!SetSteps
<1> HIDE DEF new
<1> QED  BY <1>1, <1>2, <1>3, LogParameters

\* The logs of a request that comes or goes.
LEMMA HandledAfter ==
  ASSUME LogTyped, NEW r \in Requests, NEW c \in Runs!Call \cup {None}, Runs!Go(r, c),
         NEW l \in Logs
  PROVE  /\ Handles(c, l) => l \in Runs!Handled'
         /\ l \in Runs!Handled /\ ~Handles(trigger[r], l) => l \in Runs!Handled'
<1>1. /\ trigger'[r] = c
      /\ \A q \in Requests \ {r} : trigger'[q] = trigger[q]
  BY GoLog
<1>2. Handles(c, l) => l \in Runs!Handled'
  BY <1>1 DEF Handles, Runs!Handled
<1>3. ASSUME l \in Runs!Handled, ~Handles(trigger[r], l) PROVE l \in Runs!Handled'
  <2>1. PICK q \in Requests : trigger[q] # None /\ trigger[q].stage \in {"enqueue", "refuse"}
                              /\ trigger[q].log = l
    BY <1>3 DEF Runs!Handled
  <2>2. q # r
    BY <1>3, <2>1 DEF Handles
  <2> QED  BY <1>1, <2>1, <2>2 DEF Runs!Handled
<1> QED  BY <1>2, <1>3

LEMMA CountingFinite ==
  ASSUME NEW w
  PROVE  IsFiniteSet(Runs!Counting(w)) /\ Cardinality(Runs!Counting(w)) \in Nat
<1>1. Runs!Counting(w) \subseteq Requests
  BY DEF Runs!Counting
<1> QED  BY <1>1, LogParameters, FS_Subset, FS_CardinalityType

LEMMA CountingAfter ==
  ASSUME LogTyped, NEW r \in Requests, NEW c \in Runs!Call \cup {None}, Runs!Go(r, c), NEW w
  PROVE  Runs!Counting(w)' =
             IF Counts(c, w) THEN Runs!Counting(w) \cup {r} ELSE Runs!Counting(w) \ {r}
<1>1. /\ trigger'[r] = c
      /\ \A q \in Requests \ {r} : trigger'[q] = trigger[q]
  BY GoLog
<1> QED  BY <1>1 DEF Runs!Counting, Counts

\* A step of a request that does not count, before or after, disturbs no count.
LEMMA NoCount ==
  ASSUME LogInv, NEW r \in Requests, NEW c \in Runs!Call \cup {None}, Runs!Go(r, c),
         \A w \in LoggedWorkflows : ~Counts(trigger[r], w) /\ ~Counts(c, w),
         UNCHANGED <<stats, runs, mixed>>
  PROVE  CountsKept' /\ SeenKept'
<1>0. LogTyped /\ CountsKept /\ SeenKept
  BY DEF LogInv
<1>1. ASSUME NEW w \in LoggedWorkflows
      PROVE  /\ Runs!Counting(w)' = Runs!Counting(w)
             /\ \A q \in Runs!Counting(w) : trigger'[q] = trigger[q]
  <2>1. r \notin Runs!Counting(w)
    BY DEF Runs!Counting, Counts
  <2>2. Runs!Counting(w)' = Runs!Counting(w)
    BY <1>0, <2>1, CountingAfter
  <2>3. Runs!Counting(w) \subseteq Requests \ {r}
    BY <2>1 DEF Runs!Counting
  <2> QED  BY <1>0, <2>2, <2>3, GoLog
<1>2. CountsKept'
  BY <1>0, <1>1 DEF CountsKept
<1>3. SeenKept'
  BY <1>0, <1>1 DEF SeenKept
<1> QED  BY <1>2, <1>3

\* What is to be shown of a step of a request that counts nothing.
LEMMA LogStep ==
  ASSUME LogInv, NEW r \in Requests, NEW c \in Runs!Call \cup {None}, Runs!Go(r, c),
         \A w \in LoggedWorkflows : ~Counts(trigger[r], w) /\ ~Counts(c, w),
         UNCHANGED <<stats, runs, mixed>>,
         used \subseteq used', used' \subseteq Logs, left' \subseteq used', left \subseteq left',
         queued \subseteq queued', queued' \subseteq used',
         c # None /\ c.stage \in {"enqueue", "refuse", "add", "complete"} => c.log \in used',
         log' \in [Logs -> Runs!Log \cup {None}], added' \in [Logs -> SUBSET Steps],
         \A l \in Logs \ used' : log'[l] = None /\ added'[l] = {},
         \A l \in Logs : log'[l] # None => log'[l].steps = added'[l],
         \A l \in Logs \ left' : log'[l] # None /\ log'[l].status = "active" =>
             \/ l \in queued' \/ Handles(c, l)
             \/ log[l] # None /\ log[l].status = "active" /\ ~Handles(trigger[r], l)
  PROVE  LogInv'
<1>0. LogTyped /\ Runs!ActiveLogHasTask /\ Runs!TypeOK
  BY DEF LogInv, LogTyped
<1>1. CountsKept' /\ SeenKept'
  BY NoCount
<1>2. /\ trigger' \in [Requests -> Runs!Call \cup {None}] /\ trigger'[r] = c
      /\ \A q \in Requests \ {r} : trigger'[q] = trigger[q]
  BY <1>0, GoLog
<1>3. Runs!TypeOK'
  BY <1>0, <1>2 DEF Runs!TypeOK
<1>4. LogsGiven'
  BY <1>0, <1>2 DEF LogTyped, LogsGiven
<1>5. LogsFresh' /\ Runs!StepsComplete'
  BY DEF LogsFresh, Runs!StepsComplete
<1>6. Runs!ActiveLogHasTask'
  <2> SUFFICES ASSUME NEW l \in Logs, l \notin left', log'[l] # None, log'[l].status = "active"
               PROVE  l \in queued' \/ l \in Runs!Handled'
    BY DEF Runs!ActiveLogHasTask
  <2>1. CASE l \in queued'
    BY <2>1
  <2>2. CASE Handles(c, l)
    BY <1>0, <2>2, HandledAfter
  <2>3. CASE log[l] # None /\ log[l].status = "active" /\ ~Handles(trigger[r], l)
    <3>1. l \in queued \/ l \in Runs!Handled
      BY <1>0, <2>3 DEF Runs!ActiveLogHasTask
    <3> QED  BY <1>0, <2>3, <3>1, HandledAfter
  <2> QED  BY <2>1, <2>2, <2>3
<1> QED  BY <1>1, <1>3, <1>4, <1>5, <1>6 DEF LogInv, LogTyped

\* A request that begins.
LEMMA BeginKeeps ==
  ASSUME LogInv, NEW r \in Requests, trigger[r] = None,
         NEW c \in Runs!Call, c.stage \in {"create", "add", "complete"},
         c.stage \in {"add", "complete"} => c.log \in used, Runs!Go(r, c),
         UNCHANGED <<Runs!documents, queued, Runs!history>>
  PROVE  LogInv'
<1>1. UNCHANGED <<stats, log, queued, used, added, runs, left, mixed>>
  BY DEF Runs!documents, Runs!history
<1>2. /\ used \subseteq Logs /\ left \subseteq used /\ queued \subseteq used
      /\ log \in [Logs -> Runs!Log \cup {None}] /\ added \in [Logs -> SUBSET Steps]
      /\ \A l \in Logs \ used : log[l] = None /\ added[l] = {}
      /\ \A l \in Logs : log[l] # None => log[l].steps = added[l]
  BY DEF LogInv, LogTyped, LogsFresh, Runs!TypeOK, Runs!StepsComplete
<1>3. ~Handles(trigger[r], None) /\ \A l \in Logs : ~Handles(trigger[r], l)
  BY DEF Handles
<1>4. \A w \in LoggedWorkflows : ~Counts(trigger[r], w) /\ ~Counts(c, w)
  BY DEF Counts
<1> QED  BY <1>1, <1>2, <1>3, <1>4, LogStep

LEMMA FoundKeeps ==
  ASSUME LogInv, NEW r \in Requests, NEW w \in LoggedWorkflows, Runs!FoundActive(r, w)
  PROVE  LogInv'
<1> DEFINE c == Runs!Begin("create", w, None)
<1>1. c \in Runs!Call /\ c.stage = "create"
  BY BeginTyped DEF Runs!Stages
<1>2. trigger[r] = None /\ Runs!Go(r, c) /\ UNCHANGED <<Runs!documents, queued, Runs!history>>
  BY DEF Runs!FoundActive
<1> HIDE DEF c
<1> QED  BY <1>1, <1>2, BeginKeeps

LEMMA AddKeeps ==
  ASSUME LogInv, NEW r \in Requests, NEW l \in Logs, Runs!AddStepExecution(r, l)
  PROVE  LogInv'
<1>1. PICK s \in Steps \ added[l] :
         Runs!Go(r, [Runs!Begin("add", log[l].workflow, l) EXCEPT !.steps = log[l].steps \cup {s}])
  BY DEF Runs!AddStepExecution
<1> DEFINE b == Runs!Begin("add", log[l].workflow, l)
           c == [b EXCEPT !.steps = log[l].steps \cup {s}]
<1>2. trigger[r] = None /\ log[l] # None /\ UNCHANGED <<Runs!documents, queued, Runs!history>>
  BY DEF Runs!AddStepExecution
<1>3. log[l] \in Runs!Log /\ l \in used
  BY <1>2 DEF LogInv, LogTyped, LogsFresh, Runs!TypeOK
<1>4. b \in Runs!Call /\ b.stage = "add" /\ b.log = l
  BY <1>3, BeginTyped DEF Runs!Stages, Runs!Log
<1>5. log[l].steps \cup {s} \in SUBSET Steps
  BY <1>3 DEF Runs!Log
<1> HIDE DEF b
<1>6. c \in Runs!Call /\ c.stage = "add" /\ c.log = l
  BY <1>4, <1>5 DEF Runs!Call
<1>7. Runs!Go(r, c)
  BY <1>1 DEF b
<1> HIDE DEF c
<1> QED  BY <1>2, <1>3, <1>6, <1>7, BeginKeeps

LEMMA CompleteKeeps ==
  ASSUME LogInv, NEW r \in Requests, NEW l \in Logs, Runs!CompleteWorkflowLog(r, l)
  PROVE  LogInv'
<1>1. PICK ok \in BOOLEAN :
         Runs!Go(r, [Runs!Begin("complete", log[l].workflow, l) EXCEPT
                       !.ok = ok, !.steps = log[l].steps])
  BY DEF Runs!CompleteWorkflowLog
<1> DEFINE b == Runs!Begin("complete", log[l].workflow, l)
           c == [b EXCEPT !.ok = ok, !.steps = log[l].steps]
<1>2. trigger[r] = None /\ log[l] # None /\ UNCHANGED <<Runs!documents, queued, Runs!history>>
  BY DEF Runs!CompleteWorkflowLog
<1>3. log[l] \in Runs!Log /\ l \in used
  BY <1>2 DEF LogInv, LogTyped, LogsFresh, Runs!TypeOK
<1>4. b \in Runs!Call /\ b.stage = "complete" /\ b.log = l
  BY <1>3, BeginTyped DEF Runs!Stages, Runs!Log
<1>5. log[l].steps \in SUBSET Steps
  BY <1>3 DEF Runs!Log
<1> HIDE DEF b
<1>6. c \in Runs!Call /\ c.stage = "complete" /\ c.log = l
  BY <1>4, <1>5 DEF Runs!Call
<1>7. Runs!Go(r, c)
  BY <1>1 DEF b
<1> HIDE DEF c
<1> QED  BY <1>2, <1>3, <1>6, <1>7, BeginKeeps

-----------------------------------------------------------------------------
(* The accesses of a request that counts nothing.                          *)

\* What LogStep asks for and a log's creation and the changes of one log give.
LEMMA CreateKeeps ==
  ASSUME LogInv, NEW r \in Requests, Runs!CreateLog(r)
  PROVE  LogInv'
<1> DEFINE w == trigger[r].workflow
<1>1. /\ trigger[r] \in Runs!Call /\ w \in LoggedWorkflows /\ trigger[r].stage = "create"
      /\ UNCHANGED <<stats, queued, added, runs, mixed>>
  BY DEF Runs!CreateLog, Runs!At, LogInv, LogTyped, Runs!TypeOK, Runs!Call
<1>2. /\ used \subseteq Logs /\ left \subseteq used /\ queued \subseteq used
      /\ log \in [Logs -> Runs!Log \cup {None}] /\ added \in [Logs -> SUBSET Steps]
      /\ \A l \in Logs \ used : log[l] = None /\ added[l] = {}
      /\ \A l \in Logs : log[l] # None => log[l].steps = added[l]
  BY DEF LogInv, LogTyped, LogsFresh, Runs!TypeOK, Runs!StepsComplete
<1>3. \A l \in Logs : ~Handles(trigger[r], l)
  BY <1>1 DEF Handles
<1>4. \A x \in LoggedWorkflows : ~Counts(trigger[r], x) /\ ~Counts(None, x)
  BY <1>1 DEF Counts
<1>5. CASE Runs!Return(r) /\ UNCHANGED <<log, used, left>>
  <2>1. Runs!Go(r, None)
    BY <1>5 DEF Runs!Return
  <2> QED  BY <1>1, <1>2, <1>3, <1>4, <1>5, <2>1, LogStep
<1>6. ASSUME NEW l \in Logs \ used, used' = used \cup {l},
             log' = [log EXCEPT ![l] = [workflow |-> w, status |-> "active", steps |-> {}]],
             \/ Runs!Go(r, Runs!Begin("enqueue", w, l)) /\ UNCHANGED left
             \/ Runs!Return(r) /\ left' = left \cup {l}
      PROVE  LogInv'
  <2> DEFINE new == [workflow |-> w, status |-> "active", steps |-> {}]
  <2>1. new \in Runs!Log /\ new # None /\ new.steps = {}
    BY <1>1, LogParameters DEF Runs!Log, Runs!Status
  <2> HIDE DEF new
  <2>2. log' = [log EXCEPT ![l] = new]
    BY <1>6 DEF new
  <2>3. /\ used' \subseteq Logs /\ used \subseteq used' /\ queued' \subseteq used'
        /\ queued \subseteq queued' /\ log' \in [Logs -> Runs!Log \cup {None}]
        /\ added' \in [Logs -> SUBSET Steps] /\ log'[l] = new /\ added'[l] = {}
        /\ \A i \in Logs \ {l} : log'[i] = log[i] /\ added'[i] = added[i]
    BY <1>1, <1>2, <1>6, <2>1, <2>2
  <2>4. /\ \A i \in Logs \ used' : log'[i] = None /\ added'[i] = {}
        /\ \A i \in Logs : log'[i] # None => log'[i].steps = added'[i]
    BY <1>2, <1>6, <2>1, <2>3
  <2>5. CASE Runs!Go(r, Runs!Begin("enqueue", w, l)) /\ UNCHANGED left
    <3> DEFINE c == Runs!Begin("enqueue", w, l)
    <3>1. c \in Runs!Call /\ c.stage = "enqueue" /\ c.log = l
      BY <1>1, BeginTyped DEF Runs!Stages
    <3>2. Runs!Go(r, c)
      BY <2>5
    <3> HIDE DEF c, w
    <3>3. Handles(c, l) /\ \A x \in LoggedWorkflows : ~Counts(c, x)
      BY <3>1, LogParameters DEF Handles, Counts
    <3>4. \A i \in Logs \ left' : log'[i] # None /\ log'[i].status = "active" =>
             \/ i \in queued' \/ Handles(c, i)
             \/ log[i] # None /\ log[i].status = "active" /\ ~Handles(trigger[r], i)
      BY <1>3, <2>3, <3>3
    <3>5. left' \subseteq used' /\ left \subseteq left' /\ l \in used'
      BY <1>2, <1>6, <2>5
    <3> QED  BY <1>1, <1>4, <2>3, <2>4, <3>1, <3>2, <3>3, <3>4, <3>5, LogStep
  <2>6. CASE Runs!Return(r) /\ left' = left \cup {l}
    <3>1. Runs!Go(r, None)
      BY <2>6 DEF Runs!Return
    <3>2. \A i \in Logs \ left' : log'[i] # None /\ log'[i].status = "active" =>
             log[i] # None /\ log[i].status = "active" /\ ~Handles(trigger[r], i)
      BY <1>3, <2>3, <2>6
    <3>3. left' \subseteq used' /\ left \subseteq left'
      BY <1>2, <1>6, <2>6
    <3> QED  BY <1>1, <1>4, <2>3, <2>4, <3>1, <3>2, <3>3, LogStep
  <2> QED  BY <1>6, <2>5, <2>6
<1> QED  BY <1>5, <1>6 DEF Runs!CreateLog

\* The request that the next three have under way.
LEMMA UnderWay ==
  ASSUME LogInv, NEW r \in Requests, trigger[r] # None,
         trigger[r].stage \in {"enqueue", "refuse", "add", "complete"}
  PROVE  /\ trigger[r] \in Runs!Call /\ trigger[r].log \in used /\ trigger[r].log \in Logs
         /\ used \subseteq Logs /\ left \subseteq used /\ queued \subseteq used
         /\ log \in [Logs -> Runs!Log \cup {None}] /\ added \in [Logs -> SUBSET Steps]
         /\ \A l \in Logs \ used : log[l] = None /\ added[l] = {}
         /\ \A l \in Logs : log[l] # None => log[l].steps = added[l]
         /\ \A w \in LoggedWorkflows : ~Counts(trigger[r], w) /\ ~Counts(None, w)
         /\ \A l \in Logs : Handles(trigger[r], l) => l = trigger[r].log
BY DEF LogInv, LogTyped, LogsFresh, LogsGiven, Runs!TypeOK, Runs!StepsComplete, Counts, Handles

LEMMA EnqueueKeeps ==
  ASSUME LogInv, NEW r \in Requests, Runs!EnqueueExecution(r)
  PROVE  LogInv'
<1> DEFINE l == trigger[r].log
<1>1. /\ trigger[r] # None /\ trigger[r].stage = "enqueue"
      /\ UNCHANGED <<stats, log, used, added, runs, left, mixed>>
  BY DEF Runs!EnqueueExecution, Runs!At, Runs!documents, Runs!history
<1>2. /\ l \in used /\ used \subseteq Logs /\ queued \subseteq used /\ trigger[r] \in Runs!Call
  BY <1>1, UnderWay
<1>3. CASE queued' = queued \cup {l} /\ Runs!Return(r)
  <2>1. Runs!Go(r, None)
    BY <1>3 DEF Runs!Return
  <2>2. queued' \subseteq used' /\ queued \subseteq queued' /\ l \in queued'
    BY <1>1, <1>2, <1>3
  <2>3. \A i \in Logs : Handles(trigger[r], i) => i \in queued'
    BY <1>1, <2>2, UnderWay
  <2> HIDE DEF l
  <2> QED  BY <1>1, <1>2, <2>1, <2>2, <2>3, UnderWay, LogStep
<1>4. CASE /\ queued' = queued \/ queued' = queued \cup {l}
           /\ Runs!Go(r, [trigger[r] EXCEPT !.stage = "refuse"])
  <2> DEFINE c == [trigger[r] EXCEPT !.stage = "refuse"]
  <2>1. c \in Runs!Call /\ c.stage = "refuse" /\ c.log = l
    BY <1>2 DEF Runs!Call, Runs!Stages
  <2>2. queued' \subseteq used' /\ queued \subseteq queued' /\ Runs!Go(r, c)
    BY <1>1, <1>2, <1>4
  <2> HIDE DEF c
  <2>3. \A i \in Logs : Handles(trigger[r], i) => Handles(c, i)
    BY <1>1, <2>1, LogParameters, UnderWay DEF Handles
  <2>4. \A w \in LoggedWorkflows : ~Counts(c, w)
    BY <2>1 DEF Counts
  <2> HIDE DEF l
  <2> QED  BY <1>1, <1>2, <2>1, <2>2, <2>3, <2>4, UnderWay, LogStep
<1> QED  BY <1>3, <1>4 DEF Runs!EnqueueExecution

LEMMA RefuseKeeps ==
  ASSUME LogInv, NEW r \in Requests, Runs!RefuseTrigger(r)
  PROVE  LogInv'
<1> DEFINE l == trigger[r].log
<1>1. /\ trigger[r] # None /\ trigger[r].stage = "refuse" /\ Runs!Go(r, None)
      /\ UNCHANGED <<stats, queued, used, added, runs, mixed>>
  BY DEF Runs!RefuseTrigger, Runs!At, Runs!Return
<1>2. /\ l \in used /\ l \in Logs /\ used \subseteq Logs /\ left \subseteq used
  BY <1>1, UnderWay
<1>3. CASE log[l] # None /\ Runs!SetStatus(l, "failed") /\ UNCHANGED left
  <2>1. /\ log' \in [Logs -> Runs!Log \cup {None}] /\ log'[l] # None
        /\ log'[l].status = "failed" /\ log'[l].steps = log[l].steps
        /\ \A i \in Logs \ {l} : log'[i] = log[i]
    BY <1>2, <1>3, SetStatusEffect DEF LogInv, Runs!Status
  <2>2. /\ \A i \in Logs \ used' : log'[i] = None /\ added'[i] = {}
        /\ \A i \in Logs : log'[i] # None => log'[i].steps = added'[i]
    BY <1>1, <1>2, <1>3, <2>1, UnderWay
  <2>3. \A i \in Logs \ left' : log'[i] # None /\ log'[i].status = "active" =>
           log[i] # None /\ log[i].status = "active" /\ ~Handles(trigger[r], i)
    BY <1>1, <2>1, UnderWay
  <2> HIDE DEF l
  <2> QED  BY <1>1, <1>2, <1>3, <2>1, <2>2, <2>3, UnderWay, LogStep
<1>4. CASE UNCHANGED log /\ left' = left \cup {l}
  <2>1. left' \subseteq used' /\ left \subseteq left'
    BY <1>1, <1>2, <1>4
  <2>2. \A i \in Logs \ left' : ~Handles(trigger[r], i)
    BY <1>1, <1>4, UnderWay
  <2> HIDE DEF l
  <2> QED  BY <1>1, <1>2, <1>4, <2>1, <2>2, UnderWay, LogStep
<1> QED  BY <1>3, <1>4 DEF Runs!RefuseTrigger

LEMMA StepsKeep ==
  ASSUME LogInv, NEW r \in Requests, Runs!WriteSteps(r)
  PROVE  LogInv'
<1> DEFINE l == trigger[r].log
<1>1. /\ trigger[r] # None /\ trigger[r].stage = "add" /\ Runs!Go(r, None)
      /\ UNCHANGED <<stats, queued, used, runs, left, mixed>>
  BY DEF Runs!WriteSteps, Runs!At, Runs!Return
<1>2. /\ l \in used /\ l \in Logs /\ used \subseteq Logs /\ trigger[r].steps \in SUBSET Steps
      /\ \A i \in Logs : ~Handles(trigger[r], i)
  BY <1>1, UnderWay DEF Runs!Call, Handles
<1>3. CASE log[l] = None
  <2>1. UNCHANGED <<log, added>>
    BY <1>3 DEF Runs!WriteSteps
  <2> HIDE DEF l
  <2> QED  BY <1>1, <1>2, <2>1, UnderWay, LogStep
<1>4. CASE log[l] # None
  <2>1. Runs!SetSteps(l, trigger[r].steps) /\ added' = [added EXCEPT ![l] = trigger[r].steps]
    BY <1>4 DEF Runs!WriteSteps
  <2>2. /\ log' \in [Logs -> Runs!Log \cup {None}] /\ log'[l] # None
        /\ log'[l].status = log[l].status /\ log'[l].steps = trigger[r].steps
        /\ \A i \in Logs \ {l} : log'[i] = log[i]
    BY <1>2, <1>4, <2>1, SetStepsEffect DEF LogInv
  <2>3. /\ added' \in [Logs -> SUBSET Steps] /\ added'[l] = trigger[r].steps
        /\ \A i \in Logs \ {l} : added'[i] = added[i]
    BY <1>1, <1>2, <2>1, UnderWay
  <2>4. /\ \A i \in Logs \ used' : log'[i] = None /\ added'[i] = {}
        /\ \A i \in Logs : log'[i] # None => log'[i].steps = added'[i]
    BY <1>1, <1>2, <2>2, <2>3, UnderWay
  <2>5. \A i \in Logs \ left' : log'[i] # None /\ log'[i].status = "active" =>
           log[i] # None /\ log[i].status = "active" /\ ~Handles(trigger[r], i)
    BY <1>2, <1>4, <2>2
  <2> HIDE DEF l
  <2> QED  BY <1>1, <1>2, <2>2, <2>3, <2>4, <2>5, UnderWay, LogStep
<1> QED  BY <1>3, <1>4

-----------------------------------------------------------------------------
(* Steps of no request.                                                    *)

\* No log turns active, and the steps of one that is there stay.
LEMMA LogsOnly ==
  ASSUME LogInv, UNCHANGED <<stats, trigger, added, runs, mixed, queued>>,
         used \subseteq used', used' \subseteq Logs, left' \subseteq used', left \subseteq left',
         log' \in [Logs -> Runs!Log \cup {None}],
         \A l \in Logs \ used' : log'[l] = None,
         \A l \in Logs : log'[l] # None =>
             \/ log[l] # None /\ log'[l].steps = log[l].steps
             \/ l \notin used /\ log'[l].steps = {},
         \A l \in Logs \ left' : log'[l] # None /\ log'[l].status = "active" =>
             log[l] # None /\ log[l].status = "active"
  PROVE  LogInv'
<1>0. /\ Runs!TypeOK /\ LogsFresh /\ LogsGiven /\ CountsKept /\ SeenKept
      /\ Runs!StepsComplete /\ Runs!ActiveLogHasTask
  BY DEF LogInv, LogTyped
<1>1. Runs!TypeOK' /\ LogsGiven' /\ LogsFresh'
  BY <1>0 DEF Runs!TypeOK, LogsGiven, LogsFresh
<1>2. \A w \in LoggedWorkflows : Runs!Counting(w)' = Runs!Counting(w)
  BY DEF Runs!Counting
<1>3. CountsKept' /\ SeenKept'
  BY <1>0, <1>2 DEF CountsKept, SeenKept
<1>4. Runs!StepsComplete'
  BY <1>0 DEF Runs!StepsComplete, LogsFresh
<1>5. Runs!Handled' = Runs!Handled
  BY DEF Runs!Handled
<1>6. Runs!ActiveLogHasTask'
  BY <1>0, <1>5 DEF Runs!ActiveLogHasTask
<1> QED  BY <1>1, <1>3, <1>4, <1>6 DEF LogInv, LogTyped

LEMMA LogTypes ==
  ASSUME LogInv
  PROVE  /\ log \in [Logs -> Runs!Log \cup {None}] /\ used \subseteq Logs /\ left \subseteq used
         /\ \A l \in Logs \ used : log[l] = None
BY DEF LogInv, LogTyped, Runs!TypeOK, LogsFresh

LEMMA ServiceLogKeeps ==
  ASSUME LogInv, NEW w \in LoggedWorkflows, Runs!CreateWorkflowLog(w)
  PROVE  LogInv'
<1>1. PICK l \in Logs \ used :
         /\ log' = [log EXCEPT ![l] = [workflow |-> w, status |-> "active", steps |-> {}]]
         /\ used' = used \cup {l} /\ left' = left \cup {l}
         /\ UNCHANGED <<stats, queued, trigger, added, runs, mixed>>
  BY DEF Runs!CreateWorkflowLog
<1> DEFINE new == [workflow |-> w, status |-> "active", steps |-> {}]
<1>2. new \in Runs!Log /\ new.steps = {} /\ log' = [log EXCEPT ![l] = new]
  BY <1>1 DEF Runs!Log, Runs!Status
<1> HIDE DEF new
<1>3. /\ log' \in [Logs -> Runs!Log \cup {None}] /\ log'[l] = new
      /\ \A i \in Logs \ {l} : log'[i] = log[i]
  BY <1>2, LogTypes
<1> QED  BY <1>1, <1>2, <1>3, LogTypes, LogsOnly

LEMMA UpdateKeeps ==
  ASSUME LogInv, NEW l \in Logs, Runs!UpdateLogStatus(l)
  PROVE  LogInv'
<1>1. /\ log[l] # None /\ Runs!SetStatus(l, "cancelled")
      /\ UNCHANGED <<stats, queued, trigger, used, added, runs, left, mixed>>
  BY DEF Runs!UpdateLogStatus, Runs!history
<1>2. /\ log' \in [Logs -> Runs!Log \cup {None}] /\ log'[l] # None
      /\ log'[l].status = "cancelled" /\ log'[l].steps = log[l].steps
      /\ \A i \in Logs \ {l} : log'[i] = log[i]
  BY <1>1, SetStatusEffect DEF LogInv, Runs!Status
<1>3. l \in used
  BY <1>1, LogTypes
<1> QED  BY <1>1, <1>2, <1>3, LogTypes, LogsOnly

LEMMA RemoveKeeps ==
  ASSUME LogInv, NEW L, Runs!Remove(L),
         UNCHANGED <<stats, queued, trigger, Runs!history>>
  PROVE  LogInv'
<1>1. UNCHANGED <<used, added, runs, left, mixed>>
  BY DEF Runs!history
<1>2. /\ log' \in [Logs -> Runs!Log \cup {None}]
      /\ \A l \in Logs : log'[l] \in {log[l], None}
  BY LogTypes DEF Runs!Remove
<1> QED  BY <1>1, <1>2, LogTypes, LogsOnly

\* A crash ends every request; what one was about to count stays uncounted.
LEMMA CrashKeeps ==
  ASSUME LogInv, Runs!Crash
  PROVE  LogInv'
<1>0. /\ Runs!TypeOK /\ LogsFresh /\ LogsGiven /\ CountsKept /\ SeenKept
      /\ Runs!StepsComplete /\ Runs!ActiveLogHasTask
  BY DEF LogInv, LogTyped
<1> DEFINE Held == {l \in Logs : \E r \in Requests : Handles(trigger[r], l)}
           Unfinished == {w \in LoggedWorkflows : Runs!Counting(w) # {}}
<1>1. /\ trigger' = [r \in Requests |-> None]
      /\ left' = left \cup Held /\ mixed' = mixed \cup Unfinished
      /\ UNCHANGED <<stats, log, queued, used, added, runs>>
  BY DEF Runs!Crash, Runs!documents, Handles
<1>2. Held \subseteq used
  BY <1>0 DEF LogsGiven, Handles
<1>3. Runs!Handled \subseteq Held
  BY <1>0, LogParameters DEF Runs!Handled, Handles, LogsGiven, Runs!TypeOK
<1>4. Runs!TypeOK' /\ LogsGiven' /\ LogsFresh' /\ Runs!StepsComplete'
  BY <1>0, <1>1, <1>2 DEF Runs!TypeOK, LogsGiven, LogsFresh, Runs!StepsComplete
<1>5. Runs!ActiveLogHasTask'
  BY <1>0, <1>1, <1>3 DEF Runs!ActiveLogHasTask
<1>6. \A w \in LoggedWorkflows : Runs!Counting(w)' = {}
  BY <1>1 DEF Runs!Counting
<1>7. SeenKept'
  BY <1>6 DEF SeenKept
<1>8. CountsKept'
  <2> SUFFICES ASSUME NEW w \in LoggedWorkflows
               PROVE  /\ stats'[w].total = stats'[w].ok + stats'[w].failed
                      /\ stats'[w].total + Cardinality(Runs!Counting(w)') <= runs'[w]
                      /\ w \notin mixed' =>
                            stats'[w].total + Cardinality(Runs!Counting(w)') = runs'[w]
    BY DEF CountsKept
  <2>1. /\ stats' = stats /\ runs' = runs
        /\ stats[w].total = stats[w].ok + stats[w].failed
        /\ stats[w].total + Cardinality(Runs!Counting(w)) <= runs[w]
        /\ w \notin mixed => stats[w].total + Cardinality(Runs!Counting(w)) = runs[w]
        /\ stats[w].total \in Nat /\ runs[w] \in Nat
    BY <1>0, <1>1, LogParameters DEF CountsKept, Runs!TypeOK, Runs!Stats
  <2>2. Cardinality(Runs!Counting(w)') = 0 /\ Cardinality(Runs!Counting(w)) \in Nat
    BY <1>6, CountingFinite, FS_EmptySet
  <2>3. CASE Runs!Counting(w) = {}
    <3>1. Cardinality(Runs!Counting(w)) = 0
      BY <2>3, FS_EmptySet
    <3> QED  BY <1>1, <2>1, <2>2, <3>1
  <2>4. CASE Runs!Counting(w) # {}
    <3>1. w \in mixed'
      BY <1>1, <2>4
    <3> QED  BY <2>1, <2>2, <3>1
  <2> QED  BY <2>3, <2>4
<1> QED  BY <1>4, <1>5, <1>7, <1>8 DEF LogInv, LogTyped

-----------------------------------------------------------------------------
(* A run is completed and counted.                                         *)

\* What is to be shown of a step of a request that counts.
LEMMA CountStep ==
  ASSUME LogInv, NEW r \in Requests, NEW c \in Runs!Call \cup {None}, Runs!Go(r, c),
         \A l \in Logs : ~Handles(trigger[r], l),
         c # None => c.stage \in {"count", "stats"},
         UNCHANGED <<queued, used, added, left>>,
         stats' \in [LoggedWorkflows -> Runs!Stats],
         runs' \in [LoggedWorkflows -> 0..MaxRuns], mixed' \subseteq LoggedWorkflows,
         log' \in [Logs -> Runs!Log \cup {None}],
         \A l \in Logs : log'[l] # None => log[l] # None /\ log'[l].steps = log[l].steps,
         \A l \in Logs : log'[l] # None /\ log'[l].status = "active" => log[l].status = "active",
         CountsKept', SeenKept'
  PROVE  LogInv'
<1>0. /\ LogTyped /\ Runs!TypeOK /\ LogsFresh /\ LogsGiven
      /\ Runs!StepsComplete /\ Runs!ActiveLogHasTask
  BY DEF LogInv, LogTyped
<1>1. /\ trigger' \in [Requests -> Runs!Call \cup {None}] /\ trigger'[r] = c
      /\ \A q \in Requests \ {r} : trigger'[q] = trigger[q]
  BY <1>0, GoLog
<1>2. Runs!TypeOK' /\ LogsFresh'
  BY <1>0, <1>1 DEF Runs!TypeOK, LogsFresh
<1>3. LogsGiven'
  BY <1>0, <1>1 DEF LogsGiven
<1>4. Runs!StepsComplete'
  BY <1>0 DEF Runs!StepsComplete
<1>5. Runs!ActiveLogHasTask'
  <2> SUFFICES ASSUME NEW l \in Logs \ left, log'[l] # None, log'[l].status = "active"
               PROVE  l \in queued \/ l \in Runs!Handled'
    BY DEF Runs!ActiveLogHasTask
  <2>1. l \in queued \/ l \in Runs!Handled
    BY <1>0 DEF Runs!ActiveLogHasTask
  <2> QED  BY <1>0, <2>1, HandledAfter
<1> QED  BY <1>2, <1>3, <1>4, <1>5 DEF LogInv, LogTyped

\* It concerns one workflow.
LEMMA OtherCounts ==
  ASSUME LogInv, NEW r \in Requests, NEW c \in Runs!Call \cup {None}, Runs!Go(r, c),
         trigger[r] # None, c # None => c.workflow = trigger[r].workflow,
         NEW w \in LoggedWorkflows, w # trigger[r].workflow
  PROVE  /\ Runs!Counting(w)' = Runs!Counting(w)
         /\ \A q \in Runs!Counting(w) : q \in Requests \ {r} /\ trigger'[q] = trigger[q]
<1>0. LogTyped
  BY DEF LogInv
<1>1. r \notin Runs!Counting(w) /\ ~Counts(c, w)
  BY DEF Runs!Counting, Counts
<1>2. Runs!Counting(w)' = Runs!Counting(w)
  BY <1>0, <1>1, CountingAfter
<1>3. Runs!Counting(w) \subseteq Requests \ {r}
  BY <1>1 DEF Runs!Counting
<1> QED  BY <1>0, <1>2, <1>3, GoLog

\* The counts of one workflow and of the others, by the one that changes.
CountsOf(w) ==
    /\ stats[w].total = stats[w].ok + stats[w].failed
    /\ stats[w].total + Cardinality(Runs!Counting(w)) <= runs[w]
    /\ w \notin mixed => stats[w].total + Cardinality(Runs!Counting(w)) = runs[w]
SeenOf(w) ==
    \A r \in Runs!Counting(w) : trigger[r].stage = "stats" =>
        /\ trigger[r].seen.total = trigger[r].seen.ok + trigger[r].seen.failed
        /\ trigger[r].seen.total + Cardinality(Runs!Counting(w)) <= runs[w]
        /\ w \notin mixed =>
              /\ trigger[r].seen = stats[w]
              /\ \A q \in Runs!Counting(w) : trigger[q].stage = "stats" => q = r

LEMMA CountsByWorkflow ==
  ASSUME LogInv, NEW r \in Requests, NEW c \in Runs!Call \cup {None}, Runs!Go(r, c),
         trigger[r] # None, NEW v, v = trigger[r].workflow, c # None => c.workflow = v,
         \A w \in LoggedWorkflows : w # v =>
             stats'[w] = stats[w] /\ runs'[w] = runs[w] /\ (w \in mixed' <=> w \in mixed),
         CountsOf(v)', SeenOf(v)'
  PROVE  CountsKept' /\ SeenKept'
<1>1. ASSUME NEW w \in LoggedWorkflows PROVE CountsOf(w)' /\ SeenOf(w)'
  <2>1. CountsOf(w) /\ SeenOf(w)
    BY DEF LogInv, CountsKept, SeenKept, CountsOf, SeenOf
  <2>2. CASE w # v
    <3>1. /\ Runs!Counting(w)' = Runs!Counting(w)
          /\ \A q \in Runs!Counting(w) : q \in Requests \ {r} /\ trigger'[q] = trigger[q]
          /\ stats'[w] = stats[w] /\ runs'[w] = runs[w] /\ (w \in mixed' <=> w \in mixed)
      BY <2>2, OtherCounts
    <3> QED  BY <2>1, <3>1 DEF CountsOf, SeenOf
  <2>3. CASE w = v
    BY <2>3
  <2> QED  BY <2>2, <2>3
<1> QED  BY <1>1 DEF CountsKept, SeenKept, CountsOf, SeenOf

\* The run is in its log, and to be counted.
LEMMA CompletionKeeps ==
  ASSUME LogInv, NEW r \in Requests, Runs!WriteCompletion(r)
  PROVE  LogInv'
<1>0. LogTyped
  BY DEF LogInv
<1>1. PICK w \in LoggedWorkflows, l \in Logs :
         /\ trigger[r] # None /\ trigger[r].stage = "complete" /\ trigger[r] \in Runs!Call
         /\ w = trigger[r].workflow /\ l = trigger[r].log /\ runs[w] < MaxRuns
         /\ UNCHANGED <<stats, queued, used, added, left, mixed>>
  BY UnderWay DEF Runs!WriteCompletion, Runs!At, Runs!Call
<1>2. \A i \in Logs : ~Handles(trigger[r], i)
  BY <1>1 DEF Handles
<1>3. CASE log[l] = None
  <2>1. Runs!Go(r, None) /\ UNCHANGED <<log, runs>>
    BY <1>1, <1>3 DEF Runs!WriteCompletion, Runs!Return
  <2> QED  BY <1>1, <1>2, <2>1, UnderWay, LogStep
<1>4. CASE log[l] # None
  <2> DEFINE b == Runs!Begin("count", w, None)
             c == [b EXCEPT !.ok = trigger[r].ok]
  <2>1. b \in Runs!Call /\ b.stage = "count" /\ b.workflow = w
    BY BeginTyped DEF Runs!Stages
  <2>2. /\ Runs!SetStatus(l, Runs!FinalStatus(trigger[r].ok))
        /\ runs' = [runs EXCEPT ![w] = runs[w] + 1] /\ Runs!Go(r, c)
    BY <1>1, <1>4 DEF Runs!WriteCompletion
  <2> HIDE DEF b
  <2>3. c \in Runs!Call /\ c.stage = "count" /\ c.workflow = w
    BY <1>1, <2>1 DEF Runs!Call
  <2> HIDE DEF c
  <2>4. /\ log' \in [Logs -> Runs!Log \cup {None}] /\ log'[l] # None
        /\ log'[l].status # "active" /\ log'[l].steps = log[l].steps
        /\ \A i \in Logs \ {l} : log'[i] = log[i]
    <3>1. Runs!FinalStatus(trigger[r].ok) \in Runs!Status \ {"active"}
      BY DEF Runs!FinalStatus, Runs!Status
    <3> QED  BY <1>0, <1>4, <2>2, <3>1, SetStatusEffect
  <2>5. /\ runs' \in [LoggedWorkflows -> 0..MaxRuns] /\ runs'[w] = runs[w] + 1 /\ runs[w] \in Nat
        /\ \A x \in LoggedWorkflows : x # w => runs'[x] = runs[x]
        /\ stats \in [LoggedWorkflows -> Runs!Stats] /\ mixed \subseteq LoggedWorkflows
    <3>1. runs \in [LoggedWorkflows -> 0..MaxRuns] /\ runs[w] + 1 \in 0..MaxRuns
      BY <1>0, <1>1, LogParameters DEF LogTyped, Runs!TypeOK
    <3> QED  BY <1>0, <2>2, <3>1, LogParameters DEF LogTyped, Runs!TypeOK
  <2>6. /\ Runs!Counting(w)' = Runs!Counting(w) \cup {r} /\ r \notin Runs!Counting(w)
        /\ Cardinality(Runs!Counting(w)') = Cardinality(Runs!Counting(w)) + 1
        /\ Cardinality(Runs!Counting(w)) \in Nat
    <3>1. Counts(c, w) /\ r \notin Runs!Counting(w)
      BY <1>1, <2>3, LogParameters DEF Counts, Runs!Counting
    <3>2. Runs!Counting(w)' = Runs!Counting(w) \cup {r}
      BY <1>0, <2>2, <2>3, <3>1, CountingAfter
    <3> QED  BY <3>1, <3>2, CountingFinite, FS_AddElement
  <2>7. CountsOf(w) /\ SeenOf(w) /\ stats[w] \in Runs!Stats
    BY <2>5 DEF LogInv, CountsKept, SeenKept, CountsOf, SeenOf
  <2>8. CountsOf(w)'
    <3>1. stats[w].total \in Nat /\ stats'[w] = stats[w] /\ mixed' = mixed
      BY <1>1, <2>7 DEF Runs!Stats
    <3>2. stats[w].total + Cardinality(Runs!Counting(w)) + 1 <= runs[w] + 1
      BY <2>5, <2>6, <2>7, <3>1 DEF CountsOf
    <3>3. w \notin mixed =>
             stats[w].total + Cardinality(Runs!Counting(w)) + 1 = runs[w] + 1
      BY <2>7 DEF CountsOf
    <3>4. \A n, k, m \in Nat : n + k + 1 = n + (k + 1)
      OBVIOUS
    <3> QED  BY <2>5, <2>6, <2>7, <3>1, <3>2, <3>3, <3>4 DEF CountsOf
  <2>9. SeenOf(w)'
    <3>1. /\ trigger'[r] = c /\ c.stage # "stats"
          /\ \A q \in Requests \ {r} : trigger'[q] = trigger[q]
      BY <1>0, <2>2, <2>3, GoLog
    <3>2. \A q \in Runs!Counting(w) : q \in Requests /\ trigger[q] \in Runs!Call
      BY <1>0 DEF LogTyped, Runs!TypeOK, Runs!Counting
    <3>3. ASSUME NEW q \in Runs!Counting(w)', trigger'[q].stage = "stats"
          PROVE  /\ q \in Runs!Counting(w) /\ trigger'[q] = trigger[q]
                 /\ trigger[q].seen.total \in Nat
      BY <2>6, <3>1, <3>2, <3>3 DEF Runs!Call, Runs!Stats
    <3>4. ASSUME NEW q \in Runs!Counting(w)', trigger'[q].stage = "stats"
          PROVE  /\ trigger'[q].seen.total = trigger'[q].seen.ok + trigger'[q].seen.failed
                 /\ trigger'[q].seen.total + Cardinality(Runs!Counting(w)') <= runs'[w]
      BY <2>5, <2>6, <2>7, <3>3, <3>4 DEF SeenOf
    <3>5. ASSUME NEW q \in Runs!Counting(w)', trigger'[q].stage = "stats", w \notin mixed'
          PROVE  /\ trigger'[q].seen = stats'[w]
                 /\ \A p \in Runs!Counting(w)' : trigger'[p].stage = "stats" => p = q
      BY <1>1, <2>7, <3>3, <3>5 DEF SeenOf
    <3> QED  BY <3>4, <3>5 DEF SeenOf
  <2>10. CountsKept' /\ SeenKept'
    BY <1>1, <2>2, <2>3, <2>5, <2>8, <2>9, CountsByWorkflow
  <2> QED  BY <1>1, <1>2, <1>4, <2>2, <2>3, <2>4, <2>5, <2>10, CountStep
<1> QED  BY <1>3, <1>4

\* The request that counts, and those that count the same workflow.
LEMMA AtCount ==
  ASSUME LogInv, NEW r \in Requests, trigger[r] # None, trigger[r].stage \in {"count", "stats"}
  PROVE  /\ trigger[r] \in Runs!Call /\ trigger[r].workflow \in LoggedWorkflows
         /\ r \in Runs!Counting(trigger[r].workflow)
         /\ \A i \in Logs : ~Handles(trigger[r], i)
         /\ CountsOf(trigger[r].workflow) /\ SeenOf(trigger[r].workflow)
         /\ stats \in [LoggedWorkflows -> Runs!Stats] /\ mixed \subseteq LoggedWorkflows
         /\ runs \in [LoggedWorkflows -> 0..MaxRuns]
         /\ log \in [Logs -> Runs!Log \cup {None}]
<1>1. trigger[r] \in Runs!Call /\ trigger[r].workflow \in LoggedWorkflows
  BY DEF LogInv, LogTyped, Runs!TypeOK, Runs!Call
<1>2. CountsOf(trigger[r].workflow) /\ SeenOf(trigger[r].workflow)
  BY <1>1 DEF LogInv, CountsKept, SeenKept, CountsOf, SeenOf
<1> QED  BY <1>1, <1>2 DEF LogInv, LogTyped, Runs!TypeOK, Runs!Counting, Handles

\* One that counts no more, whatever became of its count.
LEMMA CountEnds ==
  ASSUME LogInv, NEW r \in Requests, trigger[r] # None, trigger[r].stage \in {"count", "stats"},
         Runs!Return(r), NEW w, w = trigger[r].workflow
  PROVE  /\ Runs!Go(r, None) /\ Runs!Counting(w)' = Runs!Counting(w) \ {r}
         /\ Cardinality(Runs!Counting(w)) = Cardinality(Runs!Counting(w)') + 1
         /\ Cardinality(Runs!Counting(w)') \in Nat
         /\ \A q \in Runs!Counting(w)' : trigger'[q] = trigger[q] /\ trigger[q] \in Runs!Call
         /\ \A q \in Runs!Counting(w)' : q \in Runs!Counting(w) /\ q # r
<1>1. LogTyped /\ Runs!Go(r, None)
  BY DEF LogInv, Runs!Return
<1>2. Runs!Counting(w)' = Runs!Counting(w) \ {r}
  BY <1>1, CountingAfter DEF Counts
<1>3. r \in Runs!Counting(w)
  BY AtCount
<1>4. /\ Cardinality(Runs!Counting(w)) = Cardinality(Runs!Counting(w)') + 1
      /\ Cardinality(Runs!Counting(w)') \in Nat
  <2>1. /\ IsFiniteSet(Runs!Counting(w) \ {r}) /\ Cardinality(Runs!Counting(w) \ {r}) \in Nat
        /\ Cardinality(Runs!Counting(w) \ {r}) = Cardinality(Runs!Counting(w)) - 1
    BY <1>3, CountingFinite, FS_RemoveElement, FS_CardinalityType
  <2>2. Cardinality(Runs!Counting(w)) \in Nat
    BY CountingFinite
  <2> QED  BY <1>2, <2>1, <2>2
<1>5. \A q \in Runs!Counting(w)' : trigger'[q] = trigger[q] /\ trigger[q] \in Runs!Call
  <2>1. \A q \in Requests \ {r} : trigger'[q] = trigger[q]
    BY <1>1, GoLog
  <2>2. \A q \in Runs!Counting(w) : q \in Requests /\ trigger[q] \in Runs!Call
    BY <1>1 DEF Runs!Counting, LogTyped, Runs!TypeOK
  <2> QED  BY <1>2, <2>1, <2>2
<1> QED  BY <1>1, <1>2, <1>4, <1>5

\* A count that broke off: the workflow is marked.
LEMMA CountBreaks ==
  ASSUME LogInv, NEW r \in Requests, trigger[r] # None, trigger[r].stage \in {"count", "stats"},
         Runs!Return(r), mixed' = mixed \cup {trigger[r].workflow},
         UNCHANGED <<stats, log, queued, used, added, runs, left>>
  PROVE  LogInv'
<1>1. PICK w \in LoggedWorkflows : w = trigger[r].workflow
  BY AtCount
<1>2. /\ Runs!Go(r, None)
      /\ Cardinality(Runs!Counting(w)) = Cardinality(Runs!Counting(w)') + 1
      /\ Cardinality(Runs!Counting(w)') \in Nat
      /\ \A q \in Runs!Counting(w)' : trigger'[q] = trigger[q] /\ trigger[q] \in Runs!Call
      /\ \A q \in Runs!Counting(w)' : q \in Runs!Counting(w)
  BY <1>1, CountEnds
<1>3. CountsOf(w) /\ SeenOf(w) /\ w \in mixed' /\ stats[w] \in Runs!Stats /\ runs[w] \in Nat
  BY <1>1, AtCount, LogParameters
<1>4. CountsOf(w)'
  BY <1>2, <1>3 DEF CountsOf, Runs!Stats
<1>5. SeenOf(w)'
  <2> SUFFICES ASSUME NEW q \in Runs!Counting(w)', trigger'[q].stage = "stats"
               PROVE  /\ trigger'[q].seen.total = trigger'[q].seen.ok + trigger'[q].seen.failed
                      /\ trigger'[q].seen.total + Cardinality(Runs!Counting(w)') <= runs'[w]
    BY <1>3 DEF SeenOf
  <2>1. trigger'[q] = trigger[q] /\ trigger[q].seen.total \in Nat
    BY <1>2 DEF Runs!Call, Runs!Stats
  <2> QED  BY <1>2, <1>3, <2>1 DEF SeenOf
<1>6. CountsKept' /\ SeenKept'
  BY <1>1, <1>2, <1>4, <1>5, CountsByWorkflow
<1> QED  BY <1>1, <1>2, <1>6, AtCount, CountStep

LEMMA ReadStatsKeeps ==
  ASSUME LogInv, NEW r \in Requests, Runs!ReadStats(r)
  PROVE  LogInv'
<1>0. LogTyped
  BY DEF LogInv
<1>1. PICK w \in LoggedWorkflows :
         /\ trigger[r] # None /\ trigger[r].stage = "count" /\ trigger[r] \in Runs!Call
         /\ w = trigger[r].workflow
         /\ UNCHANGED <<stats, log, queued, used, added, runs, left>>
  BY AtCount DEF Runs!ReadStats, Runs!At, Runs!documents
<1>2. CASE Runs!Return(r) /\ mixed' = mixed \cup {trigger[r].workflow}
  BY <1>1, <1>2, CountBreaks
<1>3. CASE /\ Runs!Go(r, [trigger[r] EXCEPT !.stage = "stats", !.seen = stats[w]])
           /\ mixed' = IF Runs!Counting(w) = {r} THEN mixed ELSE mixed \cup {w}
  <2> DEFINE c == [trigger[r] EXCEPT !.stage = "stats", !.seen = stats[w]]
  <2>1. /\ CountsOf(w) /\ SeenOf(w) /\ r \in Runs!Counting(w)
        /\ stats[w] \in Runs!Stats /\ runs[w] \in Nat
    BY <1>1, AtCount, LogParameters
  <2>2. c \in Runs!Call /\ c.stage = "stats" /\ c.workflow = w /\ c.seen = stats[w]
    BY <1>1, <2>1 DEF Runs!Call, Runs!Stages
  <2>3. Runs!Go(r, c)
    BY <1>3
  <2> HIDE DEF c
  <2>4. /\ trigger'[r] = c
        /\ \A q \in Requests \ {r} : trigger'[q] = trigger[q]
    BY <1>0, <2>2, <2>3, GoLog
  <2>5. Runs!Counting(w)' = Runs!Counting(w)
    <3>1. Counts(c, w)
      BY <2>2, LogParameters DEF Counts
    <3> QED  BY <1>0, <2>1, <2>2, <2>3, <3>1, CountingAfter
  <2>6. CountsOf(w)'
    BY <1>1, <1>3, <2>1, <2>5 DEF CountsOf
  <2>7. SeenOf(w)'
    <3>1. ASSUME NEW q \in Runs!Counting(w)', trigger'[q].stage = "stats"
          PROVE  /\ trigger'[q].seen.total = trigger'[q].seen.ok + trigger'[q].seen.failed
                 /\ trigger'[q].seen.total + Cardinality(Runs!Counting(w)') <= runs'[w]
      <4>1. CASE q = r
        BY <1>1, <2>1, <2>2, <2>4, <2>5, <4>1 DEF CountsOf
      <4>2. CASE q # r
        <5>1. q \in Requests /\ trigger'[q] = trigger[q]
          BY <2>4, <2>5, <4>2 DEF Runs!Counting
        <5> QED  BY <1>1, <2>1, <2>5, <3>1, <5>1 DEF SeenOf
      <4> QED  BY <4>1, <4>2
    <3>2. ASSUME w \notin mixed' PROVE Runs!Counting(w)' = {r}
      BY <1>3, <2>5, <3>2
    <3>3. trigger'[r].seen = stats'[w]
      BY <1>1, <2>2, <2>4
    <3> QED  BY <3>1, <3>2, <3>3 DEF SeenOf
  <2>8. \A x \in LoggedWorkflows : x # w => (x \in mixed' <=> x \in mixed)
    BY <1>3
  <2>9. CountsKept' /\ SeenKept'
    BY <1>1, <2>2, <2>3, <2>6, <2>7, <2>8, CountsByWorkflow
  <2>10. mixed' \subseteq LoggedWorkflows
    BY <1>1, <1>3, AtCount
  <2> QED  BY <1>1, <2>2, <2>3, <2>9, <2>10, AtCount, CountStep
<1> QED  BY <1>1, <1>2, <1>3 DEF Runs!ReadStats

LEMMA WriteStatsKeeps ==
  ASSUME LogInv, NEW r \in Requests, Runs!WriteStats(r)
  PROVE  LogInv'
<1>1. PICK w \in LoggedWorkflows :
         /\ trigger[r] # None /\ trigger[r].stage = "stats" /\ trigger[r] \in Runs!Call
         /\ w = trigger[r].workflow /\ Runs!Return(r)
         /\ UNCHANGED <<log, queued, used, added, runs, left>>
  BY AtCount DEF Runs!WriteStats, Runs!At
<1>2. CASE UNCHANGED stats /\ mixed' = mixed \cup {w}
  BY <1>1, <1>2, CountBreaks
<1>3. CASE /\ stats' = [stats EXCEPT ![w] = Runs!Counted(trigger[r].seen, trigger[r].ok)]
           /\ UNCHANGED mixed
  <2> DEFINE new == Runs!Counted(trigger[r].seen, trigger[r].ok)
  <2>1. /\ CountsOf(w) /\ SeenOf(w) /\ r \in Runs!Counting(w) /\ runs[w] \in Nat
        /\ stats \in [LoggedWorkflows -> Runs!Stats] /\ stats[w] \in Runs!Stats
    BY <1>1, AtCount, LogParameters
  <2>2. trigger[r].seen \in Runs!Stats /\ trigger[r].ok \in BOOLEAN
    BY <1>1 DEF Runs!Call
  <2>3. trigger[r].seen.total = trigger[r].seen.ok + trigger[r].seen.failed
    BY <1>1, <2>1 DEF SeenOf
  <2>4. /\ new \in Runs!Stats /\ new.total = trigger[r].seen.total + 1
        /\ new.total = new.ok + new.failed
    BY <2>2, <2>3 DEF Runs!Counted, Runs!Stats
  <2>5. stats' = [stats EXCEPT ![w] = new]
    BY <1>3
  <2> HIDE DEF new
  <2>6. /\ stats' \in [LoggedWorkflows -> Runs!Stats] /\ stats'[w] = new
        /\ \A x \in LoggedWorkflows : x # w => stats'[x] = stats[x]
    BY <2>1, <2>4, <2>5
  <2>7. /\ Runs!Go(r, None)
        /\ Cardinality(Runs!Counting(w)) = Cardinality(Runs!Counting(w)') + 1
        /\ Cardinality(Runs!Counting(w)') \in Nat
        /\ \A q \in Runs!Counting(w)' : trigger'[q] = trigger[q] /\ trigger[q] \in Runs!Call
        /\ \A q \in Runs!Counting(w)' : q \in Runs!Counting(w) /\ q # r
    BY <1>1, CountEnds
  <2>8. CountsOf(w)'
    <3>1. /\ trigger[r].seen.total \in Nat
          /\ trigger[r].seen.total + (Cardinality(Runs!Counting(w)') + 1) <= runs[w]
      BY <1>1, <2>1, <2>2, <2>7 DEF SeenOf, Runs!Stats
    <3>2. stats'[w].total + Cardinality(Runs!Counting(w)') <= runs'[w]
      BY <1>1, <2>1, <2>4, <2>6, <2>7, <3>1
    <3>3. ASSUME w \notin mixed'
          PROVE  stats'[w].total + Cardinality(Runs!Counting(w)') = runs'[w]
      <4>1. trigger[r].seen = stats[w]
        BY <1>1, <1>3, <2>1, <3>3 DEF SeenOf
      <4>2. stats[w].total + (Cardinality(Runs!Counting(w)') + 1) = runs[w]
        BY <1>3, <2>1, <2>7, <3>3 DEF CountsOf
      <4> QED  BY <1>1, <2>1, <2>4, <2>6, <2>7, <3>1, <4>1, <4>2
    <3> QED  BY <2>4, <2>6, <3>2, <3>3 DEF CountsOf
  <2>9. SeenOf(w)'
    <3>1. ASSUME NEW q \in Runs!Counting(w)', trigger'[q].stage = "stats"
          PROVE  /\ trigger'[q].seen.total = trigger'[q].seen.ok + trigger'[q].seen.failed
                 /\ trigger'[q].seen.total + Cardinality(Runs!Counting(w)') <= runs'[w]
      <4>1. trigger'[q] = trigger[q] /\ trigger[q].seen.total \in Nat
        BY <2>7 DEF Runs!Call, Runs!Stats
      <4> QED  BY <1>1, <2>1, <2>7, <3>1, <4>1 DEF SeenOf
    <3>2. ASSUME w \notin mixed', NEW q \in Runs!Counting(w)' PROVE trigger'[q].stage # "stats"
      BY <1>1, <1>3, <2>1, <2>7, <3>2 DEF SeenOf
    <3> QED  BY <3>1, <3>2 DEF SeenOf
  <2>10. CountsKept' /\ SeenKept'
    BY <1>1, <1>3, <2>6, <2>7, <2>8, <2>9, CountsByWorkflow
  <2> QED  BY <1>1, <1>3, <2>6, <2>7, <2>10, AtCount, CountStep
<1> QED  BY <1>1, <1>2, <1>3 DEF Runs!WriteStats

-----------------------------------------------------------------------------

LEMMA InitLogInv == Runs!Init => LogInv
<1> SUFFICES ASSUME Runs!Init PROVE LogInv
  OBVIOUS
<1>1. Runs!NoStats \in Runs!Stats /\ Runs!NoStats.total = 0 /\ Runs!NoStats.ok = 0
      /\ Runs!NoStats.failed = 0
  BY DEF Runs!NoStats, Runs!Stats
<1>2. LogTyped
  BY <1>1, LogParameters DEF Runs!Init, LogTyped, Runs!TypeOK, LogsFresh, LogsGiven
<1>3. \A w \in LoggedWorkflows : Runs!Counting(w) = {} /\ Cardinality(Runs!Counting(w)) = 0
  BY FS_EmptySet DEF Runs!Init, Runs!Counting
<1>4. CountsKept /\ SeenKept
  BY <1>1, <1>3 DEF Runs!Init, CountsKept, SeenKept
<1> QED  BY <1>2, <1>4, LogParameters
         DEF Runs!Init, LogInv, Runs!StepsComplete, Runs!ActiveLogHasTask

LEMMA NextLogInv == LogInv /\ [Runs!Next]_(Runs!vars) => LogInv'
<1> SUFFICES ASSUME LogInv, [Runs!Next]_(Runs!vars) PROVE LogInv'
  OBVIOUS
<1>1. CASE UNCHANGED Runs!vars
  <2>1. UNCHANGED <<stats, log, queued, trigger, used, added, runs, left, mixed>>
    BY <1>1 DEF Runs!vars, Runs!documents, Runs!history
  <2>2. /\ used \subseteq used' /\ used' \subseteq Logs /\ left' \subseteq used'
        /\ left \subseteq left'
    BY <2>1, LogTypes
  <2>3. /\ log' \in [Logs -> Runs!Log \cup {None}]
        /\ \A l \in Logs \ used' : log'[l] = None
    BY <2>1, LogTypes
  <2> QED  BY <2>1, <2>2, <2>3, LogsOnly
<1>2. ASSUME NEW r \in Requests, NEW w \in LoggedWorkflows,
             Runs!TriggerWorkflow(r, w) \/ Runs!TriggerWebhook(r, w) \/ Runs!TriggerScheduled(r, w)
      PROVE  LogInv'
  BY <1>2, FoundKeeps DEF Runs!TriggerWorkflow, Runs!TriggerWebhook, Runs!TriggerScheduled
<1>3. ASSUME Runs!DeleteOldLogs \/ \E w \in LoggedWorkflows : Runs!DeleteLogsByWorkflow(w)
      PROVE  LogInv'
  BY <1>3, RemoveKeeps DEF Runs!DeleteOldLogs, Runs!DeleteLogsByWorkflow
<1> QED  BY <1>1, <1>2, <1>3, AddKeeps, CompleteKeeps, CreateKeeps, EnqueueKeeps, RefuseKeeps,
            StepsKeep, CompletionKeeps, ReadStatsKeeps, WriteStatsKeeps, ServiceLogKeeps,
            UpdateKeeps, CrashKeeps DEF Runs!Next

LEMMA LogsOfAll == Spec => Runs!Spec
<1>1. Init => Runs!Init
  BY DEF Init
<1>2. [Next]_vars => [Runs!Next]_(Runs!vars)
  BY DEF Next, vars, logVars, DocumentsStep, LogsStep, ListsStep, Runs!vars, Runs!documents,
         Runs!history
<1> QED  BY <1>1, <1>2, PTL DEF Spec, Runs!Spec

\* Whatever requests overlap, fail or are cut off: no step that was added is missing from its
\* log, no run is counted twice or as neither, none is missing from the counters of a workflow
\* whose counts never overlapped or broke off, and an active log has a task or a request.
THEOREM LogsAreKept == Spec => []LogsHold
<1>1. LogInv => LogsHold
  <2> SUFFICES ASSUME LogInv PROVE LogsHold
    OBVIOUS
  <2>1. Runs!StatsCountRuns
    <3> SUFFICES ASSUME NEW w \in LoggedWorkflows
                 PROVE  /\ stats[w].total = stats[w].ok + stats[w].failed
                        /\ stats[w].total <= runs[w]
                        /\ w \notin mixed /\ Runs!Counting(w) = {} => stats[w].total = runs[w]
      BY DEF Runs!StatsCountRuns
    <3>1. /\ stats[w].total \in Nat /\ runs[w] \in Nat
          /\ stats[w].total = stats[w].ok + stats[w].failed
          /\ stats[w].total + Cardinality(Runs!Counting(w)) <= runs[w]
          /\ w \notin mixed => stats[w].total + Cardinality(Runs!Counting(w)) = runs[w]
      BY LogParameters DEF LogInv, LogTyped, Runs!TypeOK, Runs!Stats, CountsKept
    <3>2. /\ Cardinality(Runs!Counting(w)) \in Nat
          /\ Runs!Counting(w) = {} => Cardinality(Runs!Counting(w)) = 0
      BY CountingFinite, FS_EmptySet
    <3> QED  BY <3>1, <3>2
  <2> QED  BY <2>1 DEF LogInv, LogTyped, LogsHold
<1>2. Runs!Spec => []LogInv
  BY InitLogInv, NextLogInv, PTL DEF Runs!Spec
<1> QED  BY <1>1, <1>2, LogsOfAll, PTL

-----------------------------------------------------------------------------
(* Task lists: how the copies of a task are counted.                       *)

InListCard(q, k) == Cardinality(Lists!InList(q, k))
InHandCard(k) == Cardinality(Lists!InHand(k))

LEMMA ListParameters ==
  /\ IsFiniteSet(Movers) /\ Movers # {} /\ IsFiniteSet(Consumers)
  /\ MaxRetries \in Nat /\ Count \in Nat \ {0} /\ None \notin Lists!Task
BY Parameters DEF Lists!QueueServiceAssumption, Lists!IsFiniteSet, IsFiniteSet, Lists!Task

LEMMA InListFinite ==
  ASSUME Lists!TypeOK, NEW q \in Lists!Lists, NEW k
  PROVE  IsFiniteSet(Lists!InList(q, k)) /\ InListCard(q, k) \in Nat
<1>1. list[q] \in Seq(Lists!Task)
  BY DEF Lists!TypeOK
<1>2. Lists!InList(q, k) \subseteq 1..Len(list[q]) /\ Len(list[q]) \in Nat
  BY <1>1 DEF Lists!InList
<1>3. IsFiniteSet(1..Len(list[q]))
  BY <1>2, FS_Interval
<1> QED  BY <1>2, <1>3, FS_Subset, FS_CardinalityType DEF InListCard

LEMMA InHandFinite ==
  ASSUME Lists!TypeOK, NEW k
  PROVE  IsFiniteSet(Lists!InHand(k)) /\ InHandCard(k) \in Nat
<1>1. Lists!InHand(k) \subseteq Movers \cup Consumers
  BY DEF Lists!InHand, Lists!TypeOK
<1>2. IsFiniteSet(Movers \cup Consumers)
  BY ListParameters, FS_Union
<1> QED  BY <1>1, <1>2, FS_Subset, FS_CardinalityType DEF InHandCard

LEMMA Copies ==
  ASSUME NEW k
  PROVE  Lists!CopiesOf(k) = InListCard("high", k) + InListCard("default", k)
                             + InListCard("low", k) + InListCard("failed", k) + InHandCard(k)
BY DEF Lists!CopiesOf, InListCard, InHandCard, Lists!Cardinality, Cardinality

LEMMA CopiesTyped ==
  ASSUME Lists!TypeOK, NEW k
  PROVE  Lists!CopiesOf(k) \in Nat
<1>1. \A q \in Lists!Lists : InListCard(q, k) \in Nat
  BY InListFinite
<1> QED  BY <1>1, InHandFinite, Copies DEF Lists!Lists

CopiesCounted == \A k : Lists!CopiesOf(k) \in Nat

LEMMA CopiesTypedNext == Lists!TypeOK' => CopiesCounted'
<1>1. Lists!TypeOK => CopiesCounted
  BY CopiesTyped DEF CopiesCounted
<1> QED  BY <1>1, PTL

\* One list and the hands change.
LEMMA CopiesAfter ==
  ASSUME Lists!TypeOK, NEW k, NEW q \in Lists!Lists, NEW d \in Int, NEW e \in Int,
         InListCard(q, k)' = InListCard(q, k) + d,
         \A x \in Lists!Lists \ {q} : InListCard(x, k)' = InListCard(x, k),
         InHandCard(k)' = InHandCard(k) + e
  PROVE  Lists!CopiesOf(k)' = Lists!CopiesOf(k) + d + e
<1>1. InListCard("high", k) \in Nat /\ InListCard("default", k) \in Nat
      /\ InListCard("low", k) \in Nat /\ InListCard("failed", k) \in Nat /\ InHandCard(k) \in Nat
  BY InListFinite, InHandFinite DEF Lists!Lists
<1>2. Lists!CopiesOf(k)' = InListCard("high", k)' + InListCard("default", k)'
                            + InListCard("low", k)' + InListCard("failed", k)' + InHandCard(k)'
  BY DEF Lists!CopiesOf, InListCard, InHandCard, Lists!Cardinality, Cardinality
<1>3. CASE q = "high"
  BY <1>1, <1>2, <1>3, Copies DEF Lists!Lists
<1>4. CASE q = "default"
  BY <1>1, <1>2, <1>4, Copies DEF Lists!Lists
<1>5. CASE q = "low"
  BY <1>1, <1>2, <1>5, Copies DEF Lists!Lists
<1>6. CASE q = "failed"
  BY <1>1, <1>2, <1>6, Copies DEF Lists!Lists
<1> QED  BY <1>3, <1>4, <1>5, <1>6 DEF Lists!Lists

LEMMA OtherLists ==
  ASSUME Lists!TypeOK, NEW q \in Lists!Lists, NEW s, list' = [list EXCEPT ![q] = s]
  PROVE  /\ list'[q] = s
         /\ \A x \in Lists!Lists \ {q} : \A k : InListCard(x, k)' = InListCard(x, k)
BY DEF Lists!TypeOK, InListCard, Lists!InList

LEMMA SameLists ==
  ASSUME list' = list, NEW k, NEW q
  PROVE  InListCard(q, k)' = InListCard(q, k)
BY DEF InListCard, Lists!InList

LEMMA SameHands ==
  ASSUME hand' = hand, NEW k
  PROVE  InHandCard(k)' = InHandCard(k)
BY DEF InHandCard, Lists!InHand

\* A set of numbers, each moved up by one.
LEMMA MovedUp ==
  ASSUME NEW n \in Nat, NEW I, I \subseteq 1..n
  PROVE  /\ IsFiniteSet({i + 1 : i \in I}) /\ Cardinality({i + 1 : i \in I}) = Cardinality(I)
         /\ 1 \notin {i + 1 : i \in I}
<1> DEFINE f == [i \in I |-> i + 1]
           J == {i + 1 : i \in I}
<1>1. IsFiniteSet(I)
  <2>1. IsFiniteSet(1..n)
    BY FS_Interval
  <2> QED  BY <2>1, FS_Subset
<1>2. f \in Surjection(I, J)
  BY DEF Surjection
<1>3. f \in Injection(I, J)
  BY DEF Injection, IsInjective
<1>4. 1 \notin J
  OBVIOUS
<1> HIDE DEF f, J
<1>5. IsFiniteSet(J) /\ Cardinality(J) = Cardinality(I)
  BY <1>1, <1>2, <1>3, FS_Surjection
<1> QED  BY <1>4, <1>5 DEF J

LEMMA Pushed ==
  ASSUME NEW S, NEW s \in Seq(S), NEW t \in S
  PROVE  /\ <<t>> \o s \in Seq(S) /\ DOMAIN (<<t>> \o s) = 1..(Len(s) + 1)
         /\ (<<t>> \o s)[1] = t
         /\ \A i \in 1..Len(s) : (<<t>> \o s)[i + 1] = s[i]
<1>1. <<t>> \in Seq(S) /\ Len(<<t>>) = 1 /\ <<t>>[1] = t /\ Len(s) \in Nat
  OBVIOUS
<1>2. /\ <<t>> \o s \in Seq(S) /\ Len(<<t>> \o s) = 1 + Len(s)
      /\ \A i \in 1..(1 + Len(s)) : (<<t>> \o s)[i] = IF i <= 1 THEN <<t>>[i] ELSE s[i - 1]
  <2>1. /\ <<t>> \o s \in Seq(S) /\ Len(<<t>> \o s) = Len(<<t>>) + Len(s)
        /\ \A i \in 1..(Len(<<t>>) + Len(s)) :
               (<<t>> \o s)[i] = IF i <= Len(<<t>>) THEN <<t>>[i] ELSE s[i - Len(<<t>>)]
    BY ONLY <1>1, s \in Seq(S), ConcatProperties
  <2> QED  BY <1>1, <2>1
<1> DEFINE u == <<t>> \o s
<1>3. DOMAIN u = 1..(Len(s) + 1)
  BY <1>1, <1>2
<1>4. u[1] = t
  BY <1>1, <1>2
<1>5. \A i \in 1..Len(s) : u[i + 1] = s[i]
  <2> TAKE i \in 1..Len(s)
  <2>1. i + 1 \in 1..(1 + Len(s)) /\ ~(i + 1 <= 1) /\ (i + 1) - 1 = i
    BY <1>1
  <2> QED  BY <1>2, <2>1
<1> QED  BY <1>2, <1>3, <1>4, <1>5

LEMMA PushCounts ==
  ASSUME Lists!TypeOK, NEW q \in Lists!Lists, NEW t \in Lists!Task, Lists!LPush(q, t), NEW k
  PROVE  /\ list' \in [Lists!Lists -> Seq(Lists!Task)]
         /\ InListCard(q, k)' = InListCard(q, k) + (IF t.id = k THEN 1 ELSE 0)
         /\ \A x \in Lists!Lists \ {q} : InListCard(x, k)' = InListCard(x, k)
<1> DEFINE s == list[q]
           I == Lists!InList(q, k)
           J == {i + 1 : i \in I}
<1>1. s \in Seq(Lists!Task) /\ Len(s) \in Nat /\ DOMAIN s = 1..Len(s)
  BY DEF Lists!TypeOK
<1>2. list' = [list EXCEPT ![q] = <<t>> \o s]
  BY DEF Lists!LPush
<1>3. /\ <<t>> \o s \in Seq(Lists!Task) /\ DOMAIN (<<t>> \o s) = 1..(Len(s) + 1)
      /\ (<<t>> \o s)[1] = t
      /\ \A i \in 1..Len(s) : (<<t>> \o s)[i + 1] = s[i]
  BY <1>1, Pushed
<1> DEFINE u == <<t>> \o s
<1> HIDE DEF u
<1>4. list' \in [Lists!Lists -> Seq(Lists!Task)] /\ list'[q] = u
  BY <1>2, <1>3 DEF Lists!TypeOK, u
<1>5. I \subseteq 1..Len(s) /\ \A i \in 1..Len(s) : i \in I <=> s[i].id = k
  BY <1>1 DEF Lists!InList
<1>6. Lists!InList(q, k)' = IF t.id = k THEN J \cup {1} ELSE J
  <2>1. Lists!InList(q, k)' = {i \in 1..(Len(s) + 1) : u[i].id = k}
    BY <1>3, <1>4 DEF Lists!InList, u
  <2>2. \A i \in 1..(Len(s) + 1) : i = 1 \/ \E j \in 1..Len(s) : i = j + 1
    <3> TAKE i \in 1..(Len(s) + 1)
    <3>1. i = 1 \/ (i - 1 \in 1..Len(s) /\ i = (i - 1) + 1)
      BY <1>1
    <3> QED  BY <3>1
  <2>3. u[1] = t /\ \A i \in 1..Len(s) : u[i + 1] = s[i]
    BY <1>3 DEF u
  <2>4. \A i \in 1..Len(s) : i + 1 \in 1..(Len(s) + 1) /\ i + 1 # 1
    BY <1>1
  <2>5. 1 \in 1..(Len(s) + 1)
    BY <1>1
  <2> DEFINE A == {i \in 1..(Len(s) + 1) : u[i].id = k}
  <2> HIDE DEF I, s
  <2>6. \A i \in 1..Len(s) : i + 1 \in A <=> i \in I
    BY <1>5, <2>3, <2>4
  <2>7. 1 \in A <=> t.id = k
    BY <2>3, <2>5
  <2>8. \A i \in A : i = 1 \/ i \in J
    BY <2>2, <2>6
  <2>9. \A i \in J : i \in A
    BY <1>5, <2>6
  <2> HIDE DEF A, J
  <2>10. A = IF t.id = k THEN J \cup {1} ELSE J
    <3>1. 1 \notin J
      BY <1>1, <1>5, MovedUp DEF J, s
    <3> QED  BY <2>7, <2>8, <2>9, <3>1
  <2> QED  BY <2>1, <2>10 DEF A
<1>7. IsFiniteSet(J) /\ Cardinality(J) = Cardinality(I) /\ 1 \notin J
  BY <1>1, <1>5, MovedUp
<1>8. Cardinality(J \cup {1}) = Cardinality(J) + 1 /\ Cardinality(I) \in Nat
  BY <1>7, FS_AddElement, InListFinite DEF InListCard
<1>9. InListCard(q, k)' = InListCard(q, k) + (IF t.id = k THEN 1 ELSE 0)
  BY <1>6, <1>7, <1>8 DEF InListCard
<1> QED  BY <1>2, <1>4, <1>9, OtherLists

LEMMA PopCounts ==
  ASSUME Lists!TypeOK, NEW q \in Lists!Lists, list[q] # <<>>,
         list' = [list EXCEPT ![q] = Lists!Front(list[q])], NEW k
  PROVE  /\ list' \in [Lists!Lists -> Seq(Lists!Task)]
         /\ Lists!Last(list[q]) \in Lists!Task
         /\ InListCard(q, k)' =
                InListCard(q, k) + (IF Lists!Last(list[q]).id = k THEN -1 ELSE 0)
         /\ \A x \in Lists!Lists \ {q} : InListCard(x, k)' = InListCard(x, k)
<1> DEFINE s == list[q]
           n == Len(s)
           I == Lists!InList(q, k)
           u == Lists!Front(s)
<1>1. s \in Seq(Lists!Task) /\ n \in Nat \ {0} /\ DOMAIN s = 1..n
  BY DEF Lists!TypeOK
<1>2. /\ u \in Seq(Lists!Task) /\ DOMAIN u = 1..(n - 1)
      /\ \A i \in 1..(n - 1) : u[i] = s[i]
  BY <1>1 DEF Lists!Front
<1>3. Lists!Last(s) = s[n] /\ s[n] \in Lists!Task
  BY <1>1 DEF Lists!Last
<1> HIDE DEF u
<1>4. list' \in [Lists!Lists -> Seq(Lists!Task)] /\ list'[q] = u
  BY <1>2 DEF Lists!TypeOK, u
<1>5. Lists!InList(q, k)' = I \ {n}
  <2>1. Lists!InList(q, k)' = {i \in 1..(n - 1) : u[i].id = k}
    BY <1>2, <1>4 DEF Lists!InList
  <2>2. \A i : i \in 1..(n - 1) <=> i \in 1..n /\ i # n
    BY <1>1
  <2>3. I = {i \in 1..n : s[i].id = k}
    BY <1>1 DEF Lists!InList
  <2> HIDE DEF I, s, n
  <2> QED  BY <1>2, <2>1, <2>2, <2>3
<1>6. n \in I <=> s[n].id = k
  BY <1>1 DEF Lists!InList
<1>7. Cardinality(I \ {n}) = (IF n \in I THEN Cardinality(I) - 1 ELSE Cardinality(I))
      /\ Cardinality(I) \in Nat
  BY InListFinite, FS_RemoveElement DEF InListCard
<1>8. InListCard(q, k)' = InListCard(q, k) + (IF Lists!Last(s).id = k THEN -1 ELSE 0)
  BY <1>3, <1>5, <1>6, <1>7 DEF InListCard
<1> QED  BY <1>3, <1>4, <1>8, OtherLists

LEMMA TakeCounts ==
  ASSUME Lists!TypeOK, NEW c \in Movers \cup Consumers, hand[c] = None,
         NEW t \in Lists!Task, Lists!Hold(c, t), NEW k
  PROVE  /\ hand' \in [Movers \cup Consumers -> Lists!Task \cup {None}]
         /\ InHandCard(k)' = InHandCard(k) + (IF t.id = k THEN 1 ELSE 0)
<1>1. /\ hand' \in [Movers \cup Consumers -> Lists!Task \cup {None}] /\ hand'[c] = t
      /\ \A x \in (Movers \cup Consumers) \ {c} : hand'[x] = hand[x]
  BY DEF Lists!TypeOK, Lists!Hold
<1>2. DOMAIN hand = Movers \cup Consumers /\ DOMAIN hand' = Movers \cup Consumers
  BY <1>1 DEF Lists!TypeOK
<1>3. t # None
  BY ListParameters
<1>4. Lists!InHand(k)' = (IF t.id = k THEN Lists!InHand(k) \cup {c} ELSE Lists!InHand(k))
      /\ c \notin Lists!InHand(k)
  BY <1>1, <1>2, <1>3 DEF Lists!InHand
<1>5. Cardinality(Lists!InHand(k) \cup {c}) = Cardinality(Lists!InHand(k)) + 1
  BY <1>4, InHandFinite, FS_AddElement
<1> QED  BY <1>1, <1>4, <1>5, InHandFinite DEF InHandCard

LEMMA DropCounts ==
  ASSUME Lists!TypeOK, NEW c \in Movers \cup Consumers, hand[c] # None, Lists!Hold(c, None),
         NEW k
  PROVE  /\ hand' \in [Movers \cup Consumers -> Lists!Task \cup {None}]
         /\ hand[c] \in Lists!Task
         /\ InHandCard(k)' = InHandCard(k) + (IF hand[c].id = k THEN -1 ELSE 0)
<1>1. /\ hand' \in [Movers \cup Consumers -> Lists!Task \cup {None}] /\ hand'[c] = None
      /\ \A x \in (Movers \cup Consumers) \ {c} : hand'[x] = hand[x]
      /\ hand[c] \in Lists!Task
  BY DEF Lists!TypeOK, Lists!Hold
<1>2. DOMAIN hand = Movers \cup Consumers /\ DOMAIN hand' = Movers \cup Consumers
  BY <1>1 DEF Lists!TypeOK
<1>4. Lists!InHand(k)' = Lists!InHand(k) \ {c} /\ (c \in Lists!InHand(k) <=> hand[c].id = k)
  BY <1>1, <1>2 DEF Lists!InHand
<1>5. Cardinality(Lists!InHand(k) \ {c}) =
         IF c \in Lists!InHand(k) THEN Cardinality(Lists!InHand(k)) - 1
         ELSE Cardinality(Lists!InHand(k))
  BY InHandFinite, FS_RemoveElement
<1> QED  BY <1>1, <1>4, <1>5, InHandFinite DEF InHandCard

-----------------------------------------------------------------------------
(* Task lists: where a task is.                                            *)

Waiting(k) == \E t \in scheduled : t.id = k
Reading(k) == {m \in Movers : \E t \in batch[m] : t.id = k}

\* No task is in the set more than once, as long as it is there no mover has moved it, and
\* those who may still move it are those who read it before somebody did.
TaskKept(k) ==
    /\ k \notin asked => Lists!CopiesOf(k) = 0 /\ ~Waiting(k) /\ Reading(k) = {}
    /\ Waiting(k) => Lists!CopiesOf(k) = 0
    /\ Lists!CopiesOf(k) + Cardinality(Reading(k)) <= Cardinality(Movers)
    /\ k \in asked \ dropped => Lists!CopiesOf(k) > 0 \/ Waiting(k)

FirstTime == \A t \in scheduled : t.retry = 0
ReadFirstTime == \A m \in Movers : \A t \in batch[m] : t.retry = 0

ListTyped == Lists!TypeOK /\ FirstTime /\ ReadFirstTime
ListInv == ListTyped /\ \A k \in Tasks : TaskKept(k)

LEMMA ReadingFinite ==
  ASSUME NEW k
  PROVE  /\ IsFiniteSet(Reading(k)) /\ Cardinality(Reading(k)) \in Nat
         /\ Cardinality(Movers) \in Nat \ {0}
         /\ Cardinality(Reading(k)) <= Cardinality(Movers)
<1>1. Reading(k) \subseteq Movers
  BY DEF Reading
<1>2. Cardinality(Movers) \in Nat /\ Cardinality(Movers) # 0
  BY ListParameters, FS_CardinalityType, FS_EmptySet
<1> QED  BY <1>1, <1>2, ListParameters, FS_Subset, FS_CardinalityType

\* What leaves a task where it is.
LEMMA Undisturbed ==
  ASSUME NEW k, TaskKept(k), Lists!CopiesOf(k)' = Lists!CopiesOf(k), Reading(k)' = Reading(k),
         Waiting(k)' <=> Waiting(k), k \in asked' <=> k \in asked, k \in dropped => k \in dropped'
  PROVE  TaskKept(k)'
BY DEF TaskKept

LEMMA SameReading ==
  ASSUME batch' = batch, NEW k
  PROVE  Reading(k)' = Reading(k)
BY DEF Reading

\* A task enters a list that was asked for now.
LEMMA EnqueueTaskKeeps ==
  ASSUME ListInv, NEW q \in {"high", "default"}, NEW k \in Tasks, Lists!EnqueueTask(q, k)
  PROVE  ListInv'
<1> DEFINE t == [id |-> k, retry |-> 0]
<1>1. t \in Lists!Task /\ t.id = k /\ q \in Lists!Lists
  BY ListParameters DEF Lists!Task, Lists!Lists
<1>2. /\ Lists!LPush(q, t) /\ k \notin asked /\ asked' = asked \cup {k}
      /\ UNCHANGED <<scheduled, due, batch, hand, dropped>> /\ Lists!TypeOK
  BY DEF Lists!EnqueueTask, ListInv, ListTyped
<1> HIDE DEF t
<1>3. ListTyped'
  BY <1>1, <1>2, PushCounts DEF ListInv, ListTyped, Lists!TypeOK, FirstTime, ReadFirstTime
<1>4. ASSUME NEW j \in Tasks PROVE TaskKept(j)'
  <2>1. /\ TaskKept(j) /\ Lists!CopiesOf(j) \in Nat
        /\ Reading(j)' = Reading(j) /\ Waiting(j)' = Waiting(j)
    BY <1>2, CopiesTyped DEF ListInv, Reading, Waiting
  <2>2. CASE j = k
    <3>1. InListCard(q, j)' = InListCard(q, j) + 1
      BY <1>1, <1>2, <2>2, PushCounts
    <3>2. Lists!CopiesOf(j)' = Lists!CopiesOf(j) + 1 + 0
      <4>1. InHandCard(j)' = InHandCard(j) + 0
        BY <1>2, SameHands, InHandFinite
      <4> QED  BY <1>1, <1>2, <3>1, <4>1, PushCounts, CopiesAfter
    <3>3. Cardinality(Reading(j)) = 0 /\ Cardinality(Movers) >= 1
      BY <1>2, <2>1, <2>2, ReadingFinite, FS_EmptySet DEF TaskKept
    <3> QED  BY <1>2, <2>1, <2>2, <3>2, <3>3, ReadingFinite DEF TaskKept
  <2>3. CASE j # k
    <3>1. InListCard(q, j)' = InListCard(q, j) + 0
      BY <1>1, <1>2, <2>3, PushCounts
    <3>2. Lists!CopiesOf(j)' = Lists!CopiesOf(j) + 0 + 0
      <4>1. InHandCard(j)' = InHandCard(j) + 0
        BY <1>2, SameHands, InHandFinite
      <4> QED  BY <1>1, <1>2, <3>1, <4>1, PushCounts, CopiesAfter
    <3> QED  BY <1>2, <2>1, <2>3, <3>2, Undisturbed
  <2> QED  BY <2>2, <2>3
<1> QED  BY <1>3, <1>4 DEF ListInv

\* Lists and hands stay: the copies do.
LEMMA SameCopies ==
  ASSUME list' = list, hand' = hand, NEW k
  PROVE  Lists!CopiesOf(k)' = Lists!CopiesOf(k)
BY DEF Lists!CopiesOf, Lists!InList, Lists!InHand

LEMMA ScheduleTaskKeeps ==
  ASSUME ListInv, NEW k \in Tasks, Lists!ScheduleTask(k)
  PROVE  ListInv'
<1> DEFINE t == [id |-> k, retry |-> 0]
<1>1. t \in Lists!Task /\ t.id = k /\ t.retry = 0
  BY ListParameters DEF Lists!Task
<1>2. /\ k \notin asked /\ scheduled' = scheduled \cup {t} /\ asked' = asked \cup {k}
      /\ UNCHANGED <<due, list, batch, hand, dropped>>
  BY DEF Lists!ScheduleTask
<1> HIDE DEF t
<1>3. ListTyped'
  BY <1>1, <1>2 DEF ListInv, ListTyped, Lists!TypeOK, FirstTime, ReadFirstTime
<1>4. ASSUME NEW j \in Tasks PROVE TaskKept(j)'
  <2>1. /\ TaskKept(j) /\ Reading(j)' = Reading(j)
        /\ Lists!CopiesOf(j)' = Lists!CopiesOf(j)
        /\ Waiting(j)' <=> Waiting(j) \/ j = k
    BY <1>1, <1>2, SameReading, SameCopies DEF ListInv, Waiting
  <2>2. CASE j = k
    BY <1>2, <2>1, <2>2 DEF TaskKept
  <2>3. CASE j # k
    BY <1>2, <2>1, <2>3, Undisturbed
  <2> QED  BY <2>2, <2>3
<1> QED  BY <1>3, <1>4 DEF ListInv

LEMMA ComeDueKeeps ==
  ASSUME ListInv, NEW t \in Lists!Task, Lists!ComeDue(t)
  PROVE  ListInv'
<1>1. due' = due \cup {t} /\ UNCHANGED <<scheduled, list, batch, hand, asked, dropped>>
  BY DEF Lists!ComeDue
<1>2. ListTyped'
  BY <1>1 DEF ListInv, ListTyped, Lists!TypeOK, FirstTime, ReadFirstTime
<1>3. ASSUME NEW j \in Tasks PROVE TaskKept(j)'
  <2>1. /\ TaskKept(j) /\ Reading(j)' = Reading(j) /\ Lists!CopiesOf(j)' = Lists!CopiesOf(j)
        /\ Waiting(j)' <=> Waiting(j)
    BY <1>1, SameReading, SameCopies DEF ListInv, Waiting
  <2> QED  BY <1>1, <2>1, Undisturbed
<1> QED  BY <1>2, <1>3 DEF ListInv

\* What a mover reads is in the set, and no copy of it has been made.
LEMMA ReadDueKeeps ==
  ASSUME ListInv, NEW m \in Movers, Lists!ReadDue(m)
  PROVE  ListInv'
<1>1. PICK B \in SUBSET (due \cap scheduled) : batch' = [batch EXCEPT ![m] = B]
  BY DEF Lists!ReadDue
<1>2. /\ batch[m] = {} /\ UNCHANGED <<scheduled, due, list, hand, asked, dropped>>
      /\ ListTyped
  BY DEF Lists!ReadDue, ListInv
<1>3. /\ batch' \in [Movers -> SUBSET Lists!Task] /\ batch'[m] = B /\ B \subseteq scheduled
      /\ \A n \in Movers \ {m} : batch'[n] = batch[n]
  BY <1>1, <1>2 DEF ListTyped, Lists!TypeOK
<1>4. ListTyped'
  BY <1>2, <1>3 DEF ListTyped, Lists!TypeOK, FirstTime, ReadFirstTime
<1>5. ASSUME NEW j \in Tasks PROVE TaskKept(j)'
  <2>1. /\ TaskKept(j) /\ Lists!CopiesOf(j)' = Lists!CopiesOf(j) /\ Lists!CopiesOf(j) \in Nat
        /\ (Waiting(j)' <=> Waiting(j)) /\ asked' = asked /\ dropped' = dropped
    BY <1>2, SameCopies, CopiesTyped DEF ListInv, ListTyped, Waiting
  <2>2. CASE Waiting(j)
    <3>1. Cardinality(Reading(j)') <= Cardinality(Movers) /\ Cardinality(Reading(j)') \in Nat
      <4>1. Reading(j)' \subseteq Movers
        BY DEF Reading
      <4> QED  BY <4>1, ListParameters, FS_Subset, FS_CardinalityType
    <3>2. Lists!CopiesOf(j)' + Cardinality(Reading(j)') <= Cardinality(Movers)
      BY <2>1, <2>2, <3>1, ReadingFinite DEF TaskKept
    <3>3. j \in asked
      BY <2>1, <2>2 DEF TaskKept
    <3> QED  BY <2>1, <2>2, <3>2, <3>3 DEF TaskKept
  <2>3. CASE ~Waiting(j)
    <3>1. Reading(j)' = Reading(j)
      BY <1>2, <1>3, <2>3 DEF Reading, Waiting
    <3> QED  BY <2>1, <3>1, Undisturbed
  <2> QED  BY <2>2, <2>3
<1> QED  BY <1>4, <1>5 DEF ListInv

\* A mover goes through what it has read: of one task it has one entry.
LEMMA ReadingAfter ==
  ASSUME ListTyped, NEW m \in Movers, NEW t \in batch[m], batch' = [batch EXCEPT ![m] = @ \ {t}],
         NEW k
  PROVE  /\ batch' \in [Movers -> SUBSET Lists!Task]
         /\ \A n \in Movers : batch'[n] \subseteq batch[n]
         /\ Reading(k)' = IF t.id = k THEN Reading(k) \ {m} ELSE Reading(k)
         /\ t.id = k => m \in Reading(k)
<1>1. /\ batch' \in [Movers -> SUBSET Lists!Task] /\ batch'[m] = batch[m] \ {t}
      /\ \A n \in Movers \ {m} : batch'[n] = batch[n]
  BY DEF ListTyped, Lists!TypeOK
<1>2. \A u \in batch[m] : u.id = t.id => u = t
  <2> SUFFICES ASSUME NEW u \in batch[m], u.id = t.id PROVE u = t
    OBVIOUS
  <2>1. u \in Lists!Task /\ t \in Lists!Task /\ u.retry = t.retry
    BY DEF ListTyped, Lists!TypeOK, ReadFirstTime
  <2> QED  BY <2>1 DEF Lists!Task
<1> QED  BY <1>1, <1>2 DEF Reading

LEMMA RemoveScheduledKeeps ==
  ASSUME ListInv, NEW m \in Movers, Lists!RemoveScheduled(m)
  PROVE  ListInv'
<1>1. PICK t \in batch[m] :
         /\ batch' = [batch EXCEPT ![m] = @ \ {t}]
         /\ \/ scheduled' = scheduled \ {t} /\ Lists!Hold(m, t)
            \/ UNCHANGED <<scheduled, hand>>
  BY DEF Lists!RemoveScheduled
<1>2. hand[m] = None /\ UNCHANGED <<due, list, asked, dropped>> /\ ListTyped /\ Lists!TypeOK
  BY DEF Lists!RemoveScheduled, ListInv, ListTyped
<1>3. t \in Lists!Task /\ t.retry = 0 /\ t.id \in Tasks /\ m \in Movers \cup Consumers
  BY <1>2 DEF ListTyped, Lists!TypeOK, ReadFirstTime, Lists!Task
<1>4. /\ hand' \in [Movers \cup Consumers -> Lists!Task \cup {None}]
      /\ scheduled' \subseteq scheduled
  BY <1>1, <1>2, <1>3, TakeCounts DEF Lists!TypeOK
<1>5. ListTyped'
  BY <1>1, <1>2, <1>4, ReadingAfter DEF ListTyped, Lists!TypeOK, FirstTime, ReadFirstTime
<1>6. ASSUME NEW j \in Tasks PROVE TaskKept(j)'
  <2>1. /\ TaskKept(j) /\ Lists!CopiesOf(j) \in Nat /\ asked' = asked /\ dropped' = dropped
        /\ Cardinality(Reading(j)) \in Nat /\ IsFiniteSet(Reading(j))
        /\ Cardinality(Movers) \in Nat
    BY <1>2, CopiesTyped, ReadingFinite DEF ListInv
  <2>2. /\ Reading(j)' = IF t.id = j THEN Reading(j) \ {m} ELSE Reading(j)
        /\ t.id = j => m \in Reading(j)
    BY <1>1, <1>2, ReadingAfter
  <2>3. Cardinality(Reading(j)') =
           IF t.id = j THEN Cardinality(Reading(j)) - 1 ELSE Cardinality(Reading(j))
    BY <2>1, <2>2, FS_RemoveElement
  <2>4. CASE UNCHANGED <<scheduled, hand>>
    <3>1. Lists!CopiesOf(j)' = Lists!CopiesOf(j) /\ (Waiting(j)' <=> Waiting(j))
      BY <1>2, <2>4, SameCopies DEF Waiting
    <3>2. Reading(j) = {} => Reading(j)' = {}
      BY <2>2
    <3> QED  BY <2>1, <2>3, <3>1, <3>2 DEF TaskKept
  <2>5. CASE scheduled' = scheduled \ {t} /\ Lists!Hold(m, t)
    <3>1. InHandCard(j)' = InHandCard(j) + (IF t.id = j THEN 1 ELSE 0)
      BY <1>2, <1>3, <2>5, TakeCounts
    <3>2. Lists!CopiesOf(j)' = Lists!CopiesOf(j) + 0 + (IF t.id = j THEN 1 ELSE 0)
      <4>1. InListCard("high", j)' = InListCard("high", j) + 0 /\ "high" \in Lists!Lists
        BY <1>2, SameLists, InListFinite DEF Lists!Lists
      <4> QED  BY <1>2, <3>1, <4>1, SameLists, CopiesAfter
    <3>3. CASE t.id = j
      <4>1. ~Waiting(j)'
        <5>1. \A u \in scheduled : u.id = j => u = t
          <6> SUFFICES ASSUME NEW u \in scheduled, u.id = j PROVE u = t
            OBVIOUS
          <6>1. u \in Lists!Task /\ u.retry = t.retry /\ u.id = t.id
            BY <1>2, <1>3, <3>3 DEF ListTyped, Lists!TypeOK, FirstTime
          <6> QED  BY <1>3, <6>1 DEF Lists!Task
        <5> QED  BY <2>5, <5>1 DEF Waiting
      <4>2. j \in asked
        BY <2>1, <2>2, <3>3 DEF TaskKept
      <4> QED  BY <2>1, <2>3, <3>2, <3>3, <4>1, <4>2 DEF TaskKept
    <3>4. CASE t.id # j
      <4>1. Waiting(j)' <=> Waiting(j)
        BY <2>5, <3>4 DEF Waiting
      <4> QED  BY <2>1, <2>2, <3>2, <3>4, <4>1, Undisturbed
    <3> QED  BY <3>3, <3>4
  <2> QED  BY <1>1, <2>4, <2>5
<1> QED  BY <1>5, <1>6 DEF ListInv

\* Whatever loses a copy is told of it.
LEMMA CopyMoves ==
  ASSUME ListInv, NEW k \in Tasks, UNCHANGED <<scheduled, asked>>, dropped \subseteq dropped',
         Lists!CopiesOf(k)' \in Nat, Lists!CopiesOf(k)' <= Lists!CopiesOf(k),
         Lists!CopiesOf(k)' = Lists!CopiesOf(k) \/ k \in dropped',
         Reading(k)' \subseteq Reading(k)
  PROVE  TaskKept(k)'
<1>1. TaskKept(k) /\ Lists!CopiesOf(k) \in Nat /\ (Waiting(k)' <=> Waiting(k))
  BY CopiesTyped DEF ListInv, ListTyped, Waiting
<1>2. /\ Cardinality(Reading(k)') <= Cardinality(Reading(k)) /\ Cardinality(Reading(k)') \in Nat
      /\ Cardinality(Reading(k)) \in Nat /\ Cardinality(Movers) \in Nat
  BY ReadingFinite, FS_Subset, FS_CardinalityType
<1> QED  BY <1>1, <1>2 DEF TaskKept

LEMMA PushDueKeeps ==
  ASSUME ListInv, NEW m \in Movers, Lists!PushDue(m)
  PROVE  ListInv'
<1>1. /\ hand[m] # None /\ Lists!Hold(m, None) /\ UNCHANGED <<scheduled, due, batch, asked>>
      /\ \/ \E q \in {"high", "default"} : Lists!LPush(q, hand[m]) /\ UNCHANGED dropped
         \/ Lists!Drop({hand[m].id}) /\ UNCHANGED list
  BY DEF Lists!PushDue
<1>2. ListTyped /\ Lists!TypeOK /\ m \in Movers \cup Consumers
  BY DEF ListInv, ListTyped
<1> DEFINE t == hand[m]
<1>3. t \in Lists!Task /\ hand' \in [Movers \cup Consumers -> Lists!Task \cup {None}]
  BY <1>1, <1>2, DropCounts
<1>4. t.id \in Tasks
  BY <1>3 DEF Lists!Task
<1>5. CASE Lists!Drop({t.id}) /\ UNCHANGED list
  <2>1. dropped' = dropped \cup {t.id}
    BY <1>5 DEF Lists!Drop
  <2>2. ListTyped'
    BY <1>1, <1>2, <1>3, <1>4, <1>5, <2>1
       DEF ListTyped, Lists!TypeOK, FirstTime, ReadFirstTime
  <2>3. ASSUME NEW j \in Tasks PROVE TaskKept(j)'
    <3>1. Lists!CopiesOf(j)' = Lists!CopiesOf(j) + 0 + (IF t.id = j THEN -1 ELSE 0)
      <4>1. InListCard("high", j)' = InListCard("high", j) + 0 /\ "high" \in Lists!Lists
        BY <1>2, <1>5, SameLists, InListFinite DEF Lists!Lists
      <4> QED  BY <1>1, <1>2, <1>5, <4>1, SameLists, DropCounts, CopiesAfter
    <3>2. Lists!CopiesOf(j) \in Nat /\ Lists!CopiesOf(j)' \in Nat
      BY <1>2, <2>2, CopiesTyped, CopiesTypedNext DEF ListTyped, CopiesCounted
    <3> QED  BY <1>1, <2>1, <3>1, <3>2, SameReading, CopyMoves
  <2> QED  BY <2>2, <2>3 DEF ListInv
<1>6. ASSUME NEW q \in {"high", "default"}, Lists!LPush(q, t), UNCHANGED dropped PROVE ListInv'
  <2>1. q \in Lists!Lists
    BY DEF Lists!Lists
  <2>2. ListTyped'
    BY <1>1, <1>2, <1>3, <1>6, <2>1, PushCounts
       DEF ListTyped, Lists!TypeOK, FirstTime, ReadFirstTime
  <2>3. ASSUME NEW j \in Tasks PROVE TaskKept(j)'
    <3> DEFINE d == IF t.id = j THEN 1 ELSE 0
               e == IF t.id = j THEN -1 ELSE 0
    <3>1. InHandCard(j)' = InHandCard(j) + e
      BY <1>1, <1>2, DropCounts
    <3>2. /\ InListCard(q, j)' = InListCard(q, j) + d
          /\ \A x \in Lists!Lists \ {q} : InListCard(x, j)' = InListCard(x, j)
      BY <1>2, <1>3, <1>6, <2>1, PushCounts
    <3>3. d \in Int /\ e \in Int /\ d + e = 0
      OBVIOUS
    <3> HIDE DEF d, e
    <3>4. Lists!CopiesOf(j)' = Lists!CopiesOf(j) + d + e
      BY <1>2, <2>1, <3>1, <3>2, <3>3, CopiesAfter
    <3>5. Lists!CopiesOf(j) \in Nat
      BY <1>2, CopiesTyped
    <3>6. Lists!CopiesOf(j)' = Lists!CopiesOf(j)
      BY <3>3, <3>4, <3>5
    <3> QED  BY <1>1, <1>6, <3>5, <3>6, SameReading, CopyMoves
  <2> QED  BY <2>2, <2>3 DEF ListInv
<1> QED  BY <1>1, <1>5, <1>6

LEMMA MoverCrashKeeps ==
  ASSUME ListInv, NEW m \in Movers, Lists!Crash(m)
  PROVE  ListInv'
<1> DEFINE D == IF hand[m] = None THEN {} ELSE {hand[m].id}
<1>1. /\ Lists!Hold(m, None) /\ batch' = [batch EXCEPT ![m] = {}] /\ dropped' = dropped \cup D
      /\ UNCHANGED <<scheduled, due, list, asked>>
  BY DEF Lists!Crash, Lists!Drop
<1>2. ListTyped /\ Lists!TypeOK /\ m \in Movers \cup Consumers
  BY DEF ListInv, ListTyped
<1>3. D \subseteq Tasks
  BY <1>2 DEF Lists!TypeOK, Lists!Task
<1> HIDE DEF D
<1>4. /\ batch' \in [Movers -> SUBSET Lists!Task]
      /\ \A n \in Movers : batch'[n] \subseteq batch[n]
  BY <1>1, <1>2 DEF Lists!TypeOK
<1>5. hand' \in [Movers \cup Consumers -> Lists!Task \cup {None}]
  BY <1>1, <1>2 DEF Lists!TypeOK, Lists!Hold
<1>6. ListTyped'
  BY <1>1, <1>2, <1>3, <1>4, <1>5 DEF ListTyped, Lists!TypeOK, FirstTime, ReadFirstTime
<1>7. ASSUME NEW j \in Tasks PROVE TaskKept(j)'
  <2>1. Reading(j)' \subseteq Reading(j)
    BY <1>4 DEF Reading
  <2>2. Lists!CopiesOf(j) \in Nat /\ Lists!CopiesOf(j)' \in Nat
    BY <1>2, <1>6, CopiesTyped, CopiesTypedNext DEF ListTyped, CopiesCounted
  <2>3. CASE hand[m] = None
    <3>1. hand' = hand
      BY <1>1, <1>2, <2>3 DEF Lists!Hold, Lists!TypeOK
    <3>2. Lists!CopiesOf(j)' = Lists!CopiesOf(j)
      BY <1>1, <3>1, SameCopies
    <3> QED  BY <1>1, <2>1, <2>2, <3>2, CopyMoves
  <2>4. CASE hand[m] # None
    <3>1. Lists!CopiesOf(j)' = Lists!CopiesOf(j) + 0 + (IF hand[m].id = j THEN -1 ELSE 0)
      <4>1. InListCard("high", j)' = InListCard("high", j) + 0 /\ "high" \in Lists!Lists
        BY <1>1, <1>2, SameLists, InListFinite DEF Lists!Lists
      <4> QED  BY <1>1, <1>2, <2>4, <4>1, SameLists, DropCounts, CopiesAfter
    <3>2. hand[m].id = j => j \in dropped'
      BY <1>1, <2>4 DEF D
    <3> QED  BY <1>1, <2>1, <2>2, <3>1, <3>2, CopyMoves
  <2> QED  BY <2>3, <2>4
<1> QED  BY <1>6, <1>7 DEF ListInv

LEMMA DequeueTaskKeeps ==
  ASSUME ListInv, NEW c \in Consumers, Lists!DequeueTask(c)
  PROVE  ListInv'
<1>1. PICK q \in {"high", "default", "low"} :
         /\ list[q] # <<>> /\ Lists!Hold(c, Lists!Last(list[q]))
         /\ list' = [list EXCEPT ![q] = Lists!Front(@)]
  BY DEF Lists!DequeueTask
<1>2. /\ hand[c] = None /\ UNCHANGED <<scheduled, due, batch, asked, dropped>>
      /\ ListTyped /\ Lists!TypeOK /\ c \in Movers \cup Consumers /\ q \in Lists!Lists
      /\ list' = [list EXCEPT ![q] = Lists!Front(list[q])]
  BY <1>1 DEF Lists!DequeueTask, ListInv, ListTyped, Lists!Lists
<1> DEFINE t == Lists!Last(list[q])
<1>3. t \in Lists!Task /\ list' \in [Lists!Lists -> Seq(Lists!Task)]
  BY <1>1, <1>2, PopCounts
<1>4. hand' \in [Movers \cup Consumers -> Lists!Task \cup {None}]
  BY <1>1, <1>2, <1>3, TakeCounts
<1>5. ListTyped'
  BY <1>2, <1>3, <1>4 DEF ListTyped, Lists!TypeOK, FirstTime, ReadFirstTime
<1>6. ASSUME NEW j \in Tasks PROVE TaskKept(j)'
  <2> DEFINE d == IF t.id = j THEN -1 ELSE 0
             e == IF t.id = j THEN 1 ELSE 0
  <2>1. InHandCard(j)' = InHandCard(j) + e
    BY <1>1, <1>2, <1>3, TakeCounts
  <2>2. /\ InListCard(q, j)' = InListCard(q, j) + d
        /\ \A x \in Lists!Lists \ {q} : InListCard(x, j)' = InListCard(x, j)
    BY <1>1, <1>2, PopCounts
  <2>3. d \in Int /\ e \in Int /\ d + e = 0
    OBVIOUS
  <2> HIDE DEF d, e
  <2>4. Lists!CopiesOf(j)' = Lists!CopiesOf(j) + d + e
    BY <1>2, <2>1, <2>2, <2>3, CopiesAfter
  <2>5. Lists!CopiesOf(j) \in Nat
    BY <1>2, CopiesTyped
  <2>6. Lists!CopiesOf(j)' = Lists!CopiesOf(j)
    BY <2>3, <2>4, <2>5
  <2> QED  BY <1>2, <2>5, <2>6, SameReading, CopyMoves
<1> QED  BY <1>5, <1>6 DEF ListInv

LEMMA RetryKeeps ==
  ASSUME ListInv, NEW c \in Consumers, Lists!RetryFailedTask(c)
  PROVE  ListInv'
<1> DEFINE t == hand[c]
           up == [t EXCEPT !.retry = t.retry + 1]
<1>1. /\ t # None /\ Lists!Hold(c, None) /\ UNCHANGED <<scheduled, due, batch, asked, dropped>>
      /\ IF t.retry >= MaxRetries THEN Lists!LPush("failed", t) ELSE Lists!LPush("low", up)
  BY DEF Lists!RetryFailedTask
<1>2. ListTyped /\ Lists!TypeOK /\ c \in Movers \cup Consumers
  BY DEF ListInv, ListTyped
<1>3. t \in Lists!Task /\ hand' \in [Movers \cup Consumers -> Lists!Task \cup {None}]
  BY <1>1, <1>2, DropCounts
<1>4. \E q \in Lists!Lists, u \in Lists!Task : u.id = t.id /\ Lists!LPush(q, u)
  <2>1. CASE t.retry >= MaxRetries
    BY <1>1, <1>3, <2>1 DEF Lists!Lists
  <2>2. CASE ~(t.retry >= MaxRetries)
    <3>1. up \in Lists!Task /\ up.id = t.id
      BY <1>3, <2>2, ListParameters DEF Lists!Task
    <3> QED  BY <1>1, <2>2, <3>1 DEF Lists!Lists
  <2> QED  BY <2>1, <2>2
<1>5. PICK q \in Lists!Lists, u \in Lists!Task : u.id = t.id /\ Lists!LPush(q, u)
  BY <1>4
<1>6. ListTyped'
  BY <1>1, <1>2, <1>3, <1>5, PushCounts DEF ListTyped, Lists!TypeOK, FirstTime, ReadFirstTime
<1>7. ASSUME NEW j \in Tasks PROVE TaskKept(j)'
  <2> DEFINE d == IF t.id = j THEN 1 ELSE 0
             e == IF t.id = j THEN -1 ELSE 0
  <2>1. InHandCard(j)' = InHandCard(j) + e
    BY <1>1, <1>2, DropCounts
  <2>2. /\ InListCard(q, j)' = InListCard(q, j) + d
        /\ \A x \in Lists!Lists \ {q} : InListCard(x, j)' = InListCard(x, j)
    <3>1. d = IF u.id = j THEN 1 ELSE 0
      BY <1>5
    <3> QED  BY <1>2, <1>5, <3>1, PushCounts
  <2>3. d \in Int /\ e \in Int /\ d + e = 0
    OBVIOUS
  <2> HIDE DEF d, e
  <2>4. Lists!CopiesOf(j)' = Lists!CopiesOf(j) + d + e
    BY <1>2, <2>1, <2>2, <2>3, CopiesAfter
  <2>5. Lists!CopiesOf(j) \in Nat
    BY <1>2, CopiesTyped
  <2>6. Lists!CopiesOf(j)' = Lists!CopiesOf(j)
    BY <2>3, <2>4, <2>5
  <2> QED  BY <1>1, <2>5, <2>6, SameReading, CopyMoves
<1> QED  BY <1>6, <1>7 DEF ListInv

LEMMA FinishKeeps ==
  ASSUME ListInv, NEW c \in Consumers, Lists!Finish(c)
  PROVE  ListInv'
<1>1. /\ hand[c] # None /\ Lists!Hold(c, None) /\ dropped' = dropped \cup {hand[c].id}
      /\ UNCHANGED <<scheduled, due, list, batch, asked>>
  BY DEF Lists!Finish, Lists!Drop
<1>2. ListTyped /\ Lists!TypeOK /\ c \in Movers \cup Consumers
  BY DEF ListInv, ListTyped
<1>3. /\ hand[c] \in Lists!Task /\ hand[c].id \in Tasks
      /\ hand' \in [Movers \cup Consumers -> Lists!Task \cup {None}]
  BY <1>1, <1>2, DropCounts DEF Lists!Task
<1>4. ListTyped'
  BY <1>1, <1>2, <1>3 DEF ListTyped, Lists!TypeOK, FirstTime, ReadFirstTime
<1>5. ASSUME NEW j \in Tasks PROVE TaskKept(j)'
  <2>1. Lists!CopiesOf(j)' = Lists!CopiesOf(j) + 0 + (IF hand[c].id = j THEN -1 ELSE 0)
    <3>1. InListCard("high", j)' = InListCard("high", j) + 0 /\ "high" \in Lists!Lists
      BY <1>1, <1>2, SameLists, InListFinite DEF Lists!Lists
    <3> QED  BY <1>1, <1>2, <3>1, SameLists, DropCounts, CopiesAfter
  <2>2. Lists!CopiesOf(j) \in Nat /\ Lists!CopiesOf(j)' \in Nat
    BY <1>2, <1>4, CopiesTyped, CopiesTypedNext DEF ListTyped, CopiesCounted
  <2> QED  BY <1>1, <2>1, <2>2, SameReading, CopyMoves
<1> QED  BY <1>4, <1>5 DEF ListInv

LEMMA ClearQueueKeeps ==
  ASSUME ListInv, NEW q \in Lists!Lists, Lists!ClearQueue(q)
  PROVE  ListInv'
<1> DEFINE s == list[q]
<1>1. /\ list' = [list EXCEPT ![q] = <<>>]
      /\ dropped' = dropped \cup {t.id : t \in Lists!ToSet(s)}
      /\ UNCHANGED <<scheduled, due, batch, hand, asked>>
  BY DEF Lists!ClearQueue, Lists!Drop
<1>2. ListTyped /\ Lists!TypeOK /\ s \in Seq(Lists!Task)
  BY DEF ListInv, ListTyped, Lists!TypeOK
<1>3. Lists!ToSet(s) = {s[i] : i \in DOMAIN s} /\ \A i \in DOMAIN s : s[i] \in Lists!Task
  BY <1>2 DEF Lists!ToSet
<1>4. dropped' \subseteq Tasks
  BY <1>1, <1>2, <1>3 DEF Lists!TypeOK, Lists!Task
<1>5. list' \in [Lists!Lists -> Seq(Lists!Task)] /\ list'[q] = <<>>
  BY <1>1, <1>2 DEF Lists!TypeOK
<1>6. ListTyped'
  BY <1>1, <1>2, <1>4, <1>5 DEF ListTyped, Lists!TypeOK, FirstTime, ReadFirstTime
<1>7. ASSUME NEW j \in Tasks PROVE TaskKept(j)'
  <2>1. InListCard(q, j)' = 0
    <3>1. Lists!InList(q, j)' = {}
      BY <1>5 DEF Lists!InList
    <3> QED  BY <3>1, FS_EmptySet DEF InListCard
  <2>2. InListCard(q, j) \in Nat /\ InHandCard(j) \in Nat
    BY <1>2, InListFinite, InHandFinite
  <2> DEFINE d == 0 - InListCard(q, j)
  <2>3. d \in Int /\ InListCard(q, j)' = InListCard(q, j) + d
    BY <2>1, <2>2
  <2> HIDE DEF d
  <2>4. Lists!CopiesOf(j)' = Lists!CopiesOf(j) + d + 0
    <3>1. InHandCard(j)' = InHandCard(j) + 0
      BY <1>1, <2>2, SameHands
    <3>2. \A x \in Lists!Lists \ {q} : InListCard(x, j)' = InListCard(x, j)
      BY <1>1, <1>2, OtherLists
    <3>3. 0 \in Int
      OBVIOUS
    <3> QED  BY ONLY q \in Lists!Lists, <1>2, <2>3, <3>1, <3>2, <3>3, CopiesAfter
  <2>5. Lists!CopiesOf(j) \in Nat /\ Lists!CopiesOf(j)' \in Nat
    BY <1>2, <1>6, CopiesTyped, CopiesTypedNext DEF ListTyped, CopiesCounted
  <2>6. Lists!CopiesOf(j)' <= Lists!CopiesOf(j)
    BY <2>2, <2>3, <2>4, <2>5 DEF d
  <2>7. CASE Lists!InList(q, j) = {}
    <3>1. InListCard(q, j) = 0
      BY <2>7, FS_EmptySet DEF InListCard
    <3>2. Lists!CopiesOf(j)' = Lists!CopiesOf(j)
      BY <2>4, <2>5, <3>1 DEF d
    <3> QED  BY <1>1, <2>5, <3>2, SameReading, CopyMoves
  <2>8. CASE Lists!InList(q, j) # {}
    <3>1. PICK i \in DOMAIN s : s[i].id = j
      BY <2>8 DEF Lists!InList
    <3>2. j \in dropped'
      BY <1>1, <1>3, <3>1
    <3> QED  BY <1>1, <2>5, <2>6, <3>2, SameReading, CopyMoves
  <2> QED  BY <2>7, <2>8
<1> QED  BY <1>6, <1>7 DEF ListInv

-----------------------------------------------------------------------------

LEMMA InitListInv == Lists!Init => ListInv
<1> SUFFICES ASSUME Lists!Init PROVE ListInv
  OBVIOUS
<1>1. ListTyped
  BY DEF Lists!Init, ListTyped, Lists!TypeOK, FirstTime, ReadFirstTime, Lists!Lists
<1>2. ASSUME NEW k \in Tasks PROVE TaskKept(k)
  <2>1. \A q \in Lists!Lists : InListCard(q, k) = 0
    <3>1. \A q \in Lists!Lists : Lists!InList(q, k) = {}
      BY DEF Lists!Init, Lists!InList
    <3> QED  BY <3>1, FS_EmptySet DEF InListCard
  <2>2. InHandCard(k) = 0
    <3>1. Lists!InHand(k) = {}
      BY DEF Lists!Init, Lists!InHand
    <3> QED  BY <3>1, FS_EmptySet DEF InHandCard
  <2>3. Lists!CopiesOf(k) = 0
    BY <2>1, <2>2, Copies DEF Lists!Lists
  <2>4. Reading(k) = {} /\ ~Waiting(k) /\ k \notin asked
    BY DEF Lists!Init, Reading, Waiting
  <2> QED  BY <2>3, <2>4, ReadingFinite DEF TaskKept
<1> QED  BY <1>1, <1>2 DEF ListInv

LEMMA NextListInv == ListInv /\ [Lists!Next]_(Lists!vars) => ListInv'
<1> SUFFICES ASSUME ListInv, [Lists!Next]_(Lists!vars) PROVE ListInv'
  OBVIOUS
<1>1. CASE UNCHANGED Lists!vars
  <2>1. UNCHANGED <<scheduled, due, list, batch, hand, asked, dropped>>
    BY <1>1 DEF Lists!vars
  <2>2. ListTyped'
    BY <2>1 DEF ListInv, ListTyped, Lists!TypeOK, FirstTime, ReadFirstTime
  <2>3. ASSUME NEW k \in Tasks PROVE TaskKept(k)'
    <3>1. Lists!CopiesOf(k)' = Lists!CopiesOf(k) /\ Reading(k)' = Reading(k)
          /\ (Waiting(k)' <=> Waiting(k)) /\ TaskKept(k)
      BY <2>1, SameCopies, SameReading DEF Waiting, ListInv
    <3> QED  BY <2>1, <3>1, Undisturbed
  <2> QED  BY <2>2, <2>3 DEF ListInv
<1> QED  BY <1>1, EnqueueTaskKeeps, ScheduleTaskKeeps, ComeDueKeeps, ReadDueKeeps,
            RemoveScheduledKeeps, PushDueKeeps, MoverCrashKeeps, DequeueTaskKeeps, RetryKeeps,
            FinishKeeps, ClearQueueKeeps DEF Lists!Next

LEMMA ListsOfAll == Spec => Lists!Spec
<1>1. Init => Lists!Init
  BY DEF Init
<1>2. [Next]_vars => [Lists!Next]_(Lists!vars)
  BY DEF Next, vars, listVars, DocumentsStep, LogsStep, ListsStep, Lists!vars
<1> QED  BY <1>1, <1>2, PTL DEF Spec, Lists!Spec

\* However movers overlap, fail and die: a task given to QueueService is somewhere unless
\* something took it, and there are never more copies of it than movers.
THEOREM NoTaskIsLost == Spec => []ListsHold
<1>1. ListInv => ListsHold
  <2> SUFFICES ASSUME ListInv PROVE ListsHold
    OBVIOUS
  <2>1. Lists!TypeOK /\ asked \subseteq Tasks
    BY DEF ListInv, ListTyped, Lists!TypeOK
  <2>2. Lists!Accounted
    BY <2>1 DEF ListInv, TaskKept, Waiting, Lists!Accounted
  <2>3. Lists!CopiesBounded
    <3> SUFFICES ASSUME NEW k \in Tasks
                 PROVE  Lists!CopiesOf(k) <= Lists!Cardinality(Movers)
      BY DEF Lists!CopiesBounded
    <3>1. Lists!Cardinality(Movers) = Cardinality(Movers)
      BY DEF Lists!Cardinality, Cardinality
    <3>2. Lists!CopiesOf(k) + Cardinality(Reading(k)) <= Cardinality(Movers)
      BY DEF ListInv, TaskKept
    <3>3. Lists!CopiesOf(k) \in Nat
      BY <2>1, CopiesTyped
    <3> QED  BY <3>1, <3>2, <3>3, ReadingFinite
  <2> QED  BY <2>1, <2>2, <2>3 DEF ListsHold
<1>2. Lists!Spec => []ListInv
  BY InitListInv, NextListInv, PTL DEF Lists!Spec
<1> QED  BY <1>1, <1>2, ListsOfAll, PTL
=============================================================================
