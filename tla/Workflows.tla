------------------------------ MODULE Workflows ------------------------------
(***************************************************************************)
(* The workflows: handlers/workflow.go over services/workflow_service.go   *)
(* over mongodb/workflow_repository.go.                                    *)
(*                                                                         *)
(* An operation reads the document, decides, and sets some of its fields;  *)
(* an action is one access to MongoDB, and requests overtake each other    *)
(* between the read and the write.  Of a document the fields are kept that *)
(* decide whether it runs: the status, the list of steps, the version, the *)
(* flag is_active and deleted_at.  Owners, names, limits and the answers   *)
(* are left out; a request that the validator refuses changes nothing.     *)
(***************************************************************************)
EXTENDS Naturals, FiniteSets

CONSTANTS
    Ids,          \* bound: ids of documents, each given once
    StepLists,    \* lists of steps that the validator of requests lets pass
    WellFormed,   \* those that ValidateWorkflow accepts: named steps, no id twice
    Requests,
    MaxVersion,   \* bound
    None

Asked == {"draft", "active", "inactive", "archived"}
Status == Asked \cup {"deleted"}
Flag == {"unset", "true", "false"}
Workflow == [status : Status, steps : StepLists, version : 1..MaxVersion,
             is_active : Flag, deleted_at : BOOLEAN]

WorkflowsAssumption ==
    /\ WellFormed \subseteq StepLists /\ None \notin StepLists \cup Workflow
    /\ MaxVersion \in Nat \ {0}

VARIABLES
    doc,          \* doc[w]: the document, or None
    call,         \* call[r]: what caller r has read and decided, or None
    wanted,       \* history: wanted[w], the last list of steps written to w
    gone          \* history: workflows whose deletion was answered

history == <<wanted, gone>>
vars == <<doc, call, history>>

Call == [op : {"insert", "update", "toggle", "delete"}, id : Ids \cup {None},
         status : Asked \cup {None}, steps : StepLists \cup {None},
         version : 0..MaxVersion]

Init ==
    /\ doc = [w \in Ids |-> None]
    /\ call = [r \in Requests |-> None]
    /\ wanted = [w \in Ids |-> None]
    /\ gone = {}

At(r, op) == call[r] # None /\ call[r].op = op
Go(r, op, w, status, steps, version) ==
    call' = [call EXCEPT ![r] = [op |-> op, id |-> w, status |-> status,
                                 steps |-> steps, version |-> version]]
Return(r) == call' = [call EXCEPT ![r] = None]

\* GetByID finds a deleted document as well.
Found(w) == doc[w] # None

IsActive(w) ==
    Found(w) /\ doc[w].status = "active" /\ ~doc[w].deleted_at /\ doc[w].is_active # "false"

\* The queries of the repository that look for workflows to run.
GetActiveWorkflows ==
    {w \in Ids : /\ Found(w) /\ doc[w].is_active = "true" /\ ~doc[w].deleted_at
                 /\ doc[w].status \in {"active", "published"}}
FindByWebhookID ==
    {w \in Ids : Found(w) /\ doc[w].is_active = "true" /\ ~doc[w].deleted_at}

-----------------------------------------------------------------------------
(* Create and clone.                                                       *)

\* Defaults() of the model: the flag is set.
SetDefaults(steps) == [status |-> "draft", steps |-> steps, version |-> 1,
                       is_active |-> "true", deleted_at |-> FALSE]

CreateWorkflow(r, steps) ==
    /\ call[r] = None /\ steps \in WellFormed
    /\ Go(r, "insert", None, None, steps, 0)
    /\ UNCHANGED <<doc, history>>

\* A clone starts as a draft, and its steps are not validated again.
CloneWorkflow(r, w) ==
    /\ call[r] = None /\ Found(w)
    /\ Go(r, "insert", None, None, doc[w].steps, 0)
    /\ UNCHANGED <<doc, history>>

\* The document may be refused, or stored without an answer, which is all the same.
InsertWorkflow(r) ==
    /\ At(r, "insert")
    /\ \/ \E w \in Ids :
             /\ ~Found(w)
             /\ doc' = [doc EXCEPT ![w] = SetDefaults(call[r].steps)]
             /\ wanted' = [wanted EXCEPT ![w] = call[r].steps]
       \/ UNCHANGED <<doc, wanted>>
    /\ Return(r)
    /\ UNCHANGED gone

-----------------------------------------------------------------------------
(* Update, toggle and delete.                                              *)

\* The new version is computed from the document that was read.  The status asked
\* for is one of four, and is not looked at with the steps.
UpdateWorkflow(r, w) ==
    /\ call[r] = None /\ Found(w)
    /\ \E status \in Asked \cup {None}, steps \in StepLists \cup {None} :
           /\ steps # None => doc[w].version < MaxVersion
           /\ Go(r, "update", w, status, steps,
                 IF steps = None THEN 0 ELSE doc[w].version + 1)
    /\ UNCHANGED <<doc, history>>

\* Update of the repository: $set of the fields given.
Set(w, status, steps, version) ==
    doc' = [doc EXCEPT ![w] =
        [status |-> IF status = None THEN @.status ELSE status,
         steps |-> IF steps = None THEN @.steps ELSE steps,
         version |-> IF steps = None THEN @.version ELSE version,
         is_active |-> @.is_active, deleted_at |-> @.deleted_at]]

WriteUpdate(r) ==
    LET c == call[r] IN
    /\ At(r, "update")
    /\ Set(c.id, c.status, c.steps, c.version)
    /\ wanted' = [wanted EXCEPT ![c.id] = IF c.steps = None THEN @ ELSE c.steps]
    /\ Return(r)
    /\ UNCHANGED gone

\* A workflow is switched on only when it is valid as it was read; off always.
ToggleStatus(r, w) ==
    /\ call[r] = None /\ Found(w)
    /\ \/ doc[w].status = "active" /\ Go(r, "toggle", w, "inactive", doc[w].steps, 0)
       \/ /\ doc[w].status # "active" /\ doc[w].steps \in WellFormed
          /\ Go(r, "toggle", w, "active", doc[w].steps, 0)
    /\ UNCHANGED <<doc, history>>

WriteToggle(r) ==
    /\ At(r, "toggle")
    /\ Set(call[r].id, call[r].status, None, 0)
    /\ Return(r)
    /\ UNCHANGED history

DeleteWorkflow(r, w) ==
    /\ call[r] = None /\ Found(w)
    /\ Go(r, "delete", w, None, None, 0)
    /\ UNCHANGED <<doc, history>>

\* Mutant: the status alone says that the workflow is gone.
Delete_StatusOnly(w) == doc' = [doc EXCEPT ![w].status = "deleted"]

\* The soft deletion.
Delete(w) ==
    doc' = [doc EXCEPT ![w] =
        [status |-> "deleted", steps |-> @.steps, version |-> @.version,
         is_active |-> "false", deleted_at |-> TRUE]]

WriteDelete(r) ==
    /\ At(r, "delete")
    /\ Delete(call[r].id)
    /\ gone' = gone \cup {call[r].id}
    /\ Return(r)
    /\ UNCHANGED wanted

Next ==
    \E r \in Requests :
        \/ \E steps \in StepLists : CreateWorkflow(r, steps)
        \/ \E w \in Ids : \/ CloneWorkflow(r, w) \/ UpdateWorkflow(r, w)
                          \/ ToggleStatus(r, w) \/ DeleteWorkflow(r, w)
        \/ InsertWorkflow(r) \/ WriteUpdate(r) \/ WriteToggle(r) \/ WriteDelete(r)

Spec == Init /\ [][Next]_vars

-----------------------------------------------------------------------------
(* The properties.                                                         *)

\* Every variable has its type.
TypeOK ==
    /\ doc \in [Ids -> Workflow \cup {None}]
    /\ call \in [Requests -> Call \cup {None}]
    /\ wanted \in [Ids -> StepLists \cup {None}]
    /\ gone \subseteq Ids

\* What the repository's queries find to run is what IsActive says of the document:
\* the program has two notions of "active" and they agree on every document, and a
\* webhook leads only to workflows that exist and are not deleted.
QueriesAgree ==
    /\ GetActiveWorkflows = {w \in Ids : IsActive(w)}
    /\ GetActiveWorkflows \subseteq FindByWebhookID

\* A deleted workflow never runs again: an update or a toggle that was under way
\* when it was deleted, or that comes later, may set its status to "active" and does
\* not revive it.
DeletedStaysDead == \A w \in gone : ~IsActive(w)

\* The steps of a workflow are those of the last edit that was written, whatever
\* was switched on, off or deleted meanwhile on the ground of an older copy.
EditsSurvive == \A w \in Ids : Found(w) => doc[w].steps = wanted[w]
=============================================================================
