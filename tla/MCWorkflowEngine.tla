--------------------------- MODULE MCWorkflowEngine ---------------------------
(***************************************************************************)
(* Instances of WorkflowEngine for TLC.                                    *)
(***************************************************************************)
EXTENDS WorkflowEngine, TLC

\* Items differ in nothing but their identity.
SamePriority == [i \in Items |-> 5]
Symmetry ==
    Permutations(Items) \cup Permutations(Workers) \cup Permutations(Executions)
=============================================================================
