--------------------------- MODULE MCWorkflowQueue ---------------------------
(***************************************************************************)
(* Instances of WorkflowQueue for TLC.                                     *)
(***************************************************************************)
EXTENDS WorkflowQueueRefinement, TLC

CONSTANTS lowItem, highItem

\* Two items of different priority.
MCPriority == [i \in Items |-> IF i = highItem THEN 8 ELSE 5]
=============================================================================
