------------------------ MODULE WorkflowQueueRefinement ------------------------
(***************************************************************************)
(* How WorkflowQueue implements TaskLedger when each role has one client:  *)
(* the ledger's entry of an item, read off what Redis and a Dequeue hold.  *)
(***************************************************************************)
EXTENDS WorkflowQueue

\* The stage of an item, read off the sets that hold it.
LedgerState ==
    [i \in Items |->
        CASE i \in fresh -> "absent"
          [] Of(queue \cup delayed \cup InHand, i) # {} -> "waiting"
          [] Of(processing, i) # {} -> "running"
          [] Of(completed, i) # {} -> "completed"
          [] Of(failed, i) # {} -> "failed"
          [] OTHER -> "lost"]

LedgerTries ==
    [i \in Items |->
        IF \E x \in Copies(i) : TRUE
        THEN (CHOOSE x \in Copies(i) : TRUE)[2].retry
        ELSE 0]

Ledger == INSTANCE TaskLedger WITH state <- LedgerState, tries <- LedgerTries

\* One client per role implements the ledger, aborted calls included: however the
\* dispatcher's commands, the clean-up's and those of new tasks interleave, and wherever
\* a call breaks off, each item goes the ledger's way.
ImplementsLedger == Ledger!Spec
=============================================================================
