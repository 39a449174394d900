----------------------------- MODULE TaskLedger -----------------------------
(***************************************************************************)
(* What the workflow queue promises about each item: it waits, runs, waits *)
(* again while its retry budget lasts, and ends completed or failed, which *)
(* are final.  A waiting item can be lost, because taking it from the      *)
(* queue and recording it as processing are two commands; a running one    *)
(* cannot.  Items are independent, and several may move in one step.       *)
(***************************************************************************)
EXTENDS Integers

CONSTANTS Items, MaxRetries

VARIABLES state, tries

States == {"absent", "waiting", "running", "completed", "failed", "lost"}

Move(i, from, to, n) ==
    /\ state[i] = from
    /\ state'[i] = to
    /\ tries'[i] = n

ItemStep(i) ==
    \/ Move(i, "absent", "waiting", 0)                         \* Enqueue*
    \/ Move(i, "waiting", "running", tries[i])                 \* Dequeue
    \/ Move(i, "waiting", "lost", 0)                           \* Dequeue, aborted
    \/ Move(i, "running", "completed", tries[i])               \* MarkCompleted
    \/ /\ tries[i] < MaxRetries                                \* a retry
       /\ Move(i, "running", "waiting", tries[i] + 1)
    \/ /\ tries[i] + 1 >= MaxRetries                           \* giving up
       /\ \E n \in {tries[i], tries[i] + 1} : Move(i, "running", "failed", n)

Init ==
    /\ state = [i \in Items |-> "absent"]
    /\ tries = [i \in Items |-> 0]

Next ==
    \A i \in Items : ItemStep(i) \/ UNCHANGED <<state[i], tries[i]>>

Spec == Init /\ [][Next]_<<state, tries>>
=============================================================================
