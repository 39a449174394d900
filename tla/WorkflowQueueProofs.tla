------------------------- MODULE WorkflowQueueProofs -------------------------
(***************************************************************************)
(* Theorems about WorkflowQueue, for any number of items and of clients.   *)
(***************************************************************************)
EXTENDS WorkflowQueueRefinement, FiniteSetTheorems, TLAPS

-----------------------------------------------------------------------------
(* The inductive invariant, and lemmas about members and finite sets.      *)

\* The sets whose sizes are added to counters are finite: the delayed and the
\* processing set, from which members are read, and the members a client holds.
Finite ==
    /\ IsFiniteSet(delayed)
    /\ IsFiniteSet(processing)
    /\ \A c \in Clients : IsFiniteSet(hand[c])

\* The inductive invariant: the counters stay integers because the sets counted
\* into them stay finite.
IInv == TypeOK /\ Finite

\* The image of a finite set under a function is finite.
LEMMA FiniteImage ==
  ASSUME NEW S, IsFiniteSet(S), NEW f, f = [x \in S |-> f[x]]
  PROVE  IsFiniteSet({f[x] : x \in S})
<1> DEFINE T == {f[x] : x \in S}
<1>1. f \in Surjection(S, T)
  BY DEF Surjection
<1> QED
  BY <1>1, FS_Surjection

\* Recording an error in a member's text yields a member.
LEMMA ErrMember ==
  ASSUME NEW m \in Member
  PROVE  Errored(m) \in Member
BY DEF Member, Errored

\* Stamping a member yields a member.
LEMMA StampedMember ==
  ASSUME TypeOK, NEW m \in Member
  PROVE  Stamped(m) \in Member
BY DEF TypeOK, Member, Stamped

\* Counting a retry in a member's text yields a member.
LEMMA RetriedMember ==
  ASSUME NEW m \in Member
  PROVE  Retried(m) \in Member
BY DEF Member, Retried

\* What Enqueue and RequeueFailedTask write for an id is a member.
LEMMA NewMemberType ==
  ASSUME NEW i \in Items
  PROVE  NewMember(i) \in Member
BY DEF Member, NewMember

\* A counter that an operation touches moves by its delta, the others stay.
LEMMA IncrType ==
  ASSUME TypeOK, NEW deltas, Incr(deltas), DOMAIN deltas \subseteq Counters,
         \A k \in DOMAIN deltas : deltas[k] \in Int
  PROVE  /\ stats' \in [Counters -> Int]
         /\ \A k \in Counters :
               stats'[k] = IF k \in DOMAIN deltas THEN stats[k] + deltas[k] ELSE stats[k]
BY DEF TypeOK, Incr

\* The members a client comes to hold, and the point it reaches, are typed.
LEMMA GotoType ==
  ASSUME IInv, NEW c \in Clients, NEW point \in Points,
         NEW members \in SUBSET Member, IsFiniteSet(members),
         Goto(c, point, members)
  PROVE  /\ pc' \in [Clients -> Points]
         /\ hand' \in [Clients -> SUBSET Member]
         /\ \A x \in Clients : IsFiniteSet(hand'[x])
BY DEF IInv, Finite, TypeOK, Goto

\* A client that returns holds nothing.
LEMMA ReturnType ==
  ASSUME IInv, NEW c \in Clients, Return(c)
  PROVE  /\ pc' \in [Clients -> Points]
         /\ hand' \in [Clients -> SUBSET Member]
         /\ \A x \in Clients : IsFiniteSet(hand'[x])
<1>1. "idle" \in Points /\ {} \in SUBSET Member /\ IsFiniteSet({})
  BY FS_EmptySet DEF Points
<1> QED
  BY <1>1, GotoType DEF Return

\* Stamping every member of a finite set gives a finite set of members.
LEMMA StampedSet ==
  ASSUME TypeOK, NEW S \in SUBSET Member
  PROVE  /\ {Stamped(m) : m \in S} \in SUBSET Member
         /\ IsFiniteSet(S) => IsFiniteSet({Stamped(m) : m \in S})
<1>1. {Stamped(m) : m \in S} \in SUBSET Member
  BY StampedMember
<1>2. ASSUME IsFiniteSet(S) PROVE IsFiniteSet({Stamped(m) : m \in S})
  <2> DEFINE f == [m \in S |-> Stamped(m)]
  <2>1. IsFiniteSet({f[x] : x \in S})
    <3> HIDE DEF f
    <3> QED  BY <1>2, FiniteImage DEF f
  <2>2. {f[x] : x \in S} = {Stamped(m) : m \in S}
    OBVIOUS
  <2> QED  BY <2>1, <2>2
<1> QED  BY <1>1, <1>2

\* Requeueing with an error gives a finite set of members.
LEMMA RetriedSet ==
  ASSUME NEW S \in SUBSET Member
  PROVE  /\ {Retried(m) : m \in S} \in SUBSET Member
         /\ {Errored(Retried(m)) : m \in S} \in SUBSET Member
         /\ IsFiniteSet(S) => IsFiniteSet({Errored(Retried(m)) : m \in S})
<1>1. {Retried(m) : m \in S} \in SUBSET Member
  BY RetriedMember
<1>2. \A m \in S : Errored(Retried(m)) \in Member
  BY RetriedMember, ErrMember
<1>3. ASSUME IsFiniteSet(S)
      PROVE  IsFiniteSet({Errored(Retried(m)) : m \in S})
  <2> DEFINE f == [m \in S |-> Errored(Retried(m))]
  <2>1. IsFiniteSet({f[x] : x \in S})
    <3>1. f = [x \in S |-> f[x]]
      OBVIOUS
    <3> HIDE DEF f
    <3> QED  BY <1>3, <3>1, FiniteImage
  <2>2. {f[x] : x \in S} = {Errored(Retried(m)) : m \in S}
    OBVIOUS
  <2> QED  BY <2>1, <2>2
<1> QED  BY <1>1, <1>2, <1>3

-----------------------------------------------------------------------------
(* The dequeuers' steps.                                                   *)

LEMMA EnqueueStep ==
  ASSUME IInv, NEW i \in Items, EnqueueAt(i)
  PROVE  IInv'
<1>1. NewMember(i) \in Member
  BY NewMemberType
<1>2. CASE Enqueue(i)
  <2>1. stats' \in [Counters -> Int]
    BY <1>2, IncrType DEF Enqueue, IInv, Counters
  <2> QED  BY <1>1, <1>2, <2>1 DEF IInv, TypeOK, Finite, Enqueue
<1>3. CASE EnqueueDelayed(i)
  <2>1. stats' \in [Counters -> Int]
    BY <1>3, IncrType DEF EnqueueDelayed, IInv, Counters
  <2>2. IsFiniteSet(delayed')
    BY <1>3, FS_AddElement DEF EnqueueDelayed, IInv, Finite
  <2> QED  BY <1>1, <1>3, <2>1, <2>2 DEF IInv, TypeOK, Finite, EnqueueDelayed
<1> QED  BY <1>2, <1>3 DEF EnqueueAt

LEMMA DequeueStep ==
  ASSUME IInv, NEW d \in Dequeuers, Dequeue(d) \/ MoveFails(d)
  PROVE  IInv'
<1> d \in Clients /\ {"idle", "due", "pop", "popped"} \subseteq Points
  BY DEF Clients, Points
<1>0. IsFiniteSet({}) /\ \A m : IsFiniteSet({m})
  BY FS_EmptySet, FS_Singleton
<1>1. CASE ReadDue(d)
  <2>1. PICK due \in SUBSET delayed :
           Goto(d, IF due = {} THEN "pop" ELSE "due", due)
    BY <1>1 DEF ReadDue
  <2>2. due \in SUBSET Member /\ IsFiniteSet(due)
    BY FS_Subset DEF IInv, TypeOK, Finite
  <2>3. /\ pc' \in [Clients -> Points]
        /\ hand' \in [Clients -> SUBSET Member]
        /\ \A x \in Clients : IsFiniteSet(hand'[x])
    BY <2>1, <2>2, GotoType
  <2> QED  BY <1>1, <2>3 DEF IInv, TypeOK, Finite, ReadDue, stored
<1>2. CASE MoveDue(d)
  <2>1. hand[d] \in SUBSET Member /\ Cardinality(hand[d]) \in Nat
    BY FS_CardinalityType DEF IInv, TypeOK, Finite
  <2>2. stats' \in [Counters -> Int]
    BY <1>2, <2>1, IncrType DEF MoveDue, IInv, Counters
  <2>3. IsFiniteSet(delayed')
    BY <1>2, FS_Difference DEF MoveDue, IInv, Finite
  <2>4. /\ pc' \in [Clients -> Points]
        /\ hand' \in [Clients -> SUBSET Member]
        /\ \A x \in Clients : IsFiniteSet(hand'[x])
    BY <1>0, <1>2, GotoType DEF MoveDue
  <2> QED  BY <1>2, <2>1, <2>2, <2>3, <2>4 DEF IInv, TypeOK, Finite, MoveDue
<1>3. CASE Pop(d)
  <2>1. PICK m \in queue : queue' = queue \ {m} /\ Goto(d, "popped", {m})
    BY <1>3 DEF Pop
  <2>2. {m} \in SUBSET Member
    BY DEF IInv, TypeOK
  <2>3. /\ pc' \in [Clients -> Points]
        /\ hand' \in [Clients -> SUBSET Member]
        /\ \A x \in Clients : IsFiniteSet(hand'[x])
    BY <1>0, <2>1, <2>2, GotoType
  <2> QED  BY <1>3, <2>1, <2>3 DEF IInv, TypeOK, Finite, Pop
<1>4. CASE PopEmpty(d)
  BY <1>4, ReturnType DEF PopEmpty, IInv, TypeOK, Finite, stored
<1>5. CASE Store(d)
  <2>1. hand[d] \in SUBSET Member /\ IsFiniteSet(hand[d])
    BY DEF IInv, TypeOK, Finite
  <2>2. /\ {Stamped(m) : m \in hand[d]} \in SUBSET Member
        /\ IsFiniteSet({Stamped(m) : m \in hand[d]})
    BY <2>1, StampedSet DEF IInv
  <2>3. stats' \in [Counters -> Int]
    BY <1>5, IncrType DEF Store, IInv, Counters
  <2>4. IsFiniteSet(processing')
    BY <1>5, <2>2, FS_Union DEF Store, IInv, Finite
  <2> QED
    BY <1>5, <2>2, <2>3, <2>4, ReturnType DEF Store, Tick, IInv, TypeOK, Finite
<1>6. CASE MoveFails(d)
  BY <1>0, <1>6, GotoType DEF MoveFails, IInv, TypeOK, Finite, stored
<1> QED  BY <1>1, <1>2, <1>3, <1>4, <1>5, <1>6 DEF Dequeue
-----------------------------------------------------------------------------
(* The markers' steps.                                                     *)

LEMMA MarkStep ==
  ASSUME IInv, NEW c \in Markers, Mark(c)
  PROVE  IInv'
<1> c \in Clients /\ {"idle", "complete", "fail", "bury"} \subseteq Points
  BY DEF Clients, Points
<1>0. /\ \A m : IsFiniteSet({m})
      /\ hand[c] \in SUBSET Member /\ IsFiniteSet(hand[c])
  BY FS_Singleton DEF IInv, TypeOK, Finite
<1>1. ASSUME NEW i \in Items, NEW point \in {"complete", "fail"},
             ReadForMark(c, i, point)
      PROVE  IInv'
  <2>1. PICK m \in Of(processing, i) : Goto(c, point, {m})
    BY <1>1 DEF ReadForMark
  <2>2. {m} \in SUBSET Member
    BY DEF Of, IInv, TypeOK
  <2>3. /\ pc' \in [Clients -> Points]
        /\ hand' \in [Clients -> SUBSET Member]
        /\ \A x \in Clients : IsFiniteSet(hand'[x])
    BY <1>0, <2>1, <2>2, GotoType
  <2> QED  BY <1>1, <2>3 DEF IInv, TypeOK, Finite, ReadForMark, stored
<1>2. CASE MoveToCompleted(c)
  <2>1. {Stamped(m) : m \in hand[c]} \in SUBSET Member
    BY <1>0, StampedSet DEF IInv
  <2>2. stats' \in [Counters -> Int]
    BY <1>2, IncrType DEF MoveToCompleted, IInv, Counters
  <2>3. IsFiniteSet(processing')
    BY <1>2, FS_Difference DEF MoveToCompleted, IInv, Finite
  <2> QED  BY <1>2, <2>1, <2>2, <2>3, ReturnType
           DEF MoveToCompleted, Tick, IInv, TypeOK, Finite
<1>3. CASE RequeueForRetry(c)
  <2>1. /\ {Errored(Retried(m)) : m \in hand[c]} \in SUBSET Member
        /\ IsFiniteSet({Errored(Retried(m)) : m \in hand[c]})
    BY <1>0, RetriedSet
  <2>2. stats' \in [Counters -> Int]
    BY <1>3, IncrType DEF RequeueForRetry, IInv, Counters
  <2>3. IsFiniteSet(processing') /\ IsFiniteSet(delayed')
    BY <1>3, <2>1, FS_Difference, FS_Union DEF RequeueForRetry, IInv, Finite
  <2> QED  BY <1>3, <2>1, <2>2, <2>3, ReturnType
           DEF RequeueForRetry, Tick, IInv, TypeOK, Finite
<1>4. CASE ReadForBurial(c)
  <2>1. ASSUME NEW n \in processing, Goto(c, "bury", {n})
        PROVE  /\ pc' \in [Clients -> Points]
               /\ hand' \in [Clients -> SUBSET Member]
               /\ \A x \in Clients : IsFiniteSet(hand'[x])
    <3>1. {n} \in SUBSET Member
      BY DEF IInv, TypeOK
    <3> QED  BY <1>0, <2>1, <3>1, GotoType
  <2>2. /\ pc' \in [Clients -> Points]
        /\ hand' \in [Clients -> SUBSET Member]
        /\ \A x \in Clients : IsFiniteSet(hand'[x])
    BY <1>4, <2>1, ReturnType DEF ReadForBurial
  <2> QED  BY <1>4, <2>2 DEF IInv, TypeOK, Finite, ReadForBurial, stored
<1>5. CASE MoveToFailed(c)
  <2>1. {Stamped(m) : m \in hand[c]} \in SUBSET Member
    BY <1>0, StampedSet DEF IInv
  <2>2. stats' \in [Counters -> Int]
    BY <1>5, IncrType DEF MoveToFailed, IInv, Counters
  <2>3. IsFiniteSet(processing')
    BY <1>5, FS_Difference DEF MoveToFailed, IInv, Finite
  <2> QED  BY <1>5, <2>1, <2>2, <2>3, ReturnType
           DEF MoveToFailed, Tick, IInv, TypeOK, Finite
<1> QED  BY <1>1, <1>2, <1>3, <1>4, <1>5 DEF Mark, MarkCompleted, MarkFailed

-----------------------------------------------------------------------------
(* The cleaners' steps.                                                    *)

\* What a clean-up requeues and what it gives up on make up what it read.
LEMMA CleanupSplits ==
  ASSUME NEW S, IsFiniteSet(S)
  PROVE  /\ Cardinality(S) \in Nat
         /\ Cardinality(Retriable(S)) \in Nat
         /\ Cardinality(Exhausted(S)) \in Nat
         /\ Cardinality(S) = Cardinality(Retriable(S)) + Cardinality(Exhausted(S))
<1>1. Retriable(S) \subseteq S /\ S \cap Retriable(S) = Retriable(S)
  BY DEF Retriable
<1>2. IsFiniteSet(Retriable(S)) /\ IsFiniteSet(Exhausted(S))
  BY <1>1, FS_Subset DEF Exhausted
<1>3. Cardinality(Exhausted(S)) = Cardinality(S) - Cardinality(Retriable(S))
  BY <1>1, FS_Difference DEF Exhausted
<1> QED  BY <1>2, <1>3, FS_CardinalityType

LEMMA CleanupStep ==
  ASSUME IInv, NEW c \in Cleaners, Cleanup(c)
  PROVE  IInv'
<1> c \in Clients /\ {"idle", "stale"} \subseteq Points
  BY DEF Clients, Points
<1>0. hand[c] \in SUBSET Member /\ IsFiniteSet(hand[c])
  BY DEF IInv, TypeOK, Finite
<1>1. CASE ReadStale(c)
  <2>1. PICK stale \in SUBSET processing : Goto(c, "stale", stale)
    BY <1>1 DEF ReadStale
  <2>2. stale \in SUBSET Member /\ IsFiniteSet(stale)
    BY FS_Subset DEF IInv, TypeOK, Finite
  <2>3. /\ pc' \in [Clients -> Points]
        /\ hand' \in [Clients -> SUBSET Member]
        /\ \A x \in Clients : IsFiniteSet(hand'[x])
    BY <2>1, <2>2, GotoType
  <2> QED  BY <1>1, <2>3 DEF IInv, TypeOK, Finite, ReadStale, stored
<1>2. CASE CleanupStale(c)
  <2>1. {Retried(m) : m \in Retriable(hand[c])} \in SUBSET Member
    BY <1>0, RetriedMember DEF Retriable
  <2>2. {Errored(Stamped(Retried(m))) : m \in Exhausted(hand[c])}
           \in SUBSET Member
    <3>1. \A m \in Exhausted(hand[c]) : Stamped(Retried(m)) \in Member
      BY <1>0, RetriedMember, StampedMember DEF Exhausted, IInv
    <3> QED  BY <3>1, ErrMember
  <2>3. stats' \in [Counters -> Int]
    BY <1>0, <1>2, CleanupSplits, IncrType DEF CleanupStale, IInv, Counters
  <2>4. IsFiniteSet(processing')
    BY <1>2, FS_Difference DEF CleanupStale, IInv, Finite
  <2> QED  BY <1>2, <2>1, <2>2, <2>3, <2>4, ReturnType
           DEF CleanupStale, Tick, IInv, TypeOK, Finite
<1> QED  BY <1>1, <1>2 DEF Cleanup
-----------------------------------------------------------------------------
(* The administrators' steps.                                              *)

\* Rewriting the members read, in place, keeps a finite set of members.
LEMMA RelabelType ==
  ASSUME NEW set \in SUBSET Member, IsFiniteSet(set), NEW new,
         NEW members \in SUBSET Member, IsFiniteSet(members),
         NEW text \in BOOLEAN, Relabel(set, new, members, text)
  PROVE  new \in SUBSET Member /\ IsFiniteSet(new)
<1> DEFINE f == [m \in members |-> IF text THEN Errored(m) ELSE m]
           T == {IF text THEN Errored(m) ELSE m : m \in members}
<1>1. \A m \in members : Errored(m) \in Member /\ m \in Member
  BY ErrMember
<1>2. T \in SUBSET Member
  BY <1>1
<1>3. {f[m] : m \in members} = T
  OBVIOUS
<1>4. IsFiniteSet({f[m] : m \in members})
  <2>1. f = [m \in members |-> f[m]]
    OBVIOUS
  <2> HIDE DEF f
  <2> QED  BY <2>1, FiniteImage
<1>5. new = (set \ members) \cup T
  BY DEF Relabel
<1>6. IsFiniteSet(T)
  BY <1>3, <1>4
<1> HIDE DEF T
<1> QED  BY <1>2, <1>5, <1>6, FS_Difference, FS_Union

LEMMA AdminStep ==
  ASSUME IInv, NEW c \in Admins, Administer(c)
  PROVE  IInv'
<1> /\ c \in Clients
    /\ {"idle", "requeue", "seekP", "seekC", "seekF",
        "relabelP", "relabelC", "relabelF"} \subseteq Points
  BY DEF Clients, Points
<1>0. /\ IsFiniteSet({}) /\ \A m : IsFiniteSet({m})
      /\ hand[c] \in SUBSET Member /\ IsFiniteSet(hand[c])
  BY FS_EmptySet, FS_Singleton DEF IInv, TypeOK, Finite
<1> DEFINE ClientsTyped == /\ pc' \in [Clients -> Points]
                           /\ hand' \in [Clients -> SUBSET Member]
                           /\ \A x \in Clients : IsFiniteSet(hand'[x])
<1>a. ASSUME NEW point \in Points, NEW m \in Member, Goto(c, point, {m})
      PROVE  ClientsTyped
  BY <1>0, <1>a, {m} \in SUBSET Member, GotoType
<1>1. ASSUME NEW i \in Items, RequeueFailedTask(c, i)
      PROVE  IInv'
  <2>1. PICK m \in Of(failed, i) : Goto(c, "requeue", {m})
    BY <1>1 DEF RequeueFailedTask
  <2>2. m \in Member
    BY DEF Of, IInv, TypeOK
  <2>3. ClientsTyped
    BY <1>a, <2>1, <2>2
  <2> QED  BY <1>1, <2>3 DEF IInv, TypeOK, Finite, RequeueFailedTask, stored
<1>2. ASSUME NEW i \in Items, UpdateTaskStatus(c, i)
      PROVE  IInv'
  <2>1. ClientsTyped
    BY <1>a, <1>2, NewMemberType DEF UpdateTaskStatus
  <2> QED  BY <1>2, <2>1 DEF IInv, TypeOK, Finite, UpdateTaskStatus, stored
<1>3. CASE RequeueFailed(c)
  <2>1. {NewMember(m.id) : m \in hand[c]} \in SUBSET Member
    BY <1>0, NewMemberType DEF Member
  <2>2. stats' \in [Counters -> Int]
    BY <1>3, IncrType DEF RequeueFailed, IInv, Counters
  <2> QED  BY <1>3, <2>1, <2>2, ReturnType
           DEF RequeueFailed, IInv, TypeOK, Finite
<1>4. CASE SeekMember(c)
  <2>1. ASSUME NEW set \in SUBSET Member, NEW found \in Points, NEW next \in Points,
               Seek(c, set, found, next)
        PROVE  ClientsTyped
    <3>1. CASE \E n \in set : Goto(c, found, {n})
      BY <1>a, <3>1
    <3>2. CASE Goto(c, next, IF next = "idle" THEN {} ELSE hand[c])
      <4>1. CASE next = "idle"
        BY <1>0, <3>2, <4>1, GotoType
      <4>2. CASE next # "idle"
        BY <1>0, <3>2, <4>2, GotoType
      <4> QED  BY <4>1, <4>2
    <3> QED  BY <2>1, <3>1, <3>2 DEF Seek
  <2>2. ClientsTyped
    <3> processing \in SUBSET Member /\ completed \in SUBSET Member
        /\ failed \in SUBSET Member
      BY DEF IInv, TypeOK
    <3> HIDE DEF ClientsTyped
    <3> QED  BY <1>4, <2>1 DEF SeekMember
  <2> QED  BY <1>4, <2>2 DEF IInv, TypeOK, Finite, SeekMember, stored
<1>5. CASE RewriteMember(c)
  <2>1. PICK text \in BOOLEAN :
          \/ /\ Relabel(processing, processing', hand[c], text)
             /\ UNCHANGED <<completed, failed>>
          \/ /\ Relabel(completed, completed', hand[c], text)
             /\ UNCHANGED <<processing, failed>>
          \/ /\ Relabel(failed, failed', hand[c], text)
             /\ UNCHANGED <<processing, completed>>
    BY <1>5 DEF RewriteMember
  <2>2. /\ Relabel(processing, processing', hand[c], text) =>
               processing' \in SUBSET Member /\ IsFiniteSet(processing')
    BY <1>0, RelabelType DEF IInv, TypeOK, Finite
  <2>3. Relabel(completed, completed', hand[c], text) => completed' \in SUBSET Member
    BY <1>0, ErrMember DEF Relabel, IInv, TypeOK
  <2>4. Relabel(failed, failed', hand[c], text) => failed' \in SUBSET Member
    BY <1>0, ErrMember DEF Relabel, IInv, TypeOK
  <2>5. /\ processing' \in SUBSET Member /\ IsFiniteSet(processing')
        /\ completed' \in SUBSET Member /\ failed' \in SUBSET Member
    BY <2>1, <2>2, <2>3, <2>4 DEF IInv, TypeOK, Finite
  <2> QED  BY <1>5, <2>5, ReturnType DEF RewriteMember, IInv, TypeOK, Finite
<1>6. CASE Clear(c)
  BY <1>6 DEF Clear, IInv, TypeOK, Finite
<1> QED  BY <1>1, <1>2, <1>3, <1>4, <1>5, <1>6 DEF Administer

-----------------------------------------------------------------------------
(* Type correctness.                                                       *)

LEMMA InitIInv == Init => IInv
<1> SUFFICES ASSUME Init PROVE IInv
  OBVIOUS
<1>1. IsFiniteSet({}) /\ "idle" \in Points
  BY FS_EmptySet DEF Points
<1> QED  BY <1>1 DEF Init, IInv, TypeOK, Finite

LEMMA NextIInv == IInv /\ [Next]_vars => IInv'
<1> SUFFICES ASSUME IInv, [Next]_vars PROVE IInv'
  OBVIOUS
<1>1. CASE Work
  BY <1>1, EnqueueStep, DequeueStep, MarkStep, CleanupStep, AdminStep DEF Work
<1>2. ASSUME NEW d \in Dequeuers, MoveFails(d) PROVE IInv'
  BY <1>2, DequeueStep
<1>3. ASSUME NEW c \in Clients, Abort(c) PROVE IInv'
  BY <1>3, ReturnType DEF Abort, IInv, TypeOK, Finite, stored
<1>4. CASE UNCHANGED vars
  BY <1>4 DEF vars, stored, IInv, TypeOK, Finite
<1> QED  BY <1>1, <1>2, <1>3, <1>4 DEF Next

\* Whatever the clients do, Redis holds well-formed members, its counters are
\* integers, and no retry count or stamp goes below zero.
THEOREM TypeCorrect == Spec => []TypeOK
<1>1. IInv => TypeOK
  BY DEF IInv
<1> QED  BY InitIInv, NextIInv, <1>1, PTL DEF Spec
-----------------------------------------------------------------------------
(* The counters' balance.                                                  *)

\* The deltas of each operation cancel out between the total and the stages.
LEMMA NextBalance == IInv /\ StatsBalance /\ [Next]_vars => StatsBalance'
<1> SUFFICES ASSUME IInv, StatsBalance, [Next]_vars PROVE StatsBalance'
  OBVIOUS
<1>0. /\ stats \in [Counters -> Int]
      /\ \A c \in Clients : IsFiniteSet(hand[c])
  BY DEF IInv, TypeOK, Finite
<1>1. ASSUME NEW i \in Items, EnqueueAt(i) PROVE StatsBalance'
  BY <1>1, IncrType
     DEF EnqueueAt, Enqueue, EnqueueDelayed, IInv, TypeOK, Counters, StatsBalance
<1>2. ASSUME NEW d \in Dequeuers, Dequeue(d) \/ MoveFails(d)
      PROVE  StatsBalance'
  <2>1. CASE MoveDue(d)
    <3>1. Cardinality(hand[d]) \in Nat
      BY <1>0, FS_CardinalityType DEF Clients
    <3> QED  BY <2>1, <3>1, IncrType
             DEF MoveDue, IInv, TypeOK, Counters, StatsBalance
  <2>2. CASE Store(d)
    BY <2>2, IncrType DEF Store, IInv, TypeOK, Counters, StatsBalance
  <2>3. CASE ReadDue(d) \/ Pop(d) \/ PopEmpty(d) \/ MoveFails(d)
    BY <2>3 DEF ReadDue, Pop, PopEmpty, MoveFails, StatsBalance
  <2> QED  BY <1>2, <2>1, <2>2, <2>3 DEF Dequeue
<1>3. ASSUME NEW c \in Markers, Mark(c) PROVE StatsBalance'
  <2>1. CASE MoveToCompleted(c)
    BY <2>1, IncrType DEF MoveToCompleted, IInv, TypeOK, Counters, StatsBalance
  <2>2. CASE RequeueForRetry(c)
    BY <2>2, IncrType DEF RequeueForRetry, IInv, TypeOK, Counters, StatsBalance
  <2>3. CASE MoveToFailed(c)
    BY <2>3, IncrType DEF MoveToFailed, IInv, TypeOK, Counters, StatsBalance
  <2>4. ASSUME stats' = stats PROVE StatsBalance'
    BY <2>4 DEF StatsBalance
  <2> QED  BY <1>3, <2>1, <2>2, <2>3, <2>4
           DEF Mark, MarkCompleted, MarkFailed, ReadForMark, ReadForBurial
<1>4. ASSUME NEW c \in Cleaners, Cleanup(c) PROVE StatsBalance'
  <2>1. CASE CleanupStale(c)
    <3>1. /\ Cardinality(hand[c]) \in Nat
          /\ Cardinality(Retriable(hand[c])) \in Nat
          /\ Cardinality(Exhausted(hand[c])) \in Nat
          /\ Cardinality(hand[c]) = Cardinality(Retriable(hand[c]))
                                    + Cardinality(Exhausted(hand[c]))
      BY <1>0, CleanupSplits DEF Clients
    <3> QED  BY <2>1, <3>1, IncrType
             DEF CleanupStale, IInv, TypeOK, Counters, StatsBalance
  <2>2. CASE ReadStale(c)
    BY <2>2 DEF ReadStale, StatsBalance
  <2> QED  BY <1>4, <2>1, <2>2 DEF Cleanup
<1>5. ASSUME NEW c \in Admins, Administer(c) PROVE StatsBalance'
  <2>1. CASE RequeueFailed(c)
    BY <2>1, IncrType DEF RequeueFailed, IInv, TypeOK, Counters, StatsBalance
  <2>2. ASSUME stats' = stats PROVE StatsBalance'
    BY <2>2 DEF StatsBalance
  <2> QED  BY <1>5, <2>1, <2>2
           DEF Administer, RequeueFailedTask, UpdateTaskStatus, SeekMember,
               RewriteMember, Clear
<1>6. ASSUME NEW c \in Clients, Abort(c) PROVE StatsBalance'
  BY <1>6 DEF Abort, StatsBalance
<1>7. CASE UNCHANGED vars
  BY <1>7 DEF vars, StatsBalance
<1> QED  BY <1>1, <1>2, <1>3, <1>4, <1>5, <1>6, <1>7 DEF Next, Work

\* For any number of items, clients and retries, under every interleaving and
\* every error between two commands, the counters of StatsKey keep their
\* balance.
THEOREM CountersBalance == Spec => []StatsBalance
<1>1. Init => StatsBalance
  BY DEF Init, StatsBalance, Counters
<1> QED  BY <1>1, InitIInv, NextIInv, NextBalance, PTL DEF Spec

-----------------------------------------------------------------------------
(* No item is forgotten.                                                   *)

\* Every member that Redis or a dequeuer holds.
Everywhere == queue \cup delayed \cup processing \cup completed \cup failed \cup InHand

LEMMA PresentHeld ==
  \A i : Present(i) <=> \E m \in Everywhere : m.id = i
BY DEF Present, Places, Everywhere, Of

LEMMA PresentHeldNext ==
  \A i : Present(i)' <=> \E m \in Everywhere' : m.id = i
BY DEF Present, Places, Everywhere, Of

\* A step of a client that neither is nor becomes a popped dequeuer leaves what
\* the popped dequeuers hold.
LEMMA InHandStays ==
  ASSUME IInv, NEW c \in Clients, pc[c] # "popped",
         NEW point, point # "popped", NEW members, Goto(c, point, members)
  PROVE  InHand' = InHand
<1>1. {x \in Dequeuers : pc'[x] = "popped"} = {x \in Dequeuers : pc[x] = "popped"}
  BY DEF IInv, TypeOK, Clients, Goto
<1>2. \A x \in Dequeuers : pc[x] = "popped" => hand'[x] = hand[x]
  BY DEF IInv, TypeOK, Clients, Goto
<1> QED  BY <1>1, <1>2 DEF InHand

\* Rewriting a member never changes its id.
LEMMA IdsKept ==
  ASSUME NEW m \in Member
  PROVE  /\ Stamped(m).id = m.id /\ Retried(m).id = m.id
         /\ Errored(m).id = m.id
         /\ NewMember(m.id).id = m.id
BY DEF Member, Stamped, Retried, Errored, NewMember

\* The dequeuers' steps move every member on, except a popped one's abort.
LEMMA DequeueKeeps ==
  ASSUME IInv, NEW d \in Dequeuers, Dequeue(d) \/ MoveFails(d)
  PROVE  \A m \in Everywhere : \E n \in Everywhere' : n.id = m.id
<1> d \in Clients
  BY DEF Clients
<1>1. CASE ReadDue(d) \/ PopEmpty(d) \/ MoveFails(d)
  <2>1. InHand' = InHand
    BY <1>1, InHandStays DEF ReadDue, PopEmpty, MoveFails, Return
  <2> QED  BY <1>1, <2>1 DEF Everywhere, ReadDue, PopEmpty, MoveFails, stored
<1>2. CASE MoveDue(d)
  <2>1. InHand' = InHand
    BY <1>2, InHandStays DEF MoveDue
  <2> QED  BY <1>2, <2>1 DEF Everywhere, MoveDue
<1>3. CASE Pop(d)
  <2>1. PICK m \in queue : queue' = queue \ {m} /\ Goto(d, "popped", {m})
    BY <1>3 DEF Pop
  <2>2. m \in InHand'
    BY <2>1 DEF InHand, Goto, IInv, TypeOK
  <2>3. \A x \in Dequeuers : pc[x] = "popped" =>
           pc'[x] = "popped" /\ hand'[x] = hand[x]
    BY <1>3, <2>1 DEF Pop, Goto, IInv, TypeOK, Clients
  <2>4. InHand \subseteq InHand'
    BY <2>3 DEF InHand
  <2> QED  BY <1>3, <2>1, <2>2, <2>4 DEF Everywhere, Pop
<1>4. CASE Store(d)
  <2>1. \A x \in Dequeuers \ {d} : pc'[x] = pc[x] /\ hand'[x] = hand[x]
    BY <1>4 DEF Store, Return, Goto, IInv, TypeOK, Clients
  <2>2. \A m \in InHand : m \in InHand' \/ m \in hand[d]
    BY <2>1 DEF InHand
  <2>3. \A m \in hand[d] : Stamped(m) \in processing' /\ Stamped(m).id = m.id
    BY <1>4, IdsKept DEF Store, IInv, TypeOK
  <2> QED  BY <1>4, <2>2, <2>3 DEF Everywhere, Store
<1> QED  BY <1>1, <1>2, <1>3, <1>4 DEF Dequeue

\* The markers' and the cleaners' steps move every member on.
LEMMA WorkerKeeps ==
  ASSUME IInv, NEW c \in Clients, Mark(c) \/ Cleanup(c)
  PROVE  \A m \in Everywhere : \E n \in Everywhere' : n.id = m.id
<1>0. hand[c] \in SUBSET Member
  BY DEF IInv, TypeOK
<1>1. InHand' = InHand
  BY InHandStays
     DEF Mark, MarkCompleted, MarkFailed, ReadForMark, MoveToCompleted,
         RequeueForRetry, ReadForBurial, MoveToFailed, Cleanup, ReadStale,
         CleanupStale, Return
<1>2. CASE MoveToCompleted(c)
  <2>1. \A m \in hand[c] : \E n \in completed' : n.id = m.id
    BY <1>0, <1>2, IdsKept DEF MoveToCompleted
  <2> QED  BY <1>1, <1>2, <2>1 DEF Everywhere, MoveToCompleted
<1>3. CASE RequeueForRetry(c)
  <2>1. \A m \in hand[c] : Errored(Retried(m)).id = m.id
    BY <1>0, IdsKept, RetriedMember
  <2>2. \A m \in hand[c] : Errored(Retried(m)) \in delayed'
    BY <1>3 DEF RequeueForRetry
  <2> QED  BY <1>1, <1>3, <2>1, <2>2 DEF Everywhere, RequeueForRetry
<1>4. CASE MoveToFailed(c)
  <2>1. \A m \in hand[c] : \E n \in failed' : n.id = m.id
    BY <1>0, <1>4, IdsKept DEF MoveToFailed
  <2> QED  BY <1>1, <1>4, <2>1 DEF Everywhere, MoveToFailed
<1>5. CASE CleanupStale(c)
  <2>1. \A m \in Retriable(hand[c]) : \E n \in queue' : n.id = m.id
    BY <1>0, <1>5, IdsKept DEF CleanupStale, Retriable
  <2>2. \A m \in Exhausted(hand[c]) : Errored(Stamped(Retried(m))).id = m.id
    BY <1>0, IdsKept, RetriedMember, StampedMember DEF Exhausted, IInv
  <2>3. \A m \in Exhausted(hand[c]) : Errored(Stamped(Retried(m))) \in failed'
    BY <1>5 DEF CleanupStale
  <2>4. hand[c] = Retriable(hand[c]) \cup Exhausted(hand[c])
    BY DEF Retriable, Exhausted
  <2>5. \A m \in hand[c] : \E n \in Everywhere' : n.id = m.id
    BY <2>1, <2>2, <2>3, <2>4 DEF Everywhere
  <2> QED  BY <1>1, <1>5, <2>5 DEF Everywhere, CleanupStale
<1>6. ASSUME UNCHANGED stored PROVE Everywhere' = Everywhere
  BY <1>1, <1>6 DEF Everywhere, stored
<1> QED  BY <1>2, <1>3, <1>4, <1>5, <1>6
         DEF Mark, MarkCompleted, MarkFailed, ReadForMark, ReadForBurial,
             Cleanup, ReadStale

\* The administrators' steps keep every member's id, except Clear.
LEMMA AdminKeeps ==
  ASSUME IInv, NEW c \in Admins, Administer(c), ~Clear(c)
  PROVE  \A m \in Everywhere : \E n \in Everywhere' : n.id = m.id
<1>0. c \in Clients /\ hand[c] \in SUBSET Member
  BY DEF IInv, TypeOK, Clients
<1>1. CASE RequeueFailed(c)
  <2>1. InHand' = InHand
    BY <1>0, <1>1, InHandStays DEF RequeueFailed, Return
  <2>2. \A m \in hand[c] : \E n \in queue' : n.id = m.id
    BY <1>0, <1>1, IdsKept DEF RequeueFailed
  <2> QED  BY <1>1, <2>1, <2>2 DEF Everywhere, RequeueFailed
<1>2. CASE RewriteMember(c)
  <2>1. InHand' = InHand
    BY <1>0, <1>2, InHandStays DEF RewriteMember, Return
  <2>2. ASSUME NEW set, NEW new, NEW text \in BOOLEAN,
               Relabel(set, new, hand[c], text)
        PROVE  \A m \in set : \E n \in new : n.id = m.id
    BY <1>0, <2>2, IdsKept DEF Relabel
  <2>3. PICK text \in BOOLEAN :
          \/ /\ Relabel(processing, processing', hand[c], text)
             /\ UNCHANGED <<completed, failed>>
          \/ /\ Relabel(completed, completed', hand[c], text)
             /\ UNCHANGED <<processing, failed>>
          \/ /\ Relabel(failed, failed', hand[c], text)
             /\ UNCHANGED <<processing, completed>>
    BY <1>2 DEF RewriteMember
  <2>4. /\ \A m \in processing : \E n \in processing' : n.id = m.id
        /\ \A m \in completed : \E n \in completed' : n.id = m.id
        /\ \A m \in failed : \E n \in failed' : n.id = m.id
    BY <2>2, <2>3
  <2> QED  BY <1>2, <2>1, <2>4 DEF Everywhere, RewriteMember
<1>3. ASSUME NEW i \in Items, RequeueFailedTask(c, i) \/ UpdateTaskStatus(c, i)
      PROVE  Everywhere' = Everywhere
  <2>1. InHand' = InHand
    BY <1>0, <1>3, InHandStays DEF RequeueFailedTask, UpdateTaskStatus
  <2> QED  BY <1>3, <2>1 DEF Everywhere, RequeueFailedTask, UpdateTaskStatus, stored
<1>4. CASE SeekMember(c)
  <2>1. InHand' = InHand
    BY <1>0, <1>4, InHandStays DEF SeekMember, Seek
  <2> QED  BY <1>4, <2>1 DEF Everywhere, SeekMember, stored
<1> QED  BY <1>1, <1>2, <1>3, <1>4 DEF Administer

\* An aborted call forgets only what a dequeuer had popped.
LEMMA AbortKeeps ==
  ASSUME IInv, NEW c \in Clients, Abort(c), ~(c \in Dequeuers /\ pc[c] = "popped")
  PROVE  Everywhere' = Everywhere
<1>1. InHand' = InHand
  <2>1. CASE pc[c] # "popped"
    BY <2>1, InHandStays DEF Abort, Return
  <2>2. CASE c \notin Dequeuers
    BY <2>2 DEF Abort, Return, Goto, InHand, IInv, TypeOK, Clients
  <2> QED  BY <2>1, <2>2
<1> QED  BY <1>1 DEF Everywhere, Abort, stored

\* For any number of items and clients, an item once enqueued leaves Redis only
\* through the pop window of Dequeue or through Clear.
THEOREM NothingForgotten == Spec => NeverForgotten
<1>1. ASSUME IInv, [Next]_vars
      PROVE  [\A i \in Items : Present(i) /\ ~Present(i)' =>
                 \/ \E d \in Dequeuers : pc[d] = "popped" /\ Abort(d)
                 \/ \E c \in Admins : Clear(c)]_vars
  <2> SUFFICES ASSUME Next,
                      ~\E d \in Dequeuers : pc[d] = "popped" /\ Abort(d),
                      ~\E c \in Admins : Clear(c)
               PROVE  \A i \in Items : Present(i) => Present(i)'
    BY <1>1
  <2> SUFFICES \A m \in Everywhere : \E n \in Everywhere' : n.id = m.id
    BY PresentHeld, PresentHeldNext
  <2>1. ASSUME NEW i \in Items, EnqueueAt(i) PROVE Everywhere \subseteq Everywhere'
    BY <2>1 DEF EnqueueAt, Enqueue, EnqueueDelayed, Everywhere, InHand
  <2>2. ASSUME NEW d \in Dequeuers, Dequeue(d) \/ MoveFails(d)
        PROVE  \A m \in Everywhere : \E n \in Everywhere' : n.id = m.id
    BY <1>1, <2>2, DequeueKeeps
  <2>3. ASSUME NEW c \in Markers \cup Cleaners, Mark(c) \/ Cleanup(c)
        PROVE  \A m \in Everywhere : \E n \in Everywhere' : n.id = m.id
    BY <1>1, <2>3, WorkerKeeps DEF Clients
  <2>4. ASSUME NEW c \in Admins, Administer(c)
        PROVE  \A m \in Everywhere : \E n \in Everywhere' : n.id = m.id
    BY <1>1, <2>4, AdminKeeps
  <2>5. ASSUME NEW c \in Clients, Abort(c) PROVE Everywhere' = Everywhere
    BY <1>1, <2>5, AbortKeeps
  <2> QED  BY <2>1, <2>2, <2>3, <2>4, <2>5 DEF Next, Work
<1> QED  BY <1>1, InitIInv, NextIInv, PTL DEF Spec, NeverForgotten
-----------------------------------------------------------------------------
(* The retry budget.                                                       *)

\* What is in Redis, or in the hands of a client about to write, has a retry left to
\* count, but for what has failed for good.
Within(set, limit) == \A m \in set : m.retry <= limit

HandBudget(c) ==
    Within(hand[c], IF pc[c] \in {"requeue", "relabelF"} THEN MaxRetries + 1 ELSE MaxRetries)

BudgetInv ==
    /\ Within(queue, MaxRetries) /\ Within(delayed, MaxRetries)
    /\ Within(processing, MaxRetries) /\ Within(completed, MaxRetries)
    /\ Within(failed, MaxRetries + 1)
    /\ \A c \in Clients : HandBudget(c)

\* What an operation makes of a member's retry count.
LEMMA RetriesOf ==
  ASSUME TypeOK
  PROVE  /\ \A m \in Member :
               /\ m.retry \in Nat
               /\ Stamped(m) \in Member /\ Stamped(m).retry = m.retry
               /\ Errored(m) \in Member /\ Errored(m).retry = m.retry
               /\ Retried(m) \in Member /\ Retried(m).retry = m.retry + 1
         /\ \A i \in Items : NewMember(i).retry = 0
<1>1. \A m \in Member : Stamped(m) \in Member /\ Errored(m) \in Member /\ Retried(m) \in Member
  BY StampedMember, ErrMember, RetriedMember
<1>2. \A m \in Member : /\ m.retry \in Nat /\ Stamped(m).retry = m.retry
                       /\ Errored(m).retry = m.retry /\ Retried(m).retry = m.retry + 1
  BY DEF Member, Stamped, Errored, Retried
<1>3. \A i \in Items : NewMember(i).retry = 0
  BY DEF NewMember
<1> QED  BY <1>1, <1>2, <1>3

\* A client that moves on within the budget leaves the others as they are.
LEMMA GotoBudget ==
  ASSUME IInv, BudgetInv, NEW c \in Clients, NEW point, NEW members, Goto(c, point, members),
         Within(members, IF point \in {"requeue", "relabelF"} THEN MaxRetries + 1 ELSE MaxRetries)
  PROVE  (\A x \in Clients : HandBudget(x))'
BY DEF IInv, TypeOK, BudgetInv, Goto, HandBudget

LEMMA ReturnBudget ==
  ASSUME IInv, BudgetInv, NEW c \in Clients, Return(c)
  PROVE  (\A x \in Clients : HandBudget(x))'
BY GotoBudget DEF Return, Within

\* The markers' and the cleaners' steps.
LEMMA WorkerBudget ==
  ASSUME IInv, BudgetInv, NEW c \in Clients, Mark(c) \/ Cleanup(c)
  PROVE  BudgetInv'
<1>0. /\ TypeOK /\ MaxRetries \in Nat /\ hand[c] \in SUBSET Member
      /\ pc[c] \notin {"requeue", "relabelF"} => Within(hand[c], MaxRetries)
  BY QueueAssumption DEF IInv, TypeOK, BudgetInv, HandBudget
<1>1. ASSUME NEW i \in Items, NEW point \in {"complete", "fail"}, ReadForMark(c, i, point)
      PROVE  BudgetInv'
  <2>1. PICK m \in processing : Goto(c, point, {m})
    BY <1>1 DEF ReadForMark, Of
  <2>2. (\A x \in Clients : HandBudget(x))'
    BY <2>1, GotoBudget DEF BudgetInv, Within
  <2> QED  BY <1>1, <2>2 DEF ReadForMark, BudgetInv, stored
<1>2. CASE MoveToCompleted(c)
  <2>1. Within({Stamped(m) : m \in hand[c]}, MaxRetries)
    BY <1>0, <1>2, RetriesOf DEF MoveToCompleted, Within
  <2> QED  BY <1>2, <2>1, ReturnBudget DEF MoveToCompleted, BudgetInv, Within
<1>3. CASE RequeueForRetry(c)
  <2>1. Within({Errored(Retried(m)) : m \in hand[c]}, MaxRetries)
    BY <1>0, <1>3, RetriesOf DEF RequeueForRetry, RetryAllowed, Within
  <2> QED  BY <1>3, <2>1, ReturnBudget DEF RequeueForRetry, BudgetInv, Within
<1>4. CASE ReadForBurial(c)
  <2>1. Return(c) \/ \E n \in processing : Goto(c, "bury", {n})
    BY <1>4 DEF ReadForBurial
  <2>2. ASSUME NEW n \in processing, Goto(c, "bury", {n})
        PROVE  (\A x \in Clients : HandBudget(x))'
    <3>1. Within({n}, MaxRetries)
      BY DEF BudgetInv, Within
    <3> QED  BY <2>2, <3>1, GotoBudget
  <2>3. (\A x \in Clients : HandBudget(x))'
    BY <2>1, <2>2, ReturnBudget
  <2> QED  BY <1>4, <2>3 DEF ReadForBurial, BudgetInv, stored
<1>5. CASE MoveToFailed(c)
  <2>1. Within({Stamped(m) : m \in hand[c]}, MaxRetries + 1)
    BY <1>0, <1>5, RetriesOf DEF MoveToFailed, Within
  <2> QED  BY <1>5, <2>1, ReturnBudget DEF MoveToFailed, BudgetInv, Within
<1>6. CASE ReadStale(c)
  <2>1. PICK stale \in SUBSET processing : Goto(c, "stale", stale)
    BY <1>6 DEF ReadStale
  <2>2. (\A x \in Clients : HandBudget(x))'
    BY <2>1, GotoBudget DEF BudgetInv, Within
  <2> QED  BY <1>6, <2>2 DEF ReadStale, BudgetInv, stored
<1>7. CASE CleanupStale(c)
  <2>1. Within({Retried(m) : m \in Retriable(hand[c])}, MaxRetries)
    BY <1>0, <1>7, RetriesOf DEF CleanupStale, Retriable, Within
  <2>2. Within({Errored(Stamped(Retried(m))) : m \in Exhausted(hand[c])}, MaxRetries + 1)
    BY <1>0, <1>7, RetriesOf DEF CleanupStale, Exhausted, Within
  <2> QED  BY <1>7, <2>1, <2>2, ReturnBudget DEF CleanupStale, BudgetInv, Within
<1> QED  BY <1>1, <1>2, <1>3, <1>4, <1>5, <1>6, <1>7
         DEF Mark, MarkCompleted, MarkFailed, Cleanup

\* The steps of those who enqueue and dequeue.
LEMMA QueueBudget ==
  ASSUME IInv, BudgetInv,
         (\E i \in Items : EnqueueAt(i)) \/ \E d \in Dequeuers : Dequeue(d) \/ MoveFails(d)
  PROVE  BudgetInv'
<1>0. TypeOK /\ MaxRetries \in Nat
  BY QueueAssumption DEF IInv
<1>1. ASSUME NEW i \in Items, EnqueueAt(i) PROVE BudgetInv'
  BY <1>0, <1>1, RetriesOf DEF EnqueueAt, Enqueue, EnqueueDelayed, BudgetInv, Within, HandBudget
<1>2. ASSUME NEW d \in Dequeuers, Dequeue(d) \/ MoveFails(d) PROVE BudgetInv'
  <2>0. /\ d \in Clients /\ hand[d] \in SUBSET Member
        /\ pc[d] \notin {"requeue", "relabelF"} => Within(hand[d], MaxRetries)
    BY DEF Clients, IInv, TypeOK, BudgetInv, HandBudget
  <2>1. CASE ReadDue(d)
    <3>1. PICK due \in SUBSET delayed, point \in {"pop", "due"} : Goto(d, point, due)
      BY <2>1 DEF ReadDue
    <3>2. Within(due, MaxRetries)
      BY DEF BudgetInv, Within
    <3>3. (\A x \in Clients : HandBudget(x))'
      BY <2>0, <3>1, <3>2, GotoBudget
    <3> QED  BY <2>1, <3>3 DEF ReadDue, BudgetInv, stored
  <2>2. CASE MoveDue(d) \/ MoveFails(d)
    <3>1. pc[d] = "due" /\ Goto(d, "pop", {})
      BY <2>2 DEF MoveDue, MoveFails
    <3>2. (\A x \in Clients : HandBudget(x))'
      BY <2>0, <3>1, GotoBudget DEF Within
    <3> QED  BY <2>0, <2>2, <3>1, <3>2 DEF MoveDue, MoveFails, BudgetInv, Within, stored
  <2>3. CASE Pop(d)
    <3>1. PICK m \in queue : queue' = queue \ {m} /\ Goto(d, "popped", {m})
      BY <2>3 DEF Pop
    <3>2. (\A x \in Clients : HandBudget(x))'
      BY <2>0, <3>1, GotoBudget DEF BudgetInv, Within
    <3> QED  BY <2>3, <3>1, <3>2 DEF Pop, BudgetInv, Within
  <2>4. CASE PopEmpty(d)
    BY <2>0, <2>4, ReturnBudget DEF PopEmpty, BudgetInv, stored
  <2>5. CASE Store(d)
    <3>1. Within({Stamped(m) : m \in hand[d]}, MaxRetries)
      BY <1>0, <2>0, <2>5, RetriesOf DEF Store, Within
    <3> QED  BY <2>0, <2>5, <3>1, ReturnBudget DEF Store, BudgetInv, Within
  <2> QED  BY <1>2, <2>1, <2>2, <2>3, <2>4, <2>5 DEF Dequeue
<1> QED  BY <1>1, <1>2

\* The administrators' steps.
LEMMA AdminBudget ==
  ASSUME IInv, BudgetInv, NEW c \in Admins, Administer(c)
  PROVE  BudgetInv'
<1>0. /\ c \in Clients /\ TypeOK /\ MaxRetries \in Nat /\ hand[c] \in SUBSET Member
      /\ Within(hand[c], MaxRetries + 1)
      /\ pc[c] \notin {"requeue", "relabelF"} => Within(hand[c], MaxRetries)
  BY QueueAssumption, RetriesOf DEF Clients, IInv, TypeOK, BudgetInv, HandBudget, Within
<1>1. ASSUME NEW i \in Items, RequeueFailedTask(c, i) \/ UpdateTaskStatus(c, i) PROVE BudgetInv'
  <2>1. (\E m \in failed : Goto(c, "requeue", {m})) \/ Goto(c, "seekP", {NewMember(i)})
    BY <1>1 DEF RequeueFailedTask, UpdateTaskStatus, Of
  <2>2. ASSUME NEW m \in failed, Goto(c, "requeue", {m})
        PROVE  (\A x \in Clients : HandBudget(x))'
    <3>1. Within({m}, MaxRetries + 1)
      BY DEF BudgetInv, Within
    <3> QED  BY <1>0, <2>2, <3>1, GotoBudget
  <2>3. ASSUME Goto(c, "seekP", {NewMember(i)})
        PROVE  (\A x \in Clients : HandBudget(x))'
    <3>1. Within({NewMember(i)}, MaxRetries)
      BY <1>0, RetriesOf DEF Within
    <3> QED  BY <1>0, <2>3, <3>1, GotoBudget
  <2>4. (\A x \in Clients : HandBudget(x))'
    BY <2>1, <2>2, <2>3
  <2> QED  BY <1>1, <2>4 DEF RequeueFailedTask, UpdateTaskStatus, BudgetInv, stored
<1>2. CASE RequeueFailed(c)
  <2>1. Within({NewMember(m.id) : m \in hand[c]}, MaxRetries)
    <3>1. \A m \in hand[c] : m.id \in Items
      BY <1>0 DEF Member
    <3>2. \A i \in Items : NewMember(i).retry <= MaxRetries
      BY <1>0, RetriesOf
    <3> QED  BY <3>1, <3>2 DEF Within
  <2> QED  BY <1>0, <1>2, <2>1, ReturnBudget DEF RequeueFailed, BudgetInv, Within
<1>3. CASE SeekMember(c)
  <2>1. \/ \E n \in processing : Goto(c, "relabelP", {n})
        \/ \E n \in completed : Goto(c, "relabelC", {n})
        \/ \E n \in failed : Goto(c, "relabelF", {n})
        \/ /\ pc[c] \in {"seekP", "seekC", "seekF"}
           /\ \E next \in {"seekC", "seekF", "idle"} :
                 Goto(c, next, hand[c]) \/ Goto(c, next, {})
    BY <1>3 DEF SeekMember, Seek
  <2>2. ASSUME NEW n \in failed, Goto(c, "relabelF", {n})
        PROVE  (\A x \in Clients : HandBudget(x))'
    <3>1. Within({n}, MaxRetries + 1)
      BY DEF BudgetInv, Within
    <3> QED  BY <1>0, <2>2, <3>1, GotoBudget
  <2>3. ASSUME NEW n \in processing \cup completed, NEW point \in {"relabelP", "relabelC"},
               Goto(c, point, {n})
        PROVE  (\A x \in Clients : HandBudget(x))'
    <3>1. Within({n}, MaxRetries)
      BY DEF BudgetInv, Within
    <3> QED  BY <1>0, <2>3, <3>1, GotoBudget
  <2>4. ASSUME NEW next \in {"seekC", "seekF", "idle"}, pc[c] \in {"seekP", "seekC", "seekF"},
               NEW members \in {hand[c], {}}, Goto(c, next, members)
        PROVE  (\A x \in Clients : HandBudget(x))'
    <3>1. Within(members, MaxRetries)
      BY <1>0, <2>4 DEF Within
    <3> QED  BY <1>0, <2>4, <3>1, GotoBudget
  <2>5. (\A x \in Clients : HandBudget(x))'
    BY <2>1, <2>2, <2>3, <2>4
  <2> QED  BY <1>3, <2>5 DEF SeekMember, BudgetInv, stored
<1>4. CASE RewriteMember(c)
  <2>1. ASSUME NEW set, NEW new, NEW text \in BOOLEAN, NEW limit, Relabel(set, new, hand[c], text),
               Within(set, limit), Within(hand[c], limit)
        PROVE  Within(new, limit)
    BY <1>0, <2>1, RetriesOf DEF Relabel, Within
  <2>2. Within(processing', MaxRetries) /\ Within(completed', MaxRetries)
          /\ Within(failed', MaxRetries + 1)
    BY <1>0, <1>4, <2>1 DEF RewriteMember, BudgetInv
  <2> QED  BY <1>0, <1>4, <2>2, ReturnBudget DEF RewriteMember, BudgetInv
<1>5. CASE Clear(c)
  BY <1>5 DEF Clear, BudgetInv, Within, HandBudget
<1> QED  BY <1>1, <1>2, <1>3, <1>4, <1>5 DEF Administer

LEMMA NextBudget == IInv /\ BudgetInv /\ [Next]_vars => BudgetInv'
<1> SUFFICES ASSUME IInv, BudgetInv, [Next]_vars PROVE BudgetInv'
  OBVIOUS
<1>1. ASSUME NEW c \in Clients, Abort(c) PROVE BudgetInv'
  BY <1>1, ReturnBudget DEF Abort, BudgetInv, stored
<1>2. CASE UNCHANGED vars
  BY <1>2 DEF vars, stored, BudgetInv, HandBudget
<1> QED  BY <1>1, <1>2, QueueBudget, WorkerBudget, AdminBudget DEF Next, Work, Clients

\* However marks and clean-ups of any number of clients race for an item, no copy of it
\* that can still run has been retried more than MaxRetries times.
THEOREM BudgetKept == Spec => []RetryBudget
<1>1. Init => BudgetInv
  BY DEF Init, BudgetInv, Within, HandBudget
<1>2. IInv /\ BudgetInv => RetryBudget
  <2>1. ASSUME IInv, BudgetInv, NEW d \in Dequeuers, pc[d] = "popped"
        PROVE  Within(hand[d], MaxRetries)
    BY <2>1 DEF BudgetInv, HandBudget, Clients
  <2> QED  BY <2>1 DEF BudgetInv, Within, RetryBudget, InHand
<1> QED  BY <1>1, <1>2, InitIInv, NextIInv, NextBudget, PTL DEF Spec
-----------------------------------------------------------------------------
(* One client per role: an item is in one place, and the queue implements  *)
(* TaskLedger, for any items, priorities and retry limit.                  *)

\* One client dequeues, one marks what has run and cleans up (it may be the same), and
\* nobody administers the queue.  In the process that is deployed they are the
\* dispatcher and the retry manager.
OneEach(d, c) ==
    /\ Dequeuers = {d} /\ Markers \cup Cleaners \subseteq {c} /\ Admins = {}

\* An item is in one place, as one member, and in none before it is enqueued.
Sole ==
    /\ \A x, y \in Everywhere : x.id = y.id => x = y
    /\ \A x \in Everywhere : x \in Member /\ x.id \notin fresh
    /\ queue \cap (delayed \cup processing \cup completed \cup failed \cup InHand) = {}
    /\ delayed \cap (processing \cup completed \cup failed \cup InHand) = {}
    /\ processing \cap (completed \cup failed \cup InHand) = {}
    /\ completed \cap (failed \cup InHand) = {}
    /\ failed \cap InHand = {}

\* What a client has read is still where it read it: nobody else takes it away.
UpToDate ==
    /\ \A d \in Dequeuers : pc[d] = "due" => hand[d] \subseteq delayed
    /\ \A d \in Dequeuers : pc[d] = "popped" => \E m \in Member : hand[d] = {m}
    /\ \A c \in Markers \cup Cleaners :
          /\ pc[c] \in {"complete", "fail", "bury", "stale"} => hand[c] \subseteq processing
          /\ pc[c] \in {"complete", "fail", "bury"} => \E m \in Member : hand[c] = {m}
          /\ pc[c] = "bury" => \A m \in hand[c] : ~RetryAllowed(m)

Framed ==
    /\ pc = [c \in Clients |-> pc[c]] /\ hand = [c \in Clients |-> hand[c]]
    /\ fresh \subseteq Items /\ clock \in Nat

RInv == Framed /\ Sole /\ UpToDate

-----------------------------------------------------------------------------
(* Members.                                                                *)

\* What a step writes is a member of the same item, with as many tries or one more.
LEMMA Texts ==
  ASSUME NEW m \in Member, clock \in Nat
  PROVE  /\ Stamped(m) \in Member /\ Stamped(m).id = m.id /\ Stamped(m).retry = m.retry
         /\ Retried(m) \in Member /\ Retried(m).id = m.id /\ Retried(m).retry = m.retry + 1
BY DEF Stamped, Retried, Member

LEMMA ErrTexts ==
  ASSUME NEW m \in Member
  PROVE  Errored(m) \in Member /\ Errored(m).id = m.id /\ Errored(m).retry = m.retry
BY DEF Errored, Member

LEMMA NewTexts ==
  ASSUME NEW i \in Items
  PROVE  NewMember(i) \in Member /\ NewMember(i).id = i /\ NewMember(i).retry = 0
BY DEF NewMember, Member

\* What the one dequeuer has popped.
LEMMA HandOf ==
  ASSUME NEW d, NEW c, OneEach(d, c)
  PROVE  InHand = IF pc[d] = "popped" THEN hand[d] ELSE {}
BY DEF OneEach, InHand

LEMMA HandOfNext ==
  ASSUME NEW d, NEW c, OneEach(d, c)
  PROVE  InHand' = IF pc'[d] = "popped" THEN hand'[d] ELSE {}
BY DEF OneEach, InHand

LEMMA GotoEffect ==
  ASSUME Framed, NEW c \in Clients, NEW point, NEW members, Goto(c, point, members)
  PROVE  /\ pc' = [x \in Clients |-> pc'[x]] /\ hand' = [x \in Clients |-> hand'[x]]
         /\ pc'[c] = point /\ hand'[c] = members
         /\ \A x \in Clients \ {c} : pc'[x] = pc[x] /\ hand'[x] = hand[x]
BY DEF Framed, Goto

-----------------------------------------------------------------------------
(* An item stays in one place.                                             *)

LEMMA EnqueueKeepsSole ==
  ASSUME NEW d, NEW c, OneEach(d, c), RInv, NEW i \in Items, EnqueueAt(i)
  PROVE  RInv'
<1>1. NewMember(i) \in Member /\ NewMember(i).id = i
  BY NewTexts
<1>2. InHand' = InHand /\ i \in fresh /\ fresh' = fresh \ {i}
  BY DEF EnqueueAt, Enqueue, EnqueueDelayed, InHand
<1>3. Everywhere' = Everywhere \cup {NewMember(i)} /\ NewMember(i) \notin Everywhere
  BY <1>1, <1>2 DEF EnqueueAt, Enqueue, EnqueueDelayed, RInv, Sole, Everywhere
<1>4. Sole'
  BY <1>1, <1>2, <1>3 DEF EnqueueAt, Enqueue, EnqueueDelayed, RInv, Sole, Everywhere
<1> QED  BY <1>4 DEF EnqueueAt, Enqueue, EnqueueDelayed, RInv, UpToDate, Framed

\* The dequeuer moves what is still delayed, takes one member, and stores it.
LEMMA DequeueKeepsSole ==
  ASSUME NEW d, NEW c, OneEach(d, c), RInv, Dequeue(d) \/ MoveFails(d)
  PROVE  RInv'
<1>0. d \in Clients /\ d \in Dequeuers
  BY DEF OneEach, Clients
<1>1. CASE ReadDue(d)
  <2>1. PICK due \in SUBSET delayed : Goto(d, IF due = {} THEN "pop" ELSE "due", due)
    BY <1>1 DEF ReadDue
  <2>2. pc[d] = "idle" /\ UNCHANGED <<fresh, stored, clock>> /\ InHand = {} /\ InHand' = {}
    BY <1>0, <1>1, <2>1, HandOf, HandOfNext, GotoEffect DEF ReadDue, RInv
  <2>3. Sole'
    BY <2>2 DEF RInv, Sole, Everywhere, stored
  <2>4. Framed'
    BY <1>0, <2>1, <2>2, GotoEffect DEF RInv, Framed
  <2>5. UpToDate'
    BY <1>0, <2>1, <2>2, GotoEffect DEF RInv, UpToDate, OneEach, Clients, stored
  <2> QED  BY <2>3, <2>4, <2>5 DEF RInv
<1>2. CASE MoveDue(d)
  <2>1. InHand = {} /\ InHand' = {} /\ hand[d] \subseteq delayed
    BY <1>0, <1>2, HandOf, HandOfNext, GotoEffect DEF MoveDue, RInv, UpToDate
  <2>2. Everywhere' = Everywhere
    BY <1>2, <2>1 DEF MoveDue, Everywhere
  <2>3. Sole'
    BY <1>2, <2>1, <2>2 DEF MoveDue, RInv, Sole, Everywhere
  <2>4. Framed'
    BY <1>0, <1>2, GotoEffect DEF MoveDue, RInv, Framed
  <2>5. UpToDate'
    BY <1>0, <1>2, GotoEffect DEF MoveDue, RInv, UpToDate, OneEach, Clients
  <2> QED  BY <2>3, <2>4, <2>5 DEF RInv
<1>3. CASE MoveFails(d)
  <2>1. InHand = {} /\ InHand' = {}
    BY <1>0, <1>3, HandOf, HandOfNext, GotoEffect DEF MoveFails, RInv
  <2>2. Sole'
    BY <1>3, <2>1 DEF MoveFails, RInv, Sole, Everywhere, stored
  <2>3. Framed'
    BY <1>0, <1>3, GotoEffect DEF MoveFails, RInv, Framed
  <2>4. UpToDate'
    BY <1>0, <1>3, GotoEffect DEF MoveFails, RInv, UpToDate, OneEach, Clients, stored
  <2> QED  BY <2>2, <2>3, <2>4 DEF RInv
<1>4. CASE Pop(d)
  <2>1. PICK m \in queue : queue' = queue \ {m} /\ Goto(d, "popped", {m})
    BY <1>4 DEF Pop
  <2>2. InHand = {} /\ InHand' = {m} /\ m \in Member
    BY <1>0, <1>4, <2>1, HandOf, HandOfNext, GotoEffect DEF Pop, RInv, Sole, Everywhere
  <2>3. Everywhere' = Everywhere
    BY <1>4, <2>1, <2>2 DEF Pop, Everywhere
  <2>4. Sole'
    BY <1>4, <2>1, <2>2, <2>3 DEF Pop, RInv, Sole, Everywhere
  <2>5. Framed'
    BY <1>0, <1>4, <2>1, <2>2, GotoEffect DEF Pop, RInv, Framed
  <2>6. UpToDate'
    BY <1>0, <1>4, <2>1, <2>2, GotoEffect DEF Pop, RInv, UpToDate, OneEach, Clients
  <2> QED  BY <2>4, <2>5, <2>6 DEF RInv
<1>5. CASE PopEmpty(d)
  <2>1. InHand = {} /\ InHand' = {}
    BY <1>0, <1>5, HandOf, HandOfNext, GotoEffect DEF PopEmpty, Return, RInv
  <2>2. Sole'
    BY <1>5, <2>1 DEF PopEmpty, RInv, Sole, Everywhere, stored
  <2>3. Framed'
    BY <1>0, <1>5, GotoEffect DEF PopEmpty, Return, RInv, Framed
  <2>4. UpToDate'
    BY <1>0, <1>5, GotoEffect DEF PopEmpty, Return, RInv, UpToDate, OneEach, Clients, stored
  <2> QED  BY <2>2, <2>3, <2>4 DEF RInv
<1>6. CASE Store(d)
  <2>1. PICK m \in Member : hand[d] = {m}
    BY <1>0, <1>6 DEF Store, RInv, UpToDate
  <2>2. InHand = {m} /\ InHand' = {}
    BY <1>0, <1>6, <2>1, HandOf, HandOfNext, GotoEffect DEF Store, Return, RInv
  <2>3. processing' = processing \cup {Stamped(m)}
    BY <1>6, <2>1 DEF Store
  <2>4. Stamped(m) \in Member /\ Stamped(m).id = m.id
    BY Texts DEF RInv, Framed
  <2>5. Everywhere' = (Everywhere \ {m}) \cup {Stamped(m)} /\ m \in Everywhere
    BY <1>6, <2>2, <2>3 DEF Store, RInv, Sole, Everywhere
  <2>6. \A x \in Everywhere \ {m} : x.id # m.id
    BY <2>5 DEF RInv, Sole
  <2>7. Sole'
    BY <1>6, <2>2, <2>3, <2>4, <2>5, <2>6 DEF Store, RInv, Sole, Everywhere
  <2>8. Framed'
    BY <1>0, <1>6, <2>3, GotoEffect DEF Store, Tick, Return, RInv, Framed
  <2>9. UpToDate'
    BY <1>0, <1>6, <2>3, GotoEffect DEF Store, Tick, Return, RInv, UpToDate, OneEach, Clients
  <2> QED  BY <2>7, <2>8, <2>9 DEF RInv
<1> QED  BY <1>1, <1>2, <1>3, <1>4, <1>5, <1>6 DEF Dequeue

\* A step from and to a point at which nothing is popped.
LEMMA StillInHand ==
  ASSUME NEW d, NEW c, OneEach(d, c), Framed, NEW x \in Clients, NEW point, NEW members,
         Goto(x, point, members), pc[x] # "popped", point # "popped"
  PROVE  InHand' = InHand
<1>1. d \in Clients
  BY DEF OneEach, Clients
<1> QED  BY <1>1, HandOf, HandOfNext, GotoEffect

\* The marker's member is still being processed, and it leaves for one other place.
LEMMA MarkKeepsSole ==
  ASSUME NEW d, NEW c, OneEach(d, c), RInv, c \in Markers, Mark(c)
  PROVE  RInv'
<1>0. c \in Clients /\ c \in Markers \cup Cleaners
  BY DEF Clients
<1>1. ASSUME NEW i \in Items, NEW point \in {"complete", "fail"}, ReadForMark(c, i, point)
      PROVE  RInv'
  <2>1. PICK m \in processing : Goto(c, point, {m})
    BY <1>1 DEF ReadForMark, Of
  <2>2. pc[c] = "idle" /\ InHand' = InHand /\ UNCHANGED <<fresh, stored, clock>> /\ m \in Member
    BY <1>0, <1>1, <2>1, StillInHand DEF ReadForMark, RInv, Sole, Everywhere
  <2>3. Sole'
    BY <2>2 DEF RInv, Sole, Everywhere, stored
  <2>4. Framed'
    BY <1>0, <2>1, <2>2, GotoEffect DEF RInv, Framed
  <2>5. UpToDate'
    BY <1>0, <2>1, <2>2, GotoEffect DEF RInv, UpToDate, OneEach, Clients, stored
  <2> QED  BY <2>3, <2>4, <2>5 DEF RInv
<1>2. CASE MoveToCompleted(c)
  <2>1. PICK m \in processing : hand[c] = {m} /\ m \in Member
    BY <1>0, <1>2 DEF MoveToCompleted, RInv, UpToDate
  <2>2. InHand' = InHand
    BY <1>0, <1>2, StillInHand DEF MoveToCompleted, Return, RInv
  <2>3. completed' = completed \cup {Stamped(m)} /\ processing' = processing \ {m}
    BY <1>2, <2>1 DEF MoveToCompleted
  <2>4. Stamped(m) \in Member /\ Stamped(m).id = m.id
    BY <2>1, Texts DEF RInv, Framed
  <2>5. Everywhere' = (Everywhere \ {m}) \cup {Stamped(m)} /\ m \in Everywhere
    BY <1>2, <2>2, <2>3 DEF MoveToCompleted, RInv, Sole, Everywhere
  <2>6. \A x \in Everywhere \ {m} : x.id # m.id
    BY <2>5 DEF RInv, Sole
  <2>7. Sole'
    BY <1>2, <2>2, <2>3, <2>4, <2>5, <2>6 DEF MoveToCompleted, RInv, Sole, Everywhere
  <2>8. Framed'
    BY <1>0, <1>2, GotoEffect DEF MoveToCompleted, Tick, Return, RInv, Framed
  <2>9. UpToDate'
    BY <1>0, <1>2, GotoEffect DEF MoveToCompleted, Return, RInv, UpToDate, OneEach, Clients
  <2> QED  BY <2>7, <2>8, <2>9 DEF RInv
<1>3. CASE RequeueForRetry(c)
  <2>1. PICK m \in processing : hand[c] = {m} /\ m \in Member
    BY <1>0, <1>3 DEF RequeueForRetry, RInv, UpToDate
  <2> DEFINE new == Errored(Retried(m))
  <2>2. InHand' = InHand
    BY <1>0, <1>3, StillInHand DEF RequeueForRetry, Return, RInv
  <2>3. delayed' = delayed \cup {new} /\ processing' = processing \ {m}
    BY <1>3, <2>1 DEF RequeueForRetry
  <2>4. new \in Member /\ new.id = m.id
    BY <2>1, Texts, ErrTexts DEF RInv, Framed
  <2> HIDE DEF new
  <2>5. Everywhere' = (Everywhere \ {m}) \cup {new} /\ m \in Everywhere
    BY <1>3, <2>2, <2>3 DEF RequeueForRetry, RInv, Sole, Everywhere
  <2>6. \A x \in Everywhere \ {m} : x.id # m.id
    BY <2>5 DEF RInv, Sole
  <2>7. Sole'
    BY <1>3, <2>2, <2>3, <2>4, <2>5, <2>6 DEF RequeueForRetry, RInv, Sole, Everywhere
  <2>8. Framed'
    BY <1>0, <1>3, GotoEffect DEF RequeueForRetry, Tick, Return, RInv, Framed
  <2>9. UpToDate'
    BY <1>0, <1>3, <2>3, GotoEffect DEF RequeueForRetry, Return, RInv, UpToDate, OneEach, Clients
  <2> QED  BY <2>7, <2>8, <2>9 DEF RInv
<1>4. CASE ReadForBurial(c)
  <2>1. PICK m \in processing : hand[c] = {m} /\ m \in Member /\ ~RetryAllowed(m)
    BY <1>0, <1>4 DEF ReadForBurial, RInv, UpToDate
  <2>2. Goto(c, "bury", {m})
    <3>1. \A n \in processing : n.id = m.id => n = m
      BY DEF RInv, Sole, Everywhere
    <3> QED  BY <1>4, <2>1, <3>1 DEF ReadForBurial
  <2>3. pc[c] = "fail" /\ InHand' = InHand /\ UNCHANGED <<fresh, stored, clock>>
    BY <1>0, <1>4, <2>2, StillInHand DEF ReadForBurial, RInv
  <2>4. Sole'
    BY <2>3 DEF RInv, Sole, Everywhere, stored
  <2>5. Framed'
    BY <1>0, <2>2, <2>3, GotoEffect DEF RInv, Framed
  <2>6. RetryAllowed(m)' = RetryAllowed(m)
    BY DEF RetryAllowed
  <2>7. UpToDate'
    BY <1>0, <2>1, <2>2, <2>3, <2>6, GotoEffect
       DEF RInv, UpToDate, OneEach, Clients, stored, RetryAllowed
  <2> QED  BY <2>4, <2>5, <2>7 DEF RInv
<1>5. CASE MoveToFailed(c)
  <2>1. PICK m \in processing : hand[c] = {m} /\ m \in Member
    BY <1>0, <1>5 DEF MoveToFailed, RInv, UpToDate
  <2>2. InHand' = InHand
    BY <1>0, <1>5, StillInHand DEF MoveToFailed, Return, RInv
  <2>3. failed' = failed \cup {Stamped(m)} /\ processing' = processing \ {m}
    BY <1>5, <2>1 DEF MoveToFailed
  <2>4. Stamped(m) \in Member /\ Stamped(m).id = m.id
    BY <2>1, Texts DEF RInv, Framed
  <2>5. Everywhere' = (Everywhere \ {m}) \cup {Stamped(m)} /\ m \in Everywhere
    BY <1>5, <2>2, <2>3 DEF MoveToFailed, RInv, Sole, Everywhere
  <2>6. \A x \in Everywhere \ {m} : x.id # m.id
    BY <2>5 DEF RInv, Sole
  <2>7. Sole'
    BY <1>5, <2>2, <2>3, <2>4, <2>5, <2>6 DEF MoveToFailed, RInv, Sole, Everywhere
  <2>8. Framed'
    BY <1>0, <1>5, GotoEffect DEF MoveToFailed, Tick, Return, RInv, Framed
  <2>9. UpToDate'
    BY <1>0, <1>5, GotoEffect DEF MoveToFailed, Return, RInv, UpToDate, OneEach, Clients
  <2> QED  BY <2>7, <2>8, <2>9 DEF RInv
<1> QED  BY <1>1, <1>2, <1>3, <1>4, <1>5 DEF Mark, MarkCompleted, MarkFailed

\* All that the clean-up read is still being processed, and each member leaves for the queue
\* or for the failed set.
LEMMA CleanupKeepsSole ==
  ASSUME NEW d, NEW c, OneEach(d, c), RInv, c \in Cleaners, Cleanup(c)
  PROVE  RInv'
<1>0. c \in Clients /\ c \in Markers \cup Cleaners
  BY DEF Clients
<1>1. CASE ReadStale(c)
  <2>1. PICK stale \in SUBSET processing : Goto(c, "stale", stale)
    BY <1>1 DEF ReadStale
  <2>2. pc[c] = "idle" /\ InHand' = InHand /\ UNCHANGED <<fresh, stored, clock>>
    BY <1>0, <1>1, <2>1, StillInHand DEF ReadStale, RInv
  <2>3. Sole'
    BY <2>2 DEF RInv, Sole, Everywhere, stored
  <2>4. Framed'
    BY <1>0, <2>1, <2>2, GotoEffect DEF RInv, Framed
  <2>5. UpToDate'
    BY <1>0, <2>1, <2>2, GotoEffect DEF RInv, UpToDate, OneEach, Clients, stored
  <2> QED  BY <2>3, <2>4, <2>5 DEF RInv
<1>2. CASE CleanupStale(c)
  <2> DEFINE gone == hand[c]
             again == {Retried(m) : m \in Retriable(gone)}
             over == {Errored(Stamped(Retried(m))) : m \in Exhausted(gone)}
  <2>1. /\ gone \subseteq processing /\ processing' = processing \ gone
        /\ queue' = queue \cup again /\ failed' = failed \cup over
        /\ UNCHANGED <<fresh, delayed, completed>>
    BY <1>0, <1>2 DEF CleanupStale, RInv, UpToDate
  <2>2. InHand' = InHand
    BY <1>0, <1>2, StillInHand DEF CleanupStale, Return, RInv
  <2>3. /\ Retriable(gone) \subseteq gone /\ Exhausted(gone) \subseteq gone
        /\ Retriable(gone) \cap Exhausted(gone) = {} /\ \A m \in gone : m \in Member
    BY <2>1 DEF Retriable, Exhausted, RInv, Sole, Everywhere
  <2>4. \A y \in again : y \in Member /\ \E m \in Retriable(gone) : y = Retried(m) /\ y.id = m.id
    BY <2>3, Texts DEF RInv, Framed
  <2>5. \A y \in over : /\ y \in Member
                        /\ \E m \in Exhausted(gone) :
                              y = Errored(Stamped(Retried(m))) /\ y.id = m.id
    <3>1. \A m \in gone : /\ Retried(m) \in Member /\ Retried(m).id = m.id
                          /\ Stamped(Retried(m)) \in Member /\ Stamped(Retried(m)).id = m.id
      BY <2>3, Texts DEF RInv, Framed
    <3> QED  BY <2>3, <3>1, ErrTexts
  <2> HIDE DEF again, over
  <2>6. \A x, y \in again \cup over : x.id = y.id => x = y
    <3>1. \A m, n \in gone : m.id = n.id => m = n
      BY <2>1 DEF RInv, Sole, Everywhere
    <3> QED  BY <2>3, <2>4, <2>5, <3>1
  <2>7. \A y \in again \cup over : y.id \notin fresh /\ \A x \in Everywhere \ gone : x.id # y.id
    <3>1. \A m \in gone : m.id \notin fresh /\ \A x \in Everywhere \ gone : x.id # m.id
      BY <2>1 DEF RInv, Sole, Everywhere
    <3> QED  BY <2>3, <2>4, <2>5, <3>1
  <2>8. again \cap over = {}
    <3>1. \A m, n \in gone : m.id = n.id => m = n
      BY <2>1 DEF RInv, Sole, Everywhere
    <3> QED  BY <2>3, <2>4, <2>5, <3>1
  <2>9. Everywhere' = (Everywhere \ gone) \cup again \cup over
    BY <2>1, <2>2 DEF RInv, Sole, Everywhere
  <2>10. Sole'
    <3>1. /\ \A x, y \in Everywhere' : x.id = y.id => x = y
          /\ \A x \in Everywhere' : x \in Member /\ x.id \notin fresh'
      BY <2>1, <2>4, <2>5, <2>6, <2>7, <2>9 DEF RInv, Sole
    <3>2. \A y \in again \cup over : y \notin Everywhere \ gone
      BY <2>7
    <3>3. \A y \in again \cup over :
             y \notin queue \cup delayed \cup completed \cup failed \cup InHand
      BY <2>1, <3>2 DEF RInv, Sole, Everywhere
    <3>4. \A y \in again \cup over : y \notin processing \ gone
      BY <3>2 DEF Everywhere
    <3> QED  BY <2>1, <2>2, <2>8, <3>1, <3>3, <3>4 DEF RInv, Sole
  <2>11. Framed'
    BY <1>0, <1>2, GotoEffect DEF CleanupStale, Tick, Return, RInv, Framed
  <2>12. UpToDate'
    BY <1>0, <1>2, GotoEffect DEF CleanupStale, Return, RInv, UpToDate, OneEach, Clients
  <2> QED  BY <2>10, <2>11, <2>12 DEF RInv
<1> QED  BY <1>1, <1>2 DEF Cleanup

\* A call that breaks off takes with it what it had popped.
LEMMA AbortKeepsSole ==
  ASSUME NEW d, NEW c, OneEach(d, c), RInv, NEW x \in Clients, Abort(x)
  PROVE  RInv'
<1>0. d \in Clients
  BY DEF OneEach, Clients
<1>1. InHand' \subseteq InHand /\ UNCHANGED <<fresh, stored, clock>>
  BY <1>0, HandOf, HandOfNext, GotoEffect DEF Abort, Return, RInv
<1>2. Sole'
  BY <1>1 DEF RInv, Sole, Everywhere, stored
<1>3. Framed'
  BY <1>1, GotoEffect DEF Abort, Return, RInv, Framed
<1>4. UpToDate'
  BY <1>1, GotoEffect DEF Abort, Return, RInv, UpToDate, Clients, stored
<1> QED  BY <1>2, <1>3, <1>4 DEF RInv

LEMMA InitRInv == Init => RInv
BY DEF Init, RInv, Framed, Sole, UpToDate, Everywhere, InHand, Clients

LEMMA NextRInv ==
  ASSUME NEW d, NEW c, OneEach(d, c), RInv, [Next]_vars
  PROVE  RInv'
<1>1. CASE UNCHANGED vars
  <2>1. InHand' = InHand /\ UNCHANGED <<fresh, stored, clock, pc, hand>>
    BY <1>1 DEF vars, InHand
  <2>2. Sole' /\ Framed'
    BY <2>1 DEF stored, RInv, Sole, Framed, Everywhere
  <2>3. UpToDate'
    BY <2>1 DEF stored, RInv, UpToDate, RetryAllowed
  <2> QED  BY <2>2, <2>3 DEF RInv
<1>2. ASSUME NEW x \in Dequeuers, Dequeue(x) \/ MoveFails(x) PROVE RInv'
  BY <1>2, DequeueKeepsSole, x = d DEF OneEach
<1>3. ASSUME NEW x \in Markers, Mark(x) PROVE RInv'
  BY <1>3, MarkKeepsSole, x = c DEF OneEach
<1>4. ASSUME NEW x \in Cleaners, Cleanup(x) PROVE RInv'
  BY <1>4, CleanupKeepsSole, x = c DEF OneEach
<1>5. ~\E x \in Admins : Administer(x)
  BY DEF OneEach
<1> QED  BY <1>1, <1>2, <1>3, <1>4, <1>5, EnqueueKeepsSole, AbortKeepsSole DEF Next, Work

-----------------------------------------------------------------------------
(* What the ledger reads off.                                              *)

LEMMA CopiesEverywhere ==
  ASSUME NEW i
  PROVE  /\ \A x \in Copies(i) : x[2] \in Everywhere /\ x[2].id = i
         /\ \A m \in Everywhere : m.id = i => \E x \in Copies(i) : TRUE
<1>0. DOMAIN Places = {"queue", "delayed", "processing", "completed", "failed", "inhand"}
  BY DEF Places
<1>1. \A p \in DOMAIN Places : Places[p] \subseteq Everywhere
  BY DEF Places, Everywhere
<1>2. \A m \in Everywhere : \E p \in DOMAIN Places : m \in Places[p]
  <2> SUFFICES ASSUME NEW m \in Everywhere PROVE \E p \in DOMAIN Places : m \in Places[p]
    OBVIOUS
  <2>1. /\ Places["queue"] = queue /\ Places["delayed"] = delayed
        /\ Places["processing"] = processing /\ Places["completed"] = completed
        /\ Places["failed"] = failed /\ Places["inhand"] = InHand
    BY DEF Places
  <2> QED  BY <1>0, <2>1 DEF Everywhere
<1>3. ASSUME NEW x \in Copies(i) PROVE x[2] \in Everywhere /\ x[2].id = i
  <2>1. PICK p \in DOMAIN Places : x \in {p} \X Of(Places[p], i)
    BY <1>3 DEF Copies
  <2>2. x[2] \in Of(Places[p], i)
    BY <2>1
  <2> QED  BY <1>1, <2>2 DEF Of
<1>4. ASSUME NEW m \in Everywhere, m.id = i PROVE \E x \in Copies(i) : TRUE
  <2>1. PICK p \in DOMAIN Places : m \in Of(Places[p], i)
    BY <1>2, <1>4 DEF Of
  <2>2. <<p, m>> \in {p} \X Of(Places[p], i)
    BY <2>1
  <2> QED  BY <2>2 DEF Copies
<1> QED  BY <1>3, <1>4

\* The entry of an item says where its member is and how often it was tried.
Reads ==
    /\ \A m \in queue \cup delayed \cup InHand : LedgerState[m.id] = "waiting"
    /\ \A m \in processing : LedgerState[m.id] = "running"
    /\ \A m \in completed : LedgerState[m.id] = "completed"
    /\ \A m \in failed : LedgerState[m.id] = "failed"
    /\ \A m \in Everywhere : LedgerTries[m.id] = m.retry /\ m.id \in Items /\ m.retry \in Nat
    /\ \A i \in Items : (\A m \in Everywhere : m.id # i) =>
          LedgerState[i] = (IF i \in fresh THEN "absent" ELSE "lost") /\ LedgerTries[i] = 0

LEMMA ReadsNow == RInv => Reads
<1> SUFFICES ASSUME RInv PROVE Reads
  OBVIOUS
<1>1. \A m \in Everywhere : m.id \in Items /\ m.retry \in Nat /\ m.id \notin fresh
  BY DEF RInv, Sole, Member
<1>2. ASSUME NEW m \in queue \cup delayed \cup InHand PROVE LedgerState[m.id] = "waiting"
  <2>1. m \in Everywhere /\ m \in Of(queue \cup delayed \cup InHand, m.id)
    BY DEF Everywhere, Of
  <2>2. /\ Of(processing, m.id) = {} /\ Of(completed, m.id) = {}
        /\ Of(failed, m.id) = {}
    BY DEF Of, RInv, Sole, Everywhere
  <2> QED  BY <1>1, <2>1, <2>2 DEF LedgerState
<1>3. ASSUME NEW m \in processing PROVE LedgerState[m.id] = "running"
  <2>1. m \in Everywhere /\ m \in Of(processing, m.id)
    BY DEF Everywhere, Of
  <2>2. /\ Of(queue \cup delayed \cup InHand, m.id) = {} /\ Of(completed, m.id) = {}
        /\ Of(failed, m.id) = {}
    BY DEF Of, RInv, Sole, Everywhere
  <2> QED  BY <1>1, <2>1, <2>2 DEF LedgerState
<1>4. ASSUME NEW m \in completed PROVE LedgerState[m.id] = "completed"
  <2>1. m \in Everywhere /\ m \in Of(completed, m.id)
    BY DEF Everywhere, Of
  <2>2. /\ Of(queue \cup delayed \cup InHand, m.id) = {} /\ Of(processing, m.id) = {}
        /\ Of(failed, m.id) = {}
    BY DEF Of, RInv, Sole, Everywhere
  <2> QED  BY <1>1, <2>1, <2>2 DEF LedgerState
<1>5. ASSUME NEW m \in failed PROVE LedgerState[m.id] = "failed"
  <2>1. m \in Everywhere /\ m \in Of(failed, m.id)
    BY DEF Everywhere, Of
  <2>2. /\ Of(queue \cup delayed \cup InHand, m.id) = {} /\ Of(processing, m.id) = {}
        /\ Of(completed, m.id) = {}
    BY DEF Of, RInv, Sole, Everywhere
  <2> QED  BY <1>1, <2>1, <2>2 DEF LedgerState
<1>6. ASSUME NEW m \in Everywhere PROVE LedgerTries[m.id] = m.retry
  <2> DEFINE x == CHOOSE y \in Copies(m.id) : TRUE
  <2>1. \E y \in Copies(m.id) : TRUE
    BY CopiesEverywhere
  <2>2. x \in Copies(m.id)
    BY <2>1
  <2>3. x[2] = m
    BY <2>2, CopiesEverywhere DEF RInv, Sole
  <2> QED  BY <1>1, <2>1, <2>3 DEF LedgerTries
<1>7. ASSUME NEW i \in Items, \A m \in Everywhere : m.id # i
      PROVE  LedgerState[i] = (IF i \in fresh THEN "absent" ELSE "lost") /\ LedgerTries[i] = 0
  <2>1. ~\E x \in Copies(i) : TRUE
    BY <1>7, CopiesEverywhere
  <2>2. /\ Of(queue \cup delayed \cup InHand, i) = {} /\ Of(processing, i) = {}
        /\ Of(completed, i) = {} /\ Of(failed, i) = {}
    BY <1>7 DEF Of, Everywhere
  <2> QED  BY <2>1, <2>2 DEF LedgerState, LedgerTries
<1> QED  BY <1>1, <1>2, <1>3, <1>4, <1>5, <1>6, <1>7 DEF Reads

LEMMA ReadsNext == RInv' => Reads'
BY ReadsNow, PTL

-----------------------------------------------------------------------------
(* Every step is one of the ledger.                                        *)

Waiting == queue \cup delayed \cup InHand

ItemMoves(i) ==
    Ledger!ItemStep(i) \/ (LedgerState'[i] = LedgerState[i] /\ LedgerTries'[i] = LedgerTries[i])

\* An item whose member stays where it is keeps its entry.
LEMMA Stays ==
  ASSUME RInv, RInv', NEW i \in Items, i \in fresh <=> i \in fresh',
         \A m : m.id = i => /\ m \in Waiting <=> m \in Waiting'
                            /\ m \in processing <=> m \in processing'
                            /\ m \in completed <=> m \in completed'
                            /\ m \in failed <=> m \in failed'
  PROVE  ItemMoves(i)
<1>0. /\ Everywhere = Waiting \cup processing \cup completed \cup failed
      /\ Everywhere' = Waiting' \cup processing' \cup completed' \cup failed'
  BY DEF Everywhere, Waiting
<1>1. Reads /\ Reads'
  BY ReadsNow, ReadsNext
<1>2. CASE \E m \in Everywhere : m.id = i
  <2>1. PICK m \in Everywhere : m.id = i
    BY <1>2
  <2>2. m \in Everywhere'
    BY <1>0, <2>1
  <2> QED  BY <1>0, <1>1, <2>1, <2>2 DEF Reads, Waiting, ItemMoves
<1>3. CASE \A m \in Everywhere : m.id # i
  <2>1. \A m \in Everywhere' : m.id # i
    BY <1>0, <1>3
  <2> QED  BY <1>1, <1>3, <2>1 DEF Reads, ItemMoves
<1> QED  BY <1>2, <1>3

LEMMA EnqueueMoves ==
  ASSUME RInv, RInv', NEW i \in Items, EnqueueAt(i)
  PROVE  \A j \in Items : ItemMoves(j)
<1>0. NewMember(i).id = i /\ NewMember(i).retry = 0
  BY NewTexts
<1>1. Reads /\ Reads'
  BY ReadsNow, ReadsNext
<1>2. /\ InHand' = InHand /\ i \in fresh /\ fresh' = fresh \ {i}
      /\ Waiting' = Waiting \cup {NewMember(i)} /\ UNCHANGED <<processing, completed, failed>>
  BY DEF EnqueueAt, Enqueue, EnqueueDelayed, InHand, Waiting
<1>3. LedgerState[i] = "absent" /\ LedgerTries[i] = 0
  <2>1. \A m \in Everywhere : m.id # i
    BY <1>2 DEF RInv, Sole
  <2> QED  BY <1>1, <1>2, <2>1 DEF Reads
<1>4. LedgerState'[i] = "waiting" /\ LedgerTries'[i] = 0
  <2>1. NewMember(i) \in Waiting' /\ NewMember(i) \in Everywhere'
    BY <1>2 DEF Waiting, Everywhere
  <2> QED  BY <1>0, <1>1, <2>1 DEF Reads, Waiting
<1>5. ItemMoves(i)
  BY <1>3, <1>4 DEF ItemMoves, Ledger!ItemStep, Ledger!Move
<1>6. ASSUME NEW j \in Items \ {i} PROVE ItemMoves(j)
  BY <1>0, <1>2, Stays
<1> QED  BY <1>5, <1>6

\* Until it is stored, an item that is moved or popped goes on waiting.
LEMMA StillWaiting ==
  ASSUME NEW d, NEW c, OneEach(d, c), RInv,
         ReadDue(d) \/ MoveDue(d) \/ Pop(d) \/ PopEmpty(d) \/ MoveFails(d)
  PROVE  Waiting' = Waiting /\ UNCHANGED <<fresh, processing, completed, failed>>
<1>0. d \in Clients /\ d \in Dequeuers
  BY DEF OneEach, Clients
<1>1. UNCHANGED <<fresh, processing, completed, failed>>
  BY DEF ReadDue, MoveDue, Pop, PopEmpty, MoveFails, stored
<1>2. CASE ReadDue(d) \/ PopEmpty(d) \/ MoveFails(d)
  <2>1. InHand = {} /\ InHand' = {}
    BY <1>0, <1>2, HandOf, HandOfNext, GotoEffect DEF ReadDue, PopEmpty, MoveFails, Return, RInv
  <2> QED  BY <1>1, <1>2, <2>1 DEF ReadDue, PopEmpty, MoveFails, stored, Waiting
<1>3. CASE MoveDue(d)
  <2>1. InHand = {} /\ InHand' = {} /\ hand[d] \subseteq delayed
    BY <1>0, <1>3, HandOf, HandOfNext, GotoEffect DEF MoveDue, RInv, UpToDate
  <2> QED  BY <1>1, <1>3, <2>1 DEF MoveDue, Waiting
<1>4. CASE Pop(d)
  <2>1. PICK m \in queue : queue' = queue \ {m} /\ Goto(d, "popped", {m})
    BY <1>4 DEF Pop
  <2>2. InHand = {} /\ InHand' = {m}
    BY <1>0, <1>4, <2>1, HandOf, HandOfNext, GotoEffect DEF Pop, RInv
  <2> QED  BY <1>1, <1>4, <2>1, <2>2 DEF Pop, Waiting
<1> QED  BY <1>2, <1>3, <1>4

LEMMA DequeueMoves ==
  ASSUME NEW d, NEW c, OneEach(d, c), RInv, RInv', Dequeue(d) \/ MoveFails(d)
  PROVE  \A i \in Items : ItemMoves(i)
<1>0. d \in Clients /\ d \in Dequeuers
  BY DEF OneEach, Clients
<1>1. CASE ReadDue(d) \/ MoveDue(d) \/ Pop(d) \/ PopEmpty(d) \/ MoveFails(d)
  BY <1>1, StillWaiting, Stays
<1>2. CASE Store(d)
  <2>1. PICK m \in Member : hand[d] = {m}
    BY <1>0, <1>2 DEF Store, RInv, UpToDate
  <2>2. InHand = {m} /\ InHand' = {}
    BY <1>0, <1>2, <2>1, HandOf, HandOfNext, GotoEffect DEF Store, Return, RInv
  <2>3. /\ processing' = processing \cup {Stamped(m)}
        /\ UNCHANGED <<fresh, queue, delayed, completed, failed>>
    BY <1>2, <2>1 DEF Store
  <2>4. Stamped(m).id = m.id /\ Stamped(m).retry = m.retry /\ m.id \in Items
    BY Texts DEF RInv, Framed, Member
  <2>5. ItemMoves(m.id)
    <3>1. m \in Everywhere /\ Stamped(m) \in processing' /\ Stamped(m) \in Everywhere'
      BY <2>2, <2>3 DEF Everywhere
    <3>2. /\ LedgerState[m.id] = "waiting" /\ LedgerTries[m.id] = m.retry
          /\ LedgerState'[m.id] = "running" /\ LedgerTries'[m.id] = m.retry
      BY <2>2, <2>4, <3>1, ReadsNow, ReadsNext DEF Reads
    <3> QED  BY <3>2 DEF ItemMoves, Ledger!ItemStep, Ledger!Move
  <2>6. ASSUME NEW i \in Items \ {m.id} PROVE ItemMoves(i)
    BY <2>2, <2>3, <2>4, Stays DEF Waiting
  <2> QED  BY <2>5, <2>6
<1> QED  BY <1>1, <1>2 DEF Dequeue

LEMMA MarkMoves ==
  ASSUME NEW d, NEW c, OneEach(d, c), RInv, RInv', c \in Markers, Mark(c)
  PROVE  \A i \in Items : ItemMoves(i)
<1>0. c \in Clients /\ c \in Markers \cup Cleaners
  BY DEF Clients
<1>1. ASSUME NEW i \in Items, NEW point \in {"complete", "fail"}, ReadForMark(c, i, point)
      PROVE  \A j \in Items : ItemMoves(j)
  <2>1. InHand' = InHand /\ UNCHANGED <<fresh, stored>>
    BY <1>0, <1>1, StillInHand DEF ReadForMark, RInv
  <2> QED  BY <2>1, Stays DEF stored, Waiting
<1>2. CASE ReadForBurial(c)
  <2>1. InHand' = InHand /\ UNCHANGED <<fresh, stored>>
    BY <1>0, <1>2, StillInHand DEF ReadForBurial, Return, RInv
  <2> QED  BY <2>1, Stays DEF stored, Waiting
<1>3. CASE MoveToCompleted(c)
  <2>1. PICK m \in processing : hand[c] = {m} /\ m \in Member
    BY <1>0, <1>3 DEF MoveToCompleted, RInv, UpToDate
  <2>2. Waiting' = Waiting
    BY <1>0, <1>3, StillInHand DEF MoveToCompleted, Return, RInv, Waiting
  <2>3. /\ completed' = completed \cup {Stamped(m)} /\ processing' = processing \ {m}
        /\ UNCHANGED <<fresh, failed>>
    BY <1>3, <2>1 DEF MoveToCompleted
  <2>4. Stamped(m).id = m.id /\ Stamped(m).retry = m.retry /\ m.id \in Items
    BY <2>1, Texts DEF RInv, Framed, Member
  <2>5. ItemMoves(m.id)
    <3>1. m \in Everywhere /\ Stamped(m) \in completed' /\ Stamped(m) \in Everywhere'
      BY <2>3 DEF Everywhere
    <3>2. /\ LedgerState[m.id] = "running" /\ LedgerTries[m.id] = m.retry
          /\ LedgerState'[m.id] = "completed" /\ LedgerTries'[m.id] = m.retry
      BY <2>4, <3>1, ReadsNow, ReadsNext DEF Reads
    <3> QED  BY <3>2 DEF ItemMoves, Ledger!ItemStep, Ledger!Move
  <2>6. ASSUME NEW i \in Items \ {m.id} PROVE ItemMoves(i)
    BY <2>2, <2>3, <2>4, Stays
  <2> QED  BY <2>5, <2>6
<1>4. CASE RequeueForRetry(c)
  <2>1. PICK m \in processing : hand[c] = {m} /\ m \in Member
    BY <1>0, <1>4 DEF RequeueForRetry, RInv, UpToDate
  <2> DEFINE new == Errored(Retried(m))
  <2>2. /\ delayed' = delayed \cup {new} /\ processing' = processing \ {m}
        /\ m.retry < MaxRetries /\ UNCHANGED <<fresh, completed, failed>>
    BY <1>4, <2>1 DEF RequeueForRetry, RetryAllowed
  <2>3. new.id = m.id /\ new.retry = m.retry + 1 /\ m.id \in Items
    BY <2>1, Texts, ErrTexts DEF RInv, Framed, Member
  <2> HIDE DEF new
  <2>4. Waiting' = Waiting \cup {new}
    BY <1>0, <1>4, <2>2, StillInHand DEF RequeueForRetry, Return, RInv, Waiting
  <2>5. ItemMoves(m.id)
    <3>1. m \in Everywhere /\ new \in delayed' /\ new \in Everywhere'
      BY <2>2 DEF Everywhere
    <3>2. /\ LedgerState[m.id] = "running" /\ LedgerTries[m.id] = m.retry
          /\ LedgerState'[m.id] = "waiting" /\ LedgerTries'[m.id] = m.retry + 1
      BY <2>3, <3>1, ReadsNow, ReadsNext DEF Reads
    <3> QED  BY <2>2, <3>2 DEF ItemMoves, Ledger!ItemStep, Ledger!Move
  <2>6. ASSUME NEW i \in Items \ {m.id} PROVE ItemMoves(i)
    BY <2>2, <2>3, <2>4, Stays
  <2> QED  BY <2>5, <2>6
<1>5. CASE MoveToFailed(c)
  <2>1. PICK m \in processing : hand[c] = {m} /\ m \in Member /\ ~RetryAllowed(m)
    BY <1>0, <1>5 DEF MoveToFailed, RInv, UpToDate
  <2>2. Waiting' = Waiting
    BY <1>0, <1>5, StillInHand DEF MoveToFailed, Return, RInv, Waiting
  <2>3. /\ failed' = failed \cup {Stamped(m)} /\ processing' = processing \ {m}
        /\ UNCHANGED <<fresh, completed>>
    BY <1>5, <2>1 DEF MoveToFailed
  <2>4. Stamped(m).id = m.id /\ Stamped(m).retry = m.retry /\ m.id \in Items
    BY <2>1, Texts DEF RInv, Framed, Member
  <2>5. ItemMoves(m.id)
    <3>1. m \in Everywhere /\ Stamped(m) \in failed' /\ Stamped(m) \in Everywhere'
      BY <2>3 DEF Everywhere
    <3>2. /\ LedgerState[m.id] = "running" /\ LedgerTries[m.id] = m.retry
          /\ LedgerState'[m.id] = "failed" /\ LedgerTries'[m.id] = m.retry
      BY <2>4, <3>1, ReadsNow, ReadsNext DEF Reads
    <3>3. m.retry + 1 >= MaxRetries
      BY <2>1, QueueAssumption DEF RetryAllowed, Member
    <3> QED  BY <3>2, <3>3 DEF ItemMoves, Ledger!ItemStep, Ledger!Move
  <2>6. ASSUME NEW i \in Items \ {m.id} PROVE ItemMoves(i)
    BY <2>2, <2>3, <2>4, Stays
  <2> QED  BY <2>5, <2>6
<1> QED  BY <1>1, <1>2, <1>3, <1>4, <1>5 DEF Mark, MarkCompleted, MarkFailed

LEMMA CleanupMoves ==
  ASSUME NEW d, NEW c, OneEach(d, c), RInv, RInv', c \in Cleaners, Cleanup(c)
  PROVE  \A i \in Items : ItemMoves(i)
<1>0. c \in Clients /\ c \in Markers \cup Cleaners
  BY DEF Clients
<1>1. CASE ReadStale(c)
  <2>1. InHand' = InHand /\ UNCHANGED <<fresh, stored>>
    BY <1>0, <1>1, StillInHand DEF ReadStale, RInv
  <2> QED  BY <2>1, Stays DEF stored, Waiting
<1>2. CASE CleanupStale(c)
  <2> DEFINE gone == hand[c]
             again == {Retried(m) : m \in Retriable(gone)}
             over == {Errored(Stamped(Retried(m))) : m \in Exhausted(gone)}
  <2>1. /\ gone \subseteq processing /\ processing' = processing \ gone
        /\ queue' = queue \cup again /\ failed' = failed \cup over
        /\ UNCHANGED <<fresh, completed>>
    BY <1>0, <1>2 DEF CleanupStale, RInv, UpToDate
  <2>2. Waiting' = Waiting \cup again
    BY <1>0, <1>2, <2>1, StillInHand DEF CleanupStale, Return, RInv, Waiting
  <2>3. /\ \A m \in Retriable(gone) : m \in gone /\ m.retry + 1 < MaxRetries
        /\ \A m \in Exhausted(gone) : m \in gone /\ ~(m.retry + 1 < MaxRetries)
        /\ \A m \in gone : m \in Member /\ (m \in Retriable(gone) \/ m \in Exhausted(gone))
    BY <2>1 DEF Retriable, Exhausted, RInv, Sole, Everywhere
  <2>4. ASSUME NEW m \in gone
        PROVE  /\ Retried(m).id = m.id /\ Retried(m).retry = m.retry + 1
               /\ Errored(Stamped(Retried(m))).id = m.id
               /\ Errored(Stamped(Retried(m))).retry = m.retry + 1
    <3>0. m \in Member /\ clock \in Nat
      BY <2>3 DEF RInv, Framed
    <3>1. Retried(m) \in Member /\ Retried(m).id = m.id /\ Retried(m).retry = m.retry + 1
      BY <3>0, Texts
    <3> DEFINE r == Retried(m)
    <3> HIDE DEF r
    <3>2. Stamped(r) \in Member /\ Stamped(r).id = r.id /\ Stamped(r).retry = r.retry
      BY <3>0, <3>1, Texts DEF r
    <3>3. Errored(Stamped(r)).id = r.id /\ Errored(Stamped(r)).retry = r.retry
      BY <3>2, ErrTexts
    <3> QED  BY <3>1, <3>3 DEF r
  <2>5. ASSUME NEW m \in gone PROVE ItemMoves(m.id)
    <3>1. /\ LedgerState[m.id] = "running" /\ LedgerTries[m.id] = m.retry
          /\ m.retry \in Nat
      BY <2>1, ReadsNow DEF Reads, Everywhere
    <3>2. CASE m \in Retriable(gone)
      <4>1. Retried(m) \in queue' /\ Retried(m) \in Everywhere'
        BY <2>1, <3>2 DEF Everywhere
      <4>2. LedgerState'[m.id] = "waiting" /\ LedgerTries'[m.id] = m.retry + 1
        BY <2>4, <4>1, ReadsNext DEF Reads
      <4>3. m.retry < MaxRetries
        BY <2>3, <3>1, <3>2, QueueAssumption
      <4> QED  BY <3>1, <4>2, <4>3 DEF ItemMoves, Ledger!ItemStep, Ledger!Move
    <3>3. CASE m \in Exhausted(gone)
      <4>1. /\ Errored(Stamped(Retried(m))) \in failed'
            /\ Errored(Stamped(Retried(m))) \in Everywhere'
        BY <2>1, <3>3 DEF Everywhere
      <4>2. LedgerState'[m.id] = "failed" /\ LedgerTries'[m.id] = m.retry + 1
        BY <2>4, <4>1, ReadsNext DEF Reads
      <4>3. m.retry + 1 >= MaxRetries
        BY <2>3, <3>1, <3>3, QueueAssumption
      <4> QED  BY <3>1, <4>2, <4>3 DEF ItemMoves, Ledger!ItemStep, Ledger!Move
    <3> QED  BY <2>3, <3>2, <3>3
  <2>6. ASSUME NEW i \in Items, \A m \in gone : m.id # i PROVE ItemMoves(i)
    <3>1. \A m \in again \cup over : m.id # i
      BY <2>3, <2>4, <2>6
    <3> QED  BY <2>1, <2>2, <2>6, <3>1, Stays
  <2> QED  BY <2>5, <2>6
<1> QED  BY <1>1, <1>2 DEF Cleanup

LEMMA AbortMoves ==
  ASSUME NEW d, NEW c, OneEach(d, c), RInv, RInv', NEW x \in Clients, Abort(x)
  PROVE  \A i \in Items : ItemMoves(i)
<1>0. d \in Clients /\ d \in Dequeuers
  BY DEF OneEach, Clients
<1>1. UNCHANGED <<fresh, stored>> /\ Goto(x, "idle", {})
  BY DEF Abort, Return
<1>2. CASE x = d /\ pc[d] = "popped"
  <2>1. PICK m \in Member : hand[d] = {m}
    BY <1>0, <1>2 DEF RInv, UpToDate
  <2>2. InHand = {m} /\ InHand' = {}
    BY <1>0, <1>1, <1>2, <2>1, HandOf, HandOfNext, GotoEffect DEF RInv
  <2>3. m.id \in Items
    BY DEF Member
  <2>4. ItemMoves(m.id)
    <3>1. m \in Everywhere /\ Everywhere' = Everywhere \ {m} /\ m.id \notin fresh'
      BY <1>1, <2>2 DEF stored, Everywhere, RInv, Sole
    <3>2. \A n \in Everywhere' : n.id # m.id
      BY <3>1 DEF RInv, Sole
    <3>3. /\ LedgerState[m.id] = "waiting"
          /\ LedgerState'[m.id] = "lost" /\ LedgerTries'[m.id] = 0
      BY <2>2, <2>3, <3>1, <3>2, ReadsNow, ReadsNext DEF Reads
    <3> QED  BY <3>3 DEF ItemMoves, Ledger!ItemStep, Ledger!Move
  <2>5. ASSUME NEW i \in Items \ {m.id} PROVE ItemMoves(i)
    BY <1>1, <2>2, Stays DEF stored, Waiting
  <2> QED  BY <2>4, <2>5
<1>3. CASE ~(x = d /\ pc[d] = "popped")
  <2>1. InHand' = InHand
    BY <1>0, <1>1, <1>3, HandOf, HandOfNext, GotoEffect DEF RInv
  <2> QED  BY <1>1, <2>1, Stays DEF stored, Waiting
<1> QED  BY <1>2, <1>3

-----------------------------------------------------------------------------
\* With one client per role an item is in one place at a time: no command acts on what
\* another has changed since it was read.
THEOREM OnePlace ==
  ASSUME NEW d, NEW c, OneEach(d, c)
  PROVE  Spec => []SingleCopy
<1>1. RInv => SingleCopy
  <2> SUFFICES ASSUME RInv, NEW i \in Items, NEW x \in Copies(i), NEW y \in Copies(i)
               PROVE  x = y
    BY DEF SingleCopy
  <2>1. x[2] = y[2]
    BY CopiesEverywhere DEF RInv, Sole
  <2>2. PICK p \in DOMAIN Places : x \in {p} \X Of(Places[p], i)
    BY DEF Copies
  <2>3. PICK q \in DOMAIN Places : y \in {q} \X Of(Places[q], i)
    BY DEF Copies
  <2>4. x = <<p, x[2]>> /\ y = <<q, y[2]>> /\ x[2] \in Places[p] /\ y[2] \in Places[q]
    BY <2>2, <2>3 DEF Of
  <2>5. p = q
    BY <2>1, <2>4 DEF Places, RInv, Sole
  <2> QED  BY <2>1, <2>4, <2>5
<1>2. ASSUME RInv, [Next]_vars PROVE RInv'
  BY <1>2, NextRInv
<1> QED  BY <1>1, <1>2, InitRInv, PTL DEF Spec

\* With one client per role the queue implements the ledger: each command, of whichever
\* client and wherever a call breaks off, moves each item as the ledger allows.
THEOREM QueueImplementsLedger ==
  ASSUME NEW d, NEW c, OneEach(d, c)
  PROVE  Spec => ImplementsLedger
<1>1. Init => Ledger!Init
  <2> SUFFICES ASSUME Init PROVE Ledger!Init
    OBVIOUS
  <2>1. RInv /\ Everywhere = {} /\ fresh = Items
    <3>1. InHand = {}
      BY DEF Init, InHand, Clients
    <3> QED  BY <3>1, InitRInv DEF Init, Everywhere
  <2>2. \A i \in Items : LedgerState[i] = "absent" /\ LedgerTries[i] = 0
    BY <2>1, ReadsNow DEF Reads
  <2> QED  BY <2>2 DEF LedgerState, LedgerTries, Ledger!Init
<1>2. ASSUME RInv, [Next]_vars PROVE RInv'
  BY <1>2, NextRInv
<1>3. ASSUME RInv, RInv', [Next]_vars PROVE [Ledger!Next]_<<LedgerState, LedgerTries>>
  <2>1. ASSUME UNCHANGED vars PROVE \A i \in Items : ItemMoves(i)
    <3>1. Waiting' = Waiting /\ UNCHANGED <<fresh, processing, completed, failed>>
      BY <2>1 DEF vars, stored, Waiting, InHand
    <3> QED  BY <1>3, <3>1, Stays
  <2>2. ASSUME NEW x \in Dequeuers, Dequeue(x) \/ MoveFails(x) PROVE \A i \in Items : ItemMoves(i)
    BY <1>3, <2>2, DequeueMoves, x = d DEF OneEach
  <2>3. ASSUME NEW x \in Markers, Mark(x) PROVE \A i \in Items : ItemMoves(i)
    BY <1>3, <2>3, MarkMoves, x = c DEF OneEach
  <2>4. ASSUME NEW x \in Cleaners, Cleanup(x) PROVE \A i \in Items : ItemMoves(i)
    BY <1>3, <2>4, CleanupMoves, x = c DEF OneEach
  <2>5. ~\E x \in Admins : Administer(x)
    BY DEF OneEach
  <2>6. \A i \in Items : ItemMoves(i)
    BY <1>3, <2>1, <2>2, <2>3, <2>4, <2>5, EnqueueMoves, AbortMoves DEF Next, Work
  <2> QED  BY <2>6 DEF ItemMoves, Ledger!Next
<1> QED  BY <1>1, <1>2, <1>3, InitRInv, PTL DEF Spec, ImplementsLedger, Ledger!Spec

-----------------------------------------------------------------------------
(* With one client per role the counters are the sizes of the sets.        *)

\* The sets that are counted are finite, and each counter is the size of its set.
Exact == IsFiniteSet(Everywhere) /\ IsFiniteSet(Lost) /\ StatsExact

CInv == IInv /\ RInv /\ Exact

\* Counting: one member more or less, a set joined to another or taken out of it, and
\* an image under a function that keeps members apart.
LEMMA OneMore ==
  ASSUME NEW S, IsFiniteSet(S), NEW x, x \notin S
  PROVE  Cardinality(S \cup {x}) = Cardinality(S) + 1 /\ Cardinality(S) \in Nat
BY FS_AddElement, FS_CardinalityType

LEMMA OneLess ==
  ASSUME NEW S, IsFiniteSet(S), NEW x \in S
  PROVE  Cardinality(S \ {x}) = Cardinality(S) - 1 /\ Cardinality(S) \in Nat
BY FS_RemoveElement, FS_CardinalityType

LEMMA Joined ==
  ASSUME NEW S, IsFiniteSet(S), NEW T, IsFiniteSet(T), S \cap T = {}
  PROVE  /\ Cardinality(S \cup T) = Cardinality(S) + Cardinality(T)
         /\ Cardinality(S) \in Nat /\ Cardinality(T) \in Nat
<1>1. Cardinality(S \cup T) = Cardinality(S) + Cardinality(T) - Cardinality(S \cap T)
  BY FS_Union
<1>2. Cardinality(S \cap T) = 0
  BY FS_EmptySet
<1>3. Cardinality(S) \in Nat /\ Cardinality(T) \in Nat
  BY FS_CardinalityType
<1> QED  BY <1>1, <1>2, <1>3

LEMMA Parted ==
  ASSUME NEW S, IsFiniteSet(S), NEW T \in SUBSET S
  PROVE  /\ Cardinality(S \ T) = Cardinality(S) - Cardinality(T)
         /\ Cardinality(S) \in Nat /\ Cardinality(T) \in Nat
<1>1. S \cap T = T /\ IsFiniteSet(T)
  BY FS_Subset
<1> QED  BY <1>1, FS_Difference, FS_CardinalityType

LEMMA OneToOne ==
  ASSUME NEW S, IsFiniteSet(S), NEW T, NEW f \in [S -> T],
         \A x, y \in S : f[x] = f[y] => x = y, \A t \in T : \E x \in S : f[x] = t
  PROVE  IsFiniteSet(T) /\ Cardinality(T) = Cardinality(S)
<1>1. f \in Bijection(S, T)
  BY DEF Bijection, Injection, Surjection, IsInjective
<1> QED  BY <1>1, FS_Bijection DEF ExistsBijection

\* Every set of the queue is finite.
LEMMA AllFinite ==
  ASSUME Exact
  PROVE  /\ IsFiniteSet(queue) /\ IsFiniteSet(delayed) /\ IsFiniteSet(processing)
         /\ IsFiniteSet(completed) /\ IsFiniteSet(failed) /\ IsFiniteSet(InHand)
         /\ Cardinality(queue) \in Nat /\ Cardinality(delayed) \in Nat
         /\ Cardinality(processing) \in Nat /\ Cardinality(completed) \in Nat
         /\ Cardinality(failed) \in Nat /\ Cardinality(InHand) \in Nat
         /\ Cardinality(Lost) \in Nat
<1>1. \A S \in SUBSET Everywhere : IsFiniteSet(S) /\ Cardinality(S) \in Nat
  BY FS_Subset, FS_CardinalityType DEF Exact
<1>2. Cardinality(Lost) \in Nat
  BY FS_CardinalityType DEF Exact
<1> QED  BY <1>1, <1>2 DEF Everywhere

\* What is lost, read off the members.
LEMMA LostOf ==
  /\ Lost = {i \in Items \ fresh : \A m \in Everywhere : m.id # i}
  /\ Lost' = {i \in Items \ fresh' : \A m \in Everywhere' : m.id # i}
BY PresentHeld, PresentHeldNext DEF Lost

\* A step that keeps every id loses nothing.
LEMMA LostStays ==
  ASSUME fresh' = fresh, \A m \in Everywhere : \E n \in Everywhere' : n.id = m.id,
         \A n \in Everywhere' : \E m \in Everywhere : n.id = m.id
  PROVE  Lost' = Lost
BY LostOf

\* A step that writes no set and no counter.
LEMMA StaysExact ==
  ASSUME Exact, UNCHANGED <<fresh, stored, stats>>, InHand' = InHand
  PROVE  Exact'
<1>1. Everywhere' = Everywhere
  BY DEF Everywhere, stored
<1>2. Lost' = Lost
  BY <1>1, LostStays
<1> QED  BY <1>1, <1>2 DEF Exact, StatsExact, stored

-----------------------------------------------------------------------------
\* A new item is one member more and counted once.
LEMMA EnqueueExact ==
  ASSUME NEW d, NEW c, OneEach(d, c), CInv, NEW i \in Items, EnqueueAt(i)
  PROVE  Exact'
<1> DEFINE new == NewMember(i)
<1>1. new \in Member /\ new.id = i
  BY NewTexts
<1> HIDE DEF new
<1>2. InHand' = InHand /\ i \in fresh /\ fresh' = fresh \ {i}
  BY DEF EnqueueAt, Enqueue, EnqueueDelayed, InHand
<1>3. Everywhere' = Everywhere \cup {new} /\ new \notin Everywhere
  BY <1>1, <1>2 DEF EnqueueAt, Enqueue, EnqueueDelayed, CInv, RInv, Sole, Everywhere, new
<1>4. Lost' = Lost
  BY <1>1, <1>2, <1>3, LostOf DEF CInv, RInv, Framed
<1>5. IsFiniteSet(Everywhere') /\ IsFiniteSet(Lost')
  BY <1>3, <1>4, FS_AddElement DEF CInv, Exact
<1>6. CASE Enqueue(i)
  <2>1. queue' = queue \cup {new} /\ UNCHANGED <<delayed, processing, completed, failed>>
    BY <1>6 DEF Enqueue, new
  <2>2. Cardinality(queue') = Cardinality(queue) + 1
    BY <1>3, <2>1, AllFinite, OneMore DEF Everywhere, CInv
  <2>3. /\ stats'.queued = stats.queued + 1 /\ stats'.delayed = stats.delayed
        /\ stats'.processing = stats.processing /\ stats'.completed = stats.completed
        /\ stats'.failed = stats.failed
    BY <1>6, IncrType DEF Enqueue, CInv, IInv, Counters
  <2>4. StatsExact'
    BY <1>2, <1>4, <2>1, <2>2, <2>3, AllFinite DEF StatsExact, CInv, Exact
  <2> QED  BY <1>5, <2>4 DEF Exact
<1>7. CASE EnqueueDelayed(i)
  <2>1. delayed' = delayed \cup {new} /\ UNCHANGED <<queue, processing, completed, failed>>
    BY <1>7 DEF EnqueueDelayed, new
  <2>2. Cardinality(delayed') = Cardinality(delayed) + 1
    BY <1>3, <2>1, AllFinite, OneMore DEF Everywhere, CInv
  <2>3. /\ stats'.delayed = stats.delayed + 1 /\ stats'.queued = stats.queued
        /\ stats'.processing = stats.processing /\ stats'.completed = stats.completed
        /\ stats'.failed = stats.failed
    BY <1>7, IncrType DEF EnqueueDelayed, CInv, IInv, Counters
  <2>4. StatsExact'
    BY <1>2, <1>4, <2>1, <2>2, <2>3, AllFinite DEF StatsExact, CInv, Exact
  <2> QED  BY <1>5, <2>4 DEF Exact
<1> QED  BY <1>6, <1>7 DEF EnqueueAt

\* The dequeuer's moves: what it found due was still delayed, what it popped is counted as
\* queued until it is stored.
LEMMA DequeueExact ==
  ASSUME NEW d, NEW c, OneEach(d, c), CInv, Dequeue(d) \/ MoveFails(d)
  PROVE  Exact'
<1>0. d \in Clients /\ d \in Dequeuers /\ RInv /\ IInv /\ Exact /\ Framed
  BY DEF OneEach, Clients, CInv, RInv
<1>1. CASE ReadDue(d) \/ MoveFails(d) \/ PopEmpty(d)
  <2>1. UNCHANGED <<fresh, stored, stats>>
    BY <1>1 DEF ReadDue, MoveFails, PopEmpty
  <2>2. PICK point, members : Goto(d, point, members) /\ point # "popped"
    BY <1>1 DEF ReadDue, MoveFails, PopEmpty, Return
  <2>3. pc[d] # "popped"
    BY <1>1 DEF ReadDue, MoveFails, PopEmpty
  <2>4. InHand' = InHand
    BY <1>0, <2>2, <2>3, StillInHand
  <2> QED  BY <1>0, <2>1, <2>4, StaysExact
<1>2. CASE MoveDue(d)
  <2> DEFINE due == hand[d]
  <2>1. InHand' = InHand /\ due \subseteq delayed
    BY <1>0, <1>2, HandOf, HandOfNext, GotoEffect DEF MoveDue, RInv, UpToDate
  <2>2. /\ delayed' = delayed \ due /\ queue' = queue \cup due
        /\ UNCHANGED <<fresh, processing, completed, failed>>
    BY <1>2 DEF MoveDue
  <2>3. IsFiniteSet(due) /\ Cardinality(due) \in Nat
    BY <1>0, <2>1, AllFinite, FS_Subset, FS_CardinalityType
  <2>4. /\ stats'.delayed = stats.delayed + (-Cardinality(due))
        /\ stats'.queued = stats.queued + Cardinality(due)
        /\ stats'.processing = stats.processing /\ stats'.completed = stats.completed
        /\ stats'.failed = stats.failed
    BY <1>0, <1>2, <2>3, IncrType DEF MoveDue, IInv, Counters
  <2> HIDE DEF due
  <2>5. Everywhere' = Everywhere
    BY <2>1, <2>2 DEF Everywhere
  <2>6. Lost' = Lost
    BY <2>2, <2>5, LostStays
  <2>7. queue \cap due = {}
    BY <1>0, <2>1 DEF RInv, Sole
  <2>8. /\ Cardinality(queue') = Cardinality(queue) + Cardinality(due)
        /\ Cardinality(delayed') = Cardinality(delayed) - Cardinality(due)
    BY <1>0, <2>1, <2>2, <2>3, <2>7, AllFinite, Joined, Parted
  <2>9. StatsExact'
    BY <1>0, <2>1, <2>2, <2>3, <2>4, <2>6, <2>8, AllFinite DEF StatsExact, Exact
  <2> QED  BY <1>0, <2>5, <2>6, <2>9 DEF Exact
<1>3. CASE Pop(d)
  <2>1. PICK m \in queue : queue' = queue \ {m} /\ Goto(d, "popped", {m})
    BY <1>3 DEF Pop
  <2>2. InHand = {} /\ InHand' = {m}
    BY <1>0, <1>3, <2>1, HandOf, HandOfNext, GotoEffect DEF Pop
  <2>3. UNCHANGED <<fresh, delayed, processing, completed, failed, stats>>
    BY <1>3 DEF Pop
  <2>4. Everywhere' = Everywhere
    BY <2>1, <2>2, <2>3 DEF Everywhere
  <2>5. Lost' = Lost
    BY <2>3, <2>4, LostStays
  <2>6. Cardinality(InHand) = 0 /\ Cardinality(InHand') = 1
    BY <2>2, FS_EmptySet, FS_Singleton
  <2>7. Cardinality(queue') = Cardinality(queue) - 1
    BY <1>0, <2>1, AllFinite, OneLess
  <2>8. StatsExact'
    BY <1>0, <2>3, <2>5, <2>6, <2>7, AllFinite DEF StatsExact, Exact
  <2> QED  BY <1>0, <2>4, <2>5, <2>8 DEF Exact
<1>4. CASE Store(d)
  <2>1. PICK m \in Member : hand[d] = {m}
    BY <1>0, <1>4 DEF Store, RInv, UpToDate
  <2> DEFINE new == Stamped(m)
  <2>2. InHand = {m} /\ InHand' = {}
    BY <1>0, <1>4, <2>1, HandOf, HandOfNext, GotoEffect DEF Store, Return
  <2>3. /\ processing' = processing \cup {new}
        /\ UNCHANGED <<fresh, queue, delayed, completed, failed>>
    BY <1>4, <2>1 DEF Store
  <2>4. new \in Member /\ new.id = m.id
    BY <1>0, Texts DEF Framed
  <2> HIDE DEF new
  <2>5. Everywhere' = (Everywhere \ {m}) \cup {new} /\ m \in Everywhere
    BY <1>0, <2>2, <2>3 DEF RInv, Sole, Everywhere
  <2>6. new \notin processing
    BY <1>0, <2>2, <2>4 DEF RInv, Sole, Everywhere
  <2>7. Lost' = Lost
    BY <2>3, <2>4, <2>5, LostStays
  <2>8. IsFiniteSet(Everywhere')
    BY <1>0, <2>5, FS_RemoveElement, FS_AddElement DEF Exact
  <2>9. /\ stats'.queued = stats.queued + (-1) /\ stats'.processing = stats.processing + 1
        /\ stats'.delayed = stats.delayed /\ stats'.completed = stats.completed
        /\ stats'.failed = stats.failed
    BY <1>0, <1>4, IncrType DEF Store, IInv, Counters
  <2>10. Cardinality(InHand) = 1 /\ Cardinality(InHand') = 0
    BY <2>2, FS_EmptySet, FS_Singleton
  <2>11. Cardinality(processing') = Cardinality(processing) + 1
    BY <1>0, <2>3, <2>6, AllFinite, OneMore
  <2>12. StatsExact'
    BY <1>0, <2>3, <2>7, <2>9, <2>10, <2>11, AllFinite DEF StatsExact, Exact
  <2> QED  BY <1>0, <2>7, <2>8, <2>12 DEF Exact
<1> QED  BY <1>1, <1>2, <1>3, <1>4 DEF Dequeue

\* The marker's member leaves the processing set for one other set.
LEMMA MarkExact ==
  ASSUME NEW d, NEW c, OneEach(d, c), CInv, c \in Markers, Mark(c)
  PROVE  Exact'
<1>0. c \in Clients /\ c \in Markers \cup Cleaners /\ RInv /\ IInv /\ Exact /\ Framed
  BY DEF Clients, CInv, RInv
<1>1. ASSUME NEW i \in Items, NEW point \in {"complete", "fail"}, ReadForMark(c, i, point)
      PROVE  Exact'
  <2>1. PICK m \in processing : Goto(c, point, {m})
    BY <1>1 DEF ReadForMark, Of
  <2>2. UNCHANGED <<fresh, stored, stats>> /\ InHand' = InHand
    BY <1>0, <1>1, <2>1, StillInHand DEF ReadForMark
  <2> QED  BY <1>0, <2>2, StaysExact
<1>2. CASE ReadForBurial(c)
  <2>1. /\ UNCHANGED <<fresh, stored, stats>> /\ pc[c] # "popped"
        /\ (Goto(c, "idle", {}) \/ \E n \in processing : Goto(c, "bury", {n}))
    BY <1>2 DEF ReadForBurial, Return
  <2>2. UNCHANGED <<fresh, stored, stats>> /\ InHand' = InHand
    BY <1>0, <2>1, StillInHand
  <2> QED  BY <1>0, <2>2, StaysExact
  \* What the three pipelines have in common: the member leaves, its new text is written.
<1>3. ASSUME NEW m \in processing, NEW new \in Member, new.id = m.id,
             processing' = processing \ {m}, fresh' = fresh, InHand' = InHand,
             Everywhere' = (Everywhere \ {m}) \cup {new}
      PROVE  /\ IsFiniteSet(Everywhere') /\ Lost' = Lost
             /\ Cardinality(processing') = Cardinality(processing) - 1
             /\ new \notin completed \cup failed \cup delayed
  <2>1. m \in Everywhere
    BY DEF Everywhere
  <2>2. Lost' = Lost
    BY <1>3, <2>1, LostStays
  <2>3. IsFiniteSet(Everywhere')
    BY <1>0, <1>3, FS_RemoveElement, FS_AddElement DEF Exact
  <2>4. Cardinality(processing') = Cardinality(processing) - 1
    BY <1>0, <1>3, AllFinite, OneLess
  <2>5. new \notin completed \cup failed \cup delayed
    BY <1>0, <1>3 DEF RInv, Sole, Everywhere
  <2> QED  BY <2>2, <2>3, <2>4, <2>5
<1>4. CASE MoveToCompleted(c)
  <2>1. PICK m \in processing : hand[c] = {m} /\ m \in Member
    BY <1>0, <1>4 DEF MoveToCompleted, RInv, UpToDate
  <2> DEFINE new == Stamped(m)
  <2>2. InHand' = InHand
    BY <1>0, <1>4, StillInHand DEF MoveToCompleted, Return
  <2>3. /\ completed' = completed \cup {new} /\ processing' = processing \ {m}
        /\ UNCHANGED <<fresh, queue, delayed, failed>>
    BY <1>4, <2>1 DEF MoveToCompleted
  <2>4. new \in Member /\ new.id = m.id
    BY <1>0, <2>1, Texts DEF Framed
  <2> HIDE DEF new
  <2>5. Everywhere' = (Everywhere \ {m}) \cup {new}
    BY <1>0, <2>2, <2>3 DEF RInv, Sole, Everywhere
  <2>6. /\ IsFiniteSet(Everywhere') /\ Lost' = Lost /\ new \notin completed
        /\ Cardinality(processing') = Cardinality(processing) - 1
    BY <1>3, <2>2, <2>3, <2>4, <2>5
  <2>7. Cardinality(completed') = Cardinality(completed) + 1
    BY <1>0, <2>3, <2>6, AllFinite, OneMore
  <2>8. /\ stats'.processing = stats.processing + (-1)
        /\ stats'.completed = stats.completed + 1 /\ stats'.queued = stats.queued
        /\ stats'.delayed = stats.delayed /\ stats'.failed = stats.failed
    BY <1>0, <1>4, IncrType DEF MoveToCompleted, IInv, Counters
  <2>9. StatsExact'
    BY <1>0, <2>2, <2>3, <2>6, <2>7, <2>8, AllFinite DEF StatsExact, Exact
  <2> QED  BY <1>0, <2>6, <2>9 DEF Exact
<1>5. CASE RequeueForRetry(c)
  <2>1. PICK m \in processing : hand[c] = {m} /\ m \in Member
    BY <1>0, <1>5 DEF RequeueForRetry, RInv, UpToDate
  <2> DEFINE new == Errored(Retried(m))
  <2>2. InHand' = InHand
    BY <1>0, <1>5, StillInHand DEF RequeueForRetry, Return
  <2>3. /\ delayed' = delayed \cup {new} /\ processing' = processing \ {m}
        /\ UNCHANGED <<fresh, queue, completed, failed>>
    BY <1>5, <2>1 DEF RequeueForRetry
  <2>4. new \in Member /\ new.id = m.id
    BY <1>0, <2>1, Texts, ErrTexts DEF Framed
  <2> HIDE DEF new
  <2>5. Everywhere' = (Everywhere \ {m}) \cup {new}
    BY <1>0, <2>2, <2>3 DEF RInv, Sole, Everywhere
  <2>6. /\ IsFiniteSet(Everywhere') /\ Lost' = Lost /\ new \notin delayed
        /\ Cardinality(processing') = Cardinality(processing) - 1
    BY <1>3, <2>2, <2>3, <2>4, <2>5
  <2>7. Cardinality(delayed') = Cardinality(delayed) + 1
    BY <1>0, <2>3, <2>6, AllFinite, OneMore
  <2>8. /\ stats'.processing = stats.processing + (-1)
        /\ stats'.delayed = stats.delayed + 1 /\ stats'.queued = stats.queued
        /\ stats'.completed = stats.completed /\ stats'.failed = stats.failed
    BY <1>0, <1>5, IncrType DEF RequeueForRetry, IInv, Counters
  <2>9. StatsExact'
    BY <1>0, <2>2, <2>3, <2>6, <2>7, <2>8, AllFinite DEF StatsExact, Exact
  <2> QED  BY <1>0, <2>6, <2>9 DEF Exact
<1>6. CASE MoveToFailed(c)
  <2>1. PICK m \in processing : hand[c] = {m} /\ m \in Member
    BY <1>0, <1>6 DEF MoveToFailed, RInv, UpToDate
  <2> DEFINE new == Stamped(m)
  <2>2. InHand' = InHand
    BY <1>0, <1>6, StillInHand DEF MoveToFailed, Return
  <2>3. /\ failed' = failed \cup {new} /\ processing' = processing \ {m}
        /\ UNCHANGED <<fresh, queue, delayed, completed>>
    BY <1>6, <2>1 DEF MoveToFailed
  <2>4. new \in Member /\ new.id = m.id
    BY <1>0, <2>1, Texts DEF Framed
  <2> HIDE DEF new
  <2>5. Everywhere' = (Everywhere \ {m}) \cup {new}
    BY <1>0, <2>2, <2>3 DEF RInv, Sole, Everywhere
  <2>6. /\ IsFiniteSet(Everywhere') /\ Lost' = Lost /\ new \notin failed
        /\ Cardinality(processing') = Cardinality(processing) - 1
    BY <1>3, <2>2, <2>3, <2>4, <2>5
  <2>7. Cardinality(failed') = Cardinality(failed) + 1
    BY <1>0, <2>3, <2>6, AllFinite, OneMore
  <2>8. /\ stats'.processing = stats.processing + (-1)
        /\ stats'.failed = stats.failed + 1 /\ stats'.queued = stats.queued
        /\ stats'.delayed = stats.delayed /\ stats'.completed = stats.completed
    BY <1>0, <1>6, IncrType DEF MoveToFailed, IInv, Counters
  <2>9. StatsExact'
    BY <1>0, <2>2, <2>3, <2>6, <2>7, <2>8, AllFinite DEF StatsExact, Exact
  <2> QED  BY <1>0, <2>6, <2>9 DEF Exact
<1> QED  BY <1>1, <1>2, <1>4, <1>5, <1>6 DEF Mark, MarkCompleted, MarkFailed

\* Members that are told apart by their ids stay apart when they are written anew.
LEMMA WrittenAnew ==
  ASSUME Framed, NEW S, IsFiniteSet(S), \A m \in S : m \in Member,
         \A m, n \in S : m.id = n.id => m = n
  PROVE  /\ IsFiniteSet({Retried(m) : m \in S})
         /\ Cardinality({Retried(m) : m \in S}) = Cardinality(S)
         /\ IsFiniteSet({Errored(Stamped(Retried(m))) : m \in S})
         /\ Cardinality({Errored(Stamped(Retried(m))) : m \in S}) = Cardinality(S)
<1>1. \A m \in S : Retried(m).id = m.id /\ Errored(Stamped(Retried(m))).id = m.id
  <2> SUFFICES ASSUME NEW m \in S
               PROVE  Retried(m).id = m.id /\ Errored(Stamped(Retried(m))).id = m.id
    OBVIOUS
  <2>1. Retried(m) \in Member /\ Retried(m).id = m.id
    BY Texts DEF Framed
  <2>2. Stamped(Retried(m)) \in Member /\ Stamped(Retried(m)).id = m.id
    BY <2>1, Texts DEF Framed
  <2> QED  BY <2>1, <2>2, ErrTexts
<1>2. /\ IsFiniteSet({Retried(m) : m \in S})
      /\ Cardinality({Retried(m) : m \in S}) = Cardinality(S)
  <2> DEFINE T == {Retried(m) : m \in S}
             f == [m \in S |-> Retried(m)]
  <2>1. /\ f \in [S -> T] /\ \A t \in T : \E m \in S : f[m] = t
        /\ \A m, n \in S : f[m] = f[n] => m = n
    BY <1>1
  <2> HIDE DEF f, T
  <2>2. IsFiniteSet(T) /\ Cardinality(T) = Cardinality(S)
    BY <2>1, OneToOne, Zenon
  <2> QED  BY <2>2 DEF T
<1>3. /\ IsFiniteSet({Errored(Stamped(Retried(m))) : m \in S})
      /\ Cardinality({Errored(Stamped(Retried(m))) : m \in S}) = Cardinality(S)
  <2> DEFINE T == {Errored(Stamped(Retried(m))) : m \in S}
             f == [m \in S |-> Errored(Stamped(Retried(m)))]
  <2>1. /\ f \in [S -> T] /\ \A t \in T : \E m \in S : f[m] = t
        /\ \A m, n \in S : f[m] = f[n] => m = n
    BY <1>1
  <2> HIDE DEF f, T
  <2>2. IsFiniteSet(T) /\ Cardinality(T) = Cardinality(S)
    BY <2>1, OneToOne, Zenon
  <2> QED  BY <2>2 DEF T
<1> QED  BY <1>2, <1>3

\* The clean-up counts as many members out of the processing set as it writes to the queue
\* and to the failed set.
LEMMA CleanupExact ==
  ASSUME NEW d, NEW c, OneEach(d, c), CInv, c \in Cleaners, Cleanup(c)
  PROVE  Exact'
<1>0. c \in Clients /\ c \in Markers \cup Cleaners /\ RInv /\ IInv /\ Exact /\ Framed
  BY DEF Clients, CInv, RInv
<1>1. CASE ReadStale(c)
  <2>1. PICK stale \in SUBSET processing : Goto(c, "stale", stale)
    BY <1>1 DEF ReadStale
  <2>2. UNCHANGED <<fresh, stored, stats>> /\ InHand' = InHand
    BY <1>0, <1>1, <2>1, StillInHand DEF ReadStale
  <2> QED  BY <1>0, <2>2, StaysExact
<1>2. CASE CleanupStale(c)
  <2> DEFINE gone == hand[c]
             back == Retriable(gone)
             out == Exhausted(gone)
             again == {Retried(m) : m \in back}
             over == {Errored(Stamped(Retried(m))) : m \in out}
  <2>1. /\ gone \subseteq processing /\ processing' = processing \ gone
        /\ queue' = queue \cup again /\ failed' = failed \cup over
        /\ UNCHANGED <<fresh, delayed, completed>>
    BY <1>0, <1>2 DEF CleanupStale, RInv, UpToDate
  <2>2. InHand' = InHand
    BY <1>0, <1>2, StillInHand DEF CleanupStale, Return
  <2>3. /\ back \subseteq gone /\ out = gone \ back
        /\ \A m \in gone : m \in Member
        /\ \A m, n \in gone : m.id = n.id => m = n
    BY <1>0, <2>1 DEF Retriable, Exhausted, RInv, Sole, Everywhere
  <2>4. /\ IsFiniteSet(gone) /\ IsFiniteSet(back) /\ IsFiniteSet(out)
        /\ Cardinality(gone) \in Nat /\ Cardinality(back) \in Nat /\ Cardinality(out) \in Nat
    <3>1. IsFiniteSet(gone)
      BY <1>0, <2>1, AllFinite, FS_Subset
    <3>2. IsFiniteSet(back) /\ IsFiniteSet(out)
      BY <2>3, <3>1, FS_Subset
    <3> QED  BY <3>1, <3>2, FS_CardinalityType
  <2>5. /\ stats'.processing = stats.processing + (-Cardinality(gone))
        /\ stats'.queued = stats.queued + Cardinality(back)
        /\ stats'.failed = stats.failed + Cardinality(out)
        /\ stats'.delayed = stats.delayed /\ stats'.completed = stats.completed
    BY <1>0, <1>2, <2>4, IncrType DEF CleanupStale, IInv, Counters
  <2> HIDE DEF gone, back, out
  <2>6. /\ IsFiniteSet(again) /\ Cardinality(again) = Cardinality(back)
        /\ IsFiniteSet(over) /\ Cardinality(over) = Cardinality(out)
    BY <1>0, <2>3, <2>4, WrittenAnew
  <2>7. \A y \in again : \E m \in back : y.id = m.id
    BY <1>0, <2>3, Texts DEF Framed
  <2>8. \A y \in over : \E m \in out : y.id = m.id
    <3>1. \A m \in gone : /\ Retried(m) \in Member /\ Retried(m).id = m.id
                          /\ Stamped(Retried(m)) \in Member /\ Stamped(Retried(m)).id = m.id
      BY <1>0, <2>3, Texts DEF Framed
    <3> QED  BY <2>3, <3>1, ErrTexts
  <2>9. /\ \A m \in back : \E y \in again : y.id = m.id
        /\ \A m \in out : \E y \in over : y.id = m.id
    <3>1. \A m \in gone : /\ Retried(m) \in Member /\ Retried(m).id = m.id
                          /\ Stamped(Retried(m)) \in Member /\ Stamped(Retried(m)).id = m.id
      BY <1>0, <2>3, Texts DEF Framed
    <3> QED  BY <2>3, <3>1, ErrTexts
  <2> HIDE DEF again, over
  <2>10. queue \cap again = {} /\ failed \cap over = {}
    BY <1>0, <2>1, <2>3, <2>7, <2>8 DEF RInv, Sole, Everywhere
  <2>11. Everywhere' = (Everywhere \ gone) \cup again \cup over /\ gone \subseteq Everywhere
    BY <1>0, <2>1, <2>2 DEF RInv, Sole, Everywhere
  <2>12. Lost' = Lost
    BY <2>1, <2>3, <2>7, <2>8, <2>9, <2>11, LostStays
  <2>13. IsFiniteSet(Everywhere')
    BY <1>0, <2>6, <2>11, FS_Difference, FS_Union DEF Exact
  <2>14. /\ Cardinality(queue') = Cardinality(queue) + Cardinality(back)
         /\ Cardinality(failed') = Cardinality(failed) + Cardinality(out)
         /\ Cardinality(processing') = Cardinality(processing) - Cardinality(gone)
    <3>1. Cardinality(queue \cup again) = Cardinality(queue) + Cardinality(again)
      BY <1>0, <2>6, <2>10, AllFinite, Joined, Zenon
    <3>2. Cardinality(failed \cup over) = Cardinality(failed) + Cardinality(over)
      BY <1>0, <2>6, <2>10, AllFinite, Joined, Zenon
    <3>3. Cardinality(processing \ gone) = Cardinality(processing) - Cardinality(gone)
      BY <1>0, <2>1, AllFinite, Parted, Zenon
    <3> QED  BY <2>1, <2>6, <3>1, <3>2, <3>3
  <2>15. StatsExact'
    BY <1>0, <2>1, <2>2, <2>4, <2>5, <2>12, <2>14, AllFinite DEF StatsExact, Exact
  <2> QED  BY <1>0, <2>12, <2>13, <2>15 DEF Exact
<1> QED  BY <1>1, <1>2 DEF Cleanup

\* What a dequeue that breaks off has popped goes on counting as queued: it is lost.
LEMMA AbortExact ==
  ASSUME NEW d, NEW c, OneEach(d, c), CInv, NEW x \in Clients, Abort(x)
  PROVE  Exact'
<1>0. d \in Clients /\ d \in Dequeuers /\ RInv /\ IInv /\ Exact /\ Framed
  BY DEF OneEach, Clients, CInv, RInv
<1>1. UNCHANGED <<fresh, stored, stats>> /\ Goto(x, "idle", {})
  BY DEF Abort, Return
<1>2. CASE x # d \/ pc[d] # "popped"
  <2>1. InHand' = InHand
    BY <1>0, <1>1, <1>2, HandOf, HandOfNext, GotoEffect
  <2> QED  BY <1>0, <1>1, <2>1, StaysExact
<1>3. CASE x = d /\ pc[d] = "popped"
  <2>1. PICK m \in Member : hand[d] = {m}
    BY <1>0, <1>3 DEF RInv, UpToDate
  <2>2. InHand = {m} /\ InHand' = {}
    BY <1>0, <1>1, <1>3, <2>1, HandOf, HandOfNext, GotoEffect
  <2>3. Everywhere' = Everywhere \ {m} /\ m \in Everywhere
    BY <1>0, <1>1, <2>2 DEF stored, RInv, Sole, Everywhere
  <2>4. \A n \in Everywhere \ {m} : n.id # m.id
    BY <1>0, <2>3 DEF RInv, Sole
  <2>5. m.id \in Items /\ m.id \notin fresh
    BY <1>0, <2>3 DEF RInv, Sole, Member
  <2>6. Lost' = Lost \cup {m.id} /\ m.id \notin Lost
    BY <1>1, <2>3, <2>4, <2>5, LostOf
  <2>7. IsFiniteSet(Everywhere') /\ IsFiniteSet(Lost')
    BY <1>0, <2>3, <2>6, FS_RemoveElement, FS_AddElement DEF Exact
  <2>8. Cardinality(Lost') = Cardinality(Lost) + 1
    BY <1>0, <2>6, OneMore DEF Exact
  <2>9. Cardinality(InHand) = 1 /\ Cardinality(InHand') = 0
    BY <2>2, FS_EmptySet, FS_Singleton
  <2>10. StatsExact'
    BY <1>0, <1>1, <2>8, <2>9, AllFinite DEF StatsExact, Exact, stored
  <2> QED  BY <2>7, <2>10 DEF Exact
<1> QED  BY <1>2, <1>3

LEMMA InitExact == Init => Exact
<1> SUFFICES ASSUME Init PROVE Exact
  OBVIOUS
<1>1. Everywhere = {} /\ InHand = {} /\ Lost = {}
  BY DEF Init, Everywhere, InHand, Clients, Lost
<1> QED  BY <1>1, FS_EmptySet DEF Init, Exact, StatsExact, Counters

LEMMA NextCInv ==
  ASSUME NEW d, NEW c, OneEach(d, c), CInv, [Next]_vars
  PROVE  CInv'
<1>1. IInv' /\ RInv'
  BY NextIInv, NextRInv DEF CInv
<1>2. CASE UNCHANGED vars
  <2>1. UNCHANGED <<fresh, stored, stats>> /\ InHand' = InHand
    BY <1>2 DEF vars, InHand
  <2>2. Exact'
    BY <2>1, StaysExact DEF CInv
  <2> QED  BY <1>1, <2>2 DEF CInv
<1>3. ASSUME NEW x \in Dequeuers, Dequeue(x) \/ MoveFails(x) PROVE Exact'
  BY <1>3, DequeueExact, x = d DEF OneEach
<1>4. ASSUME NEW x \in Markers, Mark(x) PROVE Exact'
  BY <1>4, MarkExact, x = c DEF OneEach
<1>5. ASSUME NEW x \in Cleaners, Cleanup(x) PROVE Exact'
  BY <1>5, CleanupExact, x = c DEF OneEach
<1>6. ~\E x \in Admins : Administer(x)
  BY DEF OneEach
<1>7. [Next]_vars => Exact' \/ UNCHANGED vars
  BY <1>3, <1>4, <1>5, <1>6, EnqueueExact, AbortExact DEF Next, Work
<1> QED  BY <1>1, <1>2, <1>7 DEF CInv

\* With one client per role each counter of StatsKey is the size of the set it stands for,
\* but that an item lost between ZPOPMIN and SADD counts as queued for ever.
THEOREM CountersExact ==
  ASSUME NEW d, NEW c, OneEach(d, c)
  PROVE  Spec => []StatsExact
<1>1. Init => CInv
  BY InitIInv, InitRInv, InitExact DEF CInv
<1>2. ASSUME CInv, [Next]_vars PROVE CInv'
  BY <1>2, NextCInv
<1>3. CInv => StatsExact
  BY DEF CInv, Exact
<1> QED  BY <1>1, <1>2, <1>3, PTL DEF Spec
=============================================================================
