-------------------------- MODULE NotificationsProofs --------------------------
(***************************************************************************)
(* Theorems about Notifications, for any number of notifications, requests *)
(* and rounds.                                                             *)
(***************************************************************************)
EXTENDS MCNotifications, FiniteSetTheorems, WellFoundedInduction, TLAPS

-----------------------------------------------------------------------------
(* What every call has in its hands.                                       *)

Papers == [id : Ids, attempts : Int]

\* The points at which a call is at work on a document.
AtWork == {"mark", "send", "sent", "error", "failure", "cancel", "resend", "count", "release"}

\* A call has a copy exactly while it is at work.
Hands ==
    /\ pc \in [Callers -> AtWork \cup {"idle", "next"}]
    /\ copy \in [Callers -> Papers \cup {NoCopy}]
    /\ batch \in [Callers -> SUBSET Papers]
    /\ \A c \in Callers : pc[c] \in AtWork => copy[c] \in Papers
    /\ \A c \in Callers : pc[c] \notin AtWork => copy[c] = NoCopy

Documents ==
    /\ status \in [Ids -> {"none", "pending", "scheduled", "processing", "sent",
                           "failed", "cancelled", "gone"}]
    /\ attempts \in [Ids -> Int]
    /\ when \in [Ids -> {"none", "future", "past"}]
    /\ tries \in [Ids -> Nat] /\ resends \in [Ids -> Nat]
    /\ mailed \in SUBSET Ids

Typed == Hands /\ Documents

\* What a call that has begun does with the document in its hands, and what it begins with.
Works(c) == SendNow(c) \/ CancelNotification(c) \/ ResendNotification(c)
              \/ CountAttempt(c) \/ Release(c)
Begins(c) ==
    \/ /\ c \in Users
       /\ \E n \in Ids : SendEmail(c, n) \/ ReadForCancel(c, n) \/ ReadForResend(c, n)
    \/ \E found \in SUBSET Ids :
          /\ ReadBatch(c, found)
          /\ \A n \in found : IsPending(n) \/ MayRetry(n) \/ IsDue(n)
    \/ \E point \in {"mark", "count", "release"} : Take(c, point)
Elsewhere == Crash \/ \E n \in Ids : TimeComes(n) \/ CleanupOldNotifications(n)

\* Every step is of one of these kinds.
LEMMA StepKinds ==
  ASSUME Next
  PROVE  Elsewhere \/ \E c \in Callers : Works(c) \/ Begins(c)
<1>1. Users \subseteq Callers
  BY DEF Callers
<1>2. ASSUME NEW c \in Users, Request(c) PROVE Works(c) \/ Begins(c)
  BY <1>2 DEF Request, Works, Begins
<1>3. ASSUME NEW c \in Callers, Round(c) PROVE Works(c) \/ Begins(c)
  BY <1>3 DEF Round, ProcessPendingNotifications, RetryFailedNotifications,
              ProcessScheduledNotifications, Works, Begins
<1> QED  BY <1>1, <1>2, <1>3 DEF Next, Works, Elsewhere

\* Ids and attempts of what is in a call's hands.
LEMMA CopyType ==
  ASSUME Hands, NEW c \in Callers, pc[c] \in AtWork
  PROVE  /\ copy[c] \in Papers /\ copy[c].id \in Ids /\ copy[c].attempts \in Int
         /\ \A a \in Int : Copy(copy[c].id, a) \in Papers
BY DEF Hands, Papers, Copy

\* An update leaves documents that are typed.
LEMMA UpdateTyped ==
  ASSUME Documents, NEW n \in Ids, NEW a \in Int,
         NEW s \in {"pending", "processing", "sent", "failed", "cancelled"},
         UpdateFails(n, s, a), UNCHANGED <<tries, mailed, resends>>
  PROVE  Documents'
BY DEF Documents, UpdateFails, Update, docs

\* A call moves on with a copy, or with none.
LEMMA GotoTyped ==
  ASSUME Hands, NEW c \in Callers, NEW point, NEW m, Goto(c, point, m),
         \/ point \in AtWork /\ m \in Papers
         \/ point \in {"idle", "next"} /\ m = NoCopy,
         batch' = batch \/ \E S \in SUBSET batch[c] : batch' = [batch EXCEPT ![c] = S]
  PROVE  Hands'
BY DEF Hands, Goto, AtWork

LEMMA FinishTyped ==
  ASSUME Hands, NEW c \in Callers, Finish(c)
  PROVE  Hands'
BY GotoTyped DEF Finish

LEMMA WorksTyped ==
  ASSUME Typed, NEW c \in Callers, Works(c)
  PROVE  Typed'
<1> USE DEF Typed
<1>1. CASE MarkProcessing(c)
  <2>1. /\ pc[c] = "mark" /\ UpdateFails(copy[c].id, "processing", copy[c].attempts)
        /\ UNCHANGED <<tries, mailed, resends>>
    BY <1>1 DEF MarkProcessing, UpdateFails, history
  <2>2. Documents'
    BY <2>1, CopyType, UpdateTyped DEF AtWork
  <2>3. Hands'
    BY <1>1, <2>1, CopyType, FinishTyped, GotoTyped DEF MarkProcessing, AtWork
  <2> QED  BY <2>2, <2>3
<1>2. CASE RecordSent(c)
  <2>1. /\ pc[c] = "sent" /\ UpdateFails(copy[c].id, "sent", copy[c].attempts)
        /\ UNCHANGED <<tries, mailed, resends>>
    BY <1>2 DEF RecordSent, UpdateFails, history
  <2>2. Documents'
    BY <2>1, CopyType, UpdateTyped DEF AtWork
  <2>3. Hands'
    BY <1>2, <2>1, CopyType, FinishTyped, GotoTyped DEF RecordSent, AtWork
  <2> QED  BY <2>2, <2>3
<1>3. CASE RecordError(c)
  <2>1. /\ pc[c] = "error" /\ UpdateFails(copy[c].id, "processing", copy[c].attempts)
        /\ UNCHANGED <<tries, mailed, resends>>
    BY <1>3 DEF RecordError, UpdateFails, history
  <2>2. Documents'
    BY <2>1, CopyType, UpdateTyped DEF AtWork
  <2>3. Hands'
    BY <1>3, <2>1, CopyType, FinishTyped, GotoTyped DEF RecordError, AtWork
  <2> QED  BY <2>2, <2>3
<1>4. CASE CancelNotification(c)
  <2>1. /\ pc[c] = "cancel" /\ UpdateFails(copy[c].id, "cancelled", copy[c].attempts)
        /\ UNCHANGED <<tries, mailed, resends>>
    BY <1>4 DEF CancelNotification, UpdateFails, history
  <2>2. Documents'
    BY <2>1, CopyType, UpdateTyped DEF AtWork
  <2>3. Hands'
    BY <1>4, <2>1, CopyType, FinishTyped, GotoTyped DEF CancelNotification, AtWork
  <2> QED  BY <2>2, <2>3
<1>5. CASE ResendNotification(c)
  <2>1. /\ pc[c] = "resend" /\ UpdateFails(copy[c].id, "pending", 0)
        /\ UNCHANGED <<tries, mailed, resends>>
    BY <1>5 DEF ResendNotification, UpdateFails, history
  <2>2. Documents'
    BY <2>1, CopyType, UpdateTyped DEF AtWork
  <2>3. Hands'
    BY <1>5, <2>1, CopyType, FinishTyped, GotoTyped DEF ResendNotification, AtWork
  <2> QED  BY <2>2, <2>3
<1>6. CASE CountAttempt(c)
  <2>1. /\ pc[c] = "count" /\ UpdateFails(copy[c].id, "failed", copy[c].attempts + 1)
        /\ UNCHANGED <<tries, mailed, resends>>
    BY <1>6 DEF CountAttempt, UpdateFails, history
  <2>2. Documents'
    BY <2>1, CopyType, UpdateTyped DEF AtWork
  <2>3. Hands'
    BY <1>6, <2>1, CopyType, FinishTyped, GotoTyped DEF CountAttempt, AtWork
  <2> QED  BY <2>2, <2>3
<1>7. CASE Release(c)
  <2>1. /\ pc[c] = "release" /\ UpdateFails(copy[c].id, "pending", copy[c].attempts)
        /\ UNCHANGED <<tries, mailed, resends>>
    BY <1>7 DEF Release, UpdateFails, history
  <2>2. Documents'
    BY <2>1, CopyType, UpdateTyped DEF AtWork
  <2>3. Hands'
    BY <1>7, <2>1, CopyType, FinishTyped, GotoTyped DEF Release, AtWork
  <2> QED  BY <2>2, <2>3
<1>8. CASE RecordFailure(c)
  <2>1. pc[c] = "failure" /\ Finish(c) /\ UNCHANGED <<tries, mailed, resends>>
    BY <1>8 DEF RecordFailure, history
  <2>2. Documents'
    BY <1>8, <2>1, CopyType, UpdateTyped DEF RecordFailure, AtWork
  <2> QED  BY <2>1, <2>2, FinishTyped
<1>9. CASE Send(c)
  <2>1. pc[c] = "send" /\ copy[c] \in Papers /\ copy[c].id \in Ids
    BY <1>9, CopyType DEF Send, AtWork
  <2>2. Documents'
    BY <1>9, <2>1 DEF Send, Documents, docs
  <2>3. Hands'
    BY <1>9, <2>1, GotoTyped DEF Send, AtWork
  <2> QED  BY <2>2, <2>3
<1> QED  BY <1>1, <1>2, <1>3, <1>4, <1>5, <1>6, <1>7, <1>8, <1>9 DEF Works, SendNow

LEMMA BeginsTyped ==
  ASSUME Typed, NEW c \in Callers, Begins(c)
  PROVE  Typed'
<1> USE DEF Typed
<1>0. \A n \in Ids : Read(n) \in Papers /\ Copy(n, 0) \in Papers
  BY DEF Documents, Read, Copy, Papers
<1>1. ASSUME NEW n \in Ids, SendEmail(c, n) PROVE Typed'
  <2>1. Documents'
    BY <1>1 DEF SendEmail, Documents, history
  <2>2. Hands'
    BY <1>0, <1>1, GotoTyped DEF SendEmail, Hands, AtWork
  <2> QED  BY <2>1, <2>2
<1>2. ASSUME NEW n \in Ids, ReadForCancel(c, n) PROVE Typed'
  <2>1. Documents'
    BY <1>2 DEF ReadForCancel, Documents, docs, history
  <2>2. Hands'
    BY <1>0, <1>2, GotoTyped DEF ReadForCancel, AtWork
  <2> QED  BY <2>1, <2>2
<1>3. ASSUME NEW n \in Ids, ReadForResend(c, n) PROVE Typed'
  <2>1. Documents'
    BY <1>3 DEF ReadForResend, Documents, docs
  <2>2. Hands'
    BY <1>0, <1>3, GotoTyped DEF ReadForResend, AtWork
  <2> QED  BY <2>1, <2>2
<1>4. ASSUME NEW found \in SUBSET Ids, ReadBatch(c, found) PROVE Typed'
  <2>1. {Read(n) : n \in found} \in SUBSET Papers
    BY <1>0
  <2>2. Hands'
    BY <1>4, <2>1 DEF ReadBatch, Hands, AtWork
  <2> QED  BY <1>4, <2>2 DEF ReadBatch, Documents, docs, history
<1>5. ASSUME NEW point \in {"mark", "count", "release"}, Take(c, point) PROVE Typed'
  <2>1. PICK m \in batch[c] :
           Goto(c, point, m) /\ batch' = [batch EXCEPT ![c] = @ \ {m}]
    BY <1>5 DEF Take
  <2>2. m \in Papers /\ batch[c] \ {m} \in SUBSET batch[c]
    BY DEF Hands
  <2>3. Hands'
    BY <2>1, <2>2, GotoTyped DEF AtWork
  <2> QED  BY <1>5, <2>3 DEF Take, Documents, docs, history
<1> QED  BY <1>1, <1>2, <1>3, <1>4, <1>5 DEF Begins

LEMMA NextTyped == Typed /\ [Next]_vars => Typed'
<1> SUFFICES ASSUME Typed, [Next]_vars PROVE Typed'
  OBVIOUS
<1>1. CASE Crash
  BY <1>1 DEF Crash, Typed, Hands, Documents, docs, AtWork
<1>2. ASSUME NEW n \in Ids, TimeComes(n) \/ CleanupOldNotifications(n) PROVE Typed'
  BY <1>2 DEF TimeComes, CleanupOldNotifications, Typed, Hands, Documents, calls, history
<1>3. CASE UNCHANGED vars
  BY <1>3 DEF vars, docs, calls, history, Typed, Hands, Documents
<1> QED  BY <1>1, <1>2, <1>3, StepKinds, WorksTyped, BeginsTyped DEF Elsewhere

LEMMA InitTyped == Init => Typed
BY DEF Init, Typed, Hands, Documents, AtWork

-----------------------------------------------------------------------------
(* A document says "sent" only when an email was.                          *)

\* What is about to be recorded as sent was sent, too.
SentInv == SentIsTrue /\ \A c \in Callers : pc[c] = "sent" => copy[c].id \in mailed

\* An update writes nothing but its own status.
LEMMA UpdateEffect ==
  ASSUME Documents, NEW n \in Ids, NEW a, NEW s, UpdateFails(n, s, a)
  PROVE  /\ \A i \in Ids : status'[i] # status[i] => i = n /\ status'[i] = s
         /\ \A i \in Ids : attempts'[i] # attempts[i] => i = n
         /\ when' = when
         /\ docs' # docs => Exists(n) /\ when[n] # "past"
BY DEF Documents, UpdateFails, Update, Accepted, docs

\* Of the others a call changes nothing.
LEMMA GotoEffect ==
  ASSUME Hands, NEW c \in Callers, NEW point, NEW m, Goto(c, point, m)
  PROVE  /\ pc'[c] = point /\ copy'[c] = m
         /\ \A d \in Callers \ {c} : pc'[d] = pc[d] /\ copy'[d] = copy[d]
BY DEF Hands, Goto

LEMMA FinishEffect ==
  ASSUME Hands, NEW c \in Callers, Finish(c)
  PROVE  /\ pc'[c] \in {"idle", "next"} /\ copy'[c] = NoCopy /\ batch' = batch
         /\ \A d \in Callers \ {c} : pc'[d] = pc[d] /\ copy'[d] = copy[d]
BY GotoEffect DEF Finish

LEMMA NextSent == Typed /\ SentInv /\ [Next]_vars => SentInv'
<1> SUFFICES ASSUME Typed, SentInv, [Next]_vars PROVE SentInv'
  OBVIOUS
<1> USE DEF Typed
<1>1. ASSUME NEW c \in Callers, Works(c) PROVE SentInv'
  <2>1. CASE RecordSent(c)
    <3>1. /\ copy[c].id \in Ids /\ copy[c].id \in mailed /\ Finish(c) /\ mailed' = mailed
          /\ UpdateFails(copy[c].id, "sent", copy[c].attempts)
      BY <2>1, CopyType DEF RecordSent, SentInv, AtWork, history
    <3> QED  BY <3>1, FinishEffect, UpdateEffect DEF SentInv, SentIsTrue
  <2>2. CASE Send(c)
    <3>1. /\ copy[c].id \in Ids /\ docs' = docs /\ mailed \subseteq mailed'
          /\ \/ Goto(c, "sent", copy[c]) /\ copy[c].id \in mailed'
             \/ Goto(c, "error", copy[c])
      BY <2>2, CopyType DEF Send, AtWork
    <3> QED  BY <3>1, GotoEffect DEF SentInv, SentIsTrue, docs
  <2>3. CASE \/ MarkProcessing(c) \/ RecordError(c) \/ RecordFailure(c) \/ CancelNotification(c)
             \/ ResendNotification(c) \/ CountAttempt(c) \/ Release(c)
    <3>1. /\ pc[c] \in AtWork /\ mailed' = mailed
          /\ \E a, s : UpdateFails(copy[c].id, s, a) /\ s # "sent"
      BY <2>3 DEF MarkProcessing, RecordError, RecordFailure, CancelNotification,
                  ResendNotification, CountAttempt, Release, UpdateFails, AtWork, history
    <3>2. Finish(c) \/ \E p, m : Goto(c, p, m) /\ p # "sent"
      BY <2>3 DEF MarkProcessing, RecordError, RecordFailure, CancelNotification,
                  ResendNotification, CountAttempt, Release
    <3>3. \A i \in Ids : status'[i] # status[i] => status'[i] # "sent"
      BY <3>1, CopyType, UpdateEffect
    <3>4. \A d \in Callers : pc'[d] = "sent" => pc[d] = "sent" /\ copy'[d] = copy[d]
      BY <3>2, FinishEffect, GotoEffect
    <3> QED  BY <3>1, <3>3, <3>4 DEF SentInv, SentIsTrue
  <2> QED  BY <1>1, <2>1, <2>2, <2>3 DEF Works, SendNow
<1>2. ASSUME NEW c \in Callers, Begins(c) PROVE SentInv'
  <2>1. mailed' = mailed /\ \A i \in Ids : status'[i] = "sent" => status[i] = "sent"
    BY <1>2 DEF Begins, SendEmail, ReadForCancel, ReadForResend, ReadBatch, Take, docs, history,
                Documents
  <2>2. \/ \E p, m : Goto(c, p, m) /\ p # "sent"
        \/ UNCHANGED <<pc, copy>>
        \/ pc' = [pc EXCEPT ![c] = "next"] /\ copy' = copy
    BY <1>2 DEF Begins, SendEmail, ReadForCancel, ReadForResend, ReadBatch, Take
  <2>3. \A d \in Callers : pc'[d] = "sent" => pc[d] = "sent" /\ copy'[d] = copy[d]
    BY <2>2, GotoEffect DEF Hands
  <2> QED  BY <2>1, <2>3 DEF SentInv, SentIsTrue
<1>3. CASE Elsewhere
  BY <1>3 DEF Elsewhere, Crash, TimeComes, CleanupOldNotifications, SentInv, SentIsTrue,
              docs, calls, history, Documents
<1>4. CASE UNCHANGED vars
  BY <1>4 DEF vars, docs, calls, history, SentInv, SentIsTrue
<1> QED  BY <1>1, <1>2, <1>3, <1>4, StepKinds

\* However many calls replace each other's documents, one that says "sent" is of a
\* notification that a server has accepted.
THEOREM SentTrue == Spec => []SentIsTrue
<1>1. Init => SentInv
  BY DEF Init, SentInv, SentIsTrue
<1>2. SentInv => SentIsTrue
  BY DEF SentInv
<1> QED  BY <1>1, <1>2, InitTyped, NextTyped, NextSent, PTL DEF Spec

-----------------------------------------------------------------------------
(* What nobody holds stays where it is.                                    *)

\* What is in the hands of one call.
HeldBy(c, n) == (copy[c] # NoCopy /\ copy[c].id = n) \/ \E m \in batch[c] : m.id = n

LEMMA WorksOnHeld ==
  ASSUME Typed, NEW c \in Callers, Works(c)
  PROVE  /\ copy[c].id \in Ids /\ Held(copy[c].id)
         /\ \A n \in Ids \ {copy[c].id} :
                /\ status'[n] = status[n] /\ attempts'[n] = attempts[n] /\ when'[n] = when[n]
                /\ tries'[n] = tries[n]
         /\ resends' = resends
         /\ \A n \in Ids, d \in Callers : HeldBy(d, n)' => HeldBy(d, n)
         /\ \A d \in Callers : d # c => copy'[d] = copy[d] /\ pc'[d] = pc[d]
         /\ copy'[c] = NoCopy \/ copy'[c].id = copy[c].id
         /\ batch' = batch
<1> USE DEF Typed
<1>1. pc[c] \in AtWork
  BY DEF Works, SendNow, MarkProcessing, Send, RecordSent, RecordError, RecordFailure,
         CancelNotification, ResendNotification, CountAttempt, Release, AtWork
<1>2. copy[c] \in Papers /\ copy[c].id \in Ids /\ copy[c] # NoCopy
  BY <1>1, CopyType, NotificationAssumption DEF Papers
<1>3. Held(copy[c].id)
  BY <1>2 DEF Held
<1>4. Finish(c) \/ \E p, m : Goto(c, p, m) /\ batch' = batch /\ m.id = copy[c].id
  BY DEF Works, SendNow, MarkProcessing, Send, RecordSent, RecordError, RecordFailure,
         CancelNotification, ResendNotification, CountAttempt, Release, Copy, history
<1>5. /\ batch' = batch
      /\ \A d \in Callers : d # c => copy'[d] = copy[d] /\ pc'[d] = pc[d]
      /\ copy'[c] = NoCopy \/ copy'[c].id = copy[c].id
  BY <1>4, GotoEffect, FinishEffect
<1>6. \A n \in Ids, d \in Callers : HeldBy(d, n)' => HeldBy(d, n)
  BY <1>2, <1>5 DEF HeldBy
<1>7. CASE Send(c)
  BY <1>2, <1>3, <1>5, <1>6, <1>7 DEF Send, docs, Documents
<1>8. CASE Works(c) /\ ~Send(c)
  <2>1. /\ UNCHANGED <<tries, resends>>
        /\ \E a, s : UpdateFails(copy[c].id, s, a)
    BY <1>8 DEF Works, SendNow, MarkProcessing, RecordSent, RecordError, RecordFailure,
         CancelNotification, ResendNotification, CountAttempt, Release, UpdateFails, history
  <2>2. \A n \in Ids \ {copy[c].id} :
          status'[n] = status[n] /\ attempts'[n] = attempts[n] /\ when'[n] = when[n]
    BY <1>2, <2>1, UpdateEffect DEF UpdateFails, Update, docs, Documents
  <2> QED  BY <1>2, <1>3, <1>5, <1>6, <2>1, <2>2
<1> QED  BY <1>7, <1>8

LEMMA HeldIsHeldBy == \A n : Held(n) <=> \E c \in Callers : HeldBy(c, n)
BY DEF Held, HeldBy

LEMMA HeldIsHeldByNext == \A n : Held(n)' <=> \E c \in Callers : HeldBy(c, n)'
BY DEF Held, HeldBy

\* A round or a request takes up only what its query or what somebody already holds.
LEMMA BeginsHolds ==
  ASSUME Typed, NEW c \in Callers, Begins(c), NEW n \in Ids, ~Held(n), Held(n)'
  PROVE  \/ status[n] = "none" /\ SendEmail(c, n)
         \/ ReadForCancel(c, n)
         \/ c \in Users /\ ReadForResend(c, n)
         \/ \E found \in SUBSET Ids :
               n \in found /\ ReadBatch(c, found) /\ (IsPending(n) \/ MayRetry(n) \/ IsDue(n))
<1> USE DEF Typed
<1>0. ~HeldBy(c, n) /\ \A d \in Callers : ~HeldBy(d, n)
  BY HeldIsHeldBy
<1>1. PICK d \in Callers : HeldBy(d, n)'
  BY HeldIsHeldByNext
<1>2. ASSUME NEW i \in Ids, SendEmail(c, i) PROVE i = n
  <2>1. \/ Goto(c, "mark", Copy(i, 0)) /\ batch' = batch
        \/ UNCHANGED <<pc, copy, batch>>
    BY <1>2 DEF SendEmail
  <2> QED  BY <1>0, <1>1, <2>1, GotoEffect DEF HeldBy, Copy
<1>3. ASSUME NEW i \in Ids, ReadForCancel(c, i) \/ ReadForResend(c, i) PROVE i = n
  <2>1. \E p : Goto(c, p, Read(i)) /\ batch' = batch
    BY <1>3 DEF ReadForCancel, ReadForResend
  <2> QED  BY <1>0, <1>1, <2>1, GotoEffect DEF HeldBy, Read, Copy
<1>4. ASSUME NEW found \in SUBSET Ids, ReadBatch(c, found) PROVE n \in found
  <2>1. copy' = copy /\ batch'[c] = {Read(i) : i \in found}
        /\ \A e \in Callers \ {c} : batch'[e] = batch[e]
    BY <1>4 DEF ReadBatch, Hands
  <2>2. d = c /\ \E m \in batch'[c] : m.id = n
    BY <1>0, <1>1, <2>1 DEF HeldBy
  <2> QED  BY <2>1, <2>2 DEF Read, Copy
<1>5. ASSUME NEW p, Take(c, p) PROVE FALSE
  <2>1. PICK m \in batch[c] : Goto(c, p, m) /\ batch' = [batch EXCEPT ![c] = @ \ {m}]
    BY <1>5 DEF Take
  <2>2. \A e \in Callers : batch'[e] \subseteq batch[e]
    BY <2>1 DEF Hands
  <2>3. \A e \in Callers : copy'[e] = copy[e] \/ (e = c /\ copy'[e] = m)
    BY <2>1, GotoEffect
  <2> QED  BY <1>0, <1>1, <2>1, <2>2, <2>3 DEF HeldBy
<1> QED  BY <1>2, <1>3, <1>4, <1>5 DEF Begins, SendEmail

\* A step that begins something changes the document only of a new notification.
LEMMA BeginsKeeps ==
  ASSUME Typed, NEW c \in Callers, Begins(c), NEW n \in Ids, status[n] # "none"
  PROVE  /\ status'[n] = status[n] /\ attempts'[n] = attempts[n] /\ when'[n] = when[n]
         /\ tries'[n] = tries[n]
         /\ \/ resends'[n] = resends[n]
            \/ c \in Users /\ ReadForResend(c, n) /\ resends'[n] = resends[n] + 1
BY DEF Begins, SendEmail, ReadForCancel, ReadForResend, ReadBatch, Take, docs, history,
       Typed, Documents

\* Whatever runs, nothing but a resend takes a notification out of a dead end.
THEOREM DeadEndsStay == Spec => OnlyResendRevives
<1>1. ASSUME Typed, [Next]_vars
      PROVE  [\A n \in Ids :
               DeadEnd(n) => (DeadEnd(n)' \/ \E c \in Users : ReadForResend(c, n))]_vars
  <2> SUFFICES ASSUME Next, NEW n \in Ids, DeadEnd(n), ~\E c \in Users : ReadForResend(c, n)
               PROVE  DeadEnd(n)'
    BY <1>1
  <2> USE DEF DeadEnd, MayRetry
  <2>0. Typed /\ ~Held(n) /\ status[n] \in {"processing", "failed"}
    BY <1>1
  <2>1. ASSUME NEW c \in Callers, Works(c) PROVE DeadEnd(n)'
    <3>1. n # copy[c].id
      BY <2>0, <2>1, WorksOnHeld
    <3>2. ~Held(n)'
      BY <2>0, <2>1, WorksOnHeld, HeldIsHeldBy, HeldIsHeldByNext
    <3> QED  BY <2>0, <2>1, <3>1, <3>2, WorksOnHeld
  <2>2. ASSUME NEW c \in Callers, Begins(c)
        PROVE  DeadEnd(n)' \/ (c \in Users /\ ReadForResend(c, n))
    <3>1. status'[n] = status[n] /\ attempts'[n] = attempts[n]
      BY <2>0, <2>2, BeginsKeeps
    <3>2. Held(n)' => c \in Users /\ ReadForResend(c, n)
      BY <2>0, <2>2, BeginsHolds DEF IsPending, IsDue, ReadForCancel
    <3> QED  BY <3>1, <3>2
  <2>3. CASE Elsewhere
    BY <2>0, <2>3 DEF Elsewhere, Crash, TimeComes, CleanupOldNotifications, Held, docs, calls,
                      Typed, Documents
  <2> QED  BY <2>1, <2>2, <2>3, StepKinds
<1> QED  BY <1>1, InitTyped, NextTyped, PTL DEF Spec, OnlyResendRevives

-----------------------------------------------------------------------------
(* Rounds never send what was scheduled.                                   *)

\* A notification that was only scheduled: whoever works on it may cancel it, or has
\* found it after its time, when no update of it is accepted.
Unsent(n) ==
    /\ tries[n] = 0
    /\ status[n] \in {"scheduled", "cancelled", "gone"}
    /\ \A c \in Callers :
          (copy[c] # NoCopy /\ copy[c].id = n)
              => pc[c] = "cancel" \/ (pc[c] \in {"mark", "count", "release"} /\ when[n] = "past")
    /\ \A c \in Callers : (\E m \in batch[c] : m.id = n) => when[n] = "past"

\* Nobody can have anything to do with a notification before it exists.
Untouched(n) == when[n] = "none" /\ tries[n] = 0 /\ ~Held(n)

UnsentInv ==
    \A n \in Ids :
        /\ status[n] = "none" => Untouched(n)
        /\ when[n] # "none" /\ resends[n] = 0 => Unsent(n)

LEMMA WorksUnsent ==
  ASSUME Typed, UnsentInv, NEW c \in Callers, Works(c)
  PROVE  UnsentInv'
<1> USE DEF Typed
<1> DEFINE i == copy[c].id
<1>0. /\ i \in Ids /\ Held(i) /\ status[i] # "none"
  BY WorksOnHeld DEF UnsentInv, Untouched
<1>1. /\ pc[c] \in AtWork /\ copy[c] # NoCopy
  BY CopyType, NotificationAssumption
     DEF Works, SendNow, MarkProcessing, Send, RecordSent, RecordError, RecordFailure,
         CancelNotification, ResendNotification, CountAttempt, Release, AtWork, Papers
<1>2. status'[i] # "none" /\ when' = when
  <2>1. docs' = docs \/ \E a, s : s # "none" /\ UpdateFails(i, s, a)
    BY DEF Works, SendNow, MarkProcessing, Send, RecordSent, RecordError, RecordFailure,
         CancelNotification, ResendNotification, CountAttempt, Release, UpdateFails
  <2> QED  BY <1>0, <2>1, UpdateEffect DEF docs
<1>3. ASSUME NEW n \in Ids, status'[n] = "none" PROVE Untouched(n)'
  <2>1. n # i /\ status[n] = "none"
    BY <1>2, <1>3, WorksOnHeld
  <2> QED  BY <2>1, WorksOnHeld, HeldIsHeldBy, HeldIsHeldByNext DEF UnsentInv, Untouched
<1>4. ASSUME NEW n \in Ids, when'[n] # "none", resends'[n] = 0 PROVE Unsent(n)'
  <2>1. Unsent(n)
    BY <1>2, <1>4, WorksOnHeld DEF UnsentInv
  <2>2. CASE n # i
    <3>1. tries'[n] = tries[n] /\ status'[n] = status[n] /\ when'[n] = when[n] /\ batch' = batch
      BY <2>2, WorksOnHeld
    <3>2. ASSUME NEW d \in Callers, copy'[d] # NoCopy, copy'[d].id = n
          PROVE  d # c
      BY <2>2, <3>2, WorksOnHeld
    <3>3. \A d \in Callers : d # c => copy'[d] = copy[d] /\ pc'[d] = pc[d]
      BY WorksOnHeld
    <3> QED  BY <2>1, <3>1, <3>2, <3>3 DEF Unsent
  <2>3. CASE n = i
    <3>1. pc[c] = "cancel" \/ (pc[c] \in {"mark", "count", "release"} /\ when[n] = "past")
      BY <1>1, <2>1, <2>3 DEF Unsent
    <3>2. /\ tries' = tries /\ Finish(c)
          /\ docs' = docs \/ UpdateFails(n, "cancelled", copy[c].attempts)
      BY <2>3, <3>1 DEF Works, SendNow, MarkProcessing, Send, RecordSent, RecordError,
           RecordFailure, CancelNotification, ResendNotification, CountAttempt, Release,
           UpdateFails, Update, Accepted, history
    <3>3. status'[n] \in {"scheduled", "cancelled", "gone"}
      BY <2>1, <3>2, UpdateEffect DEF docs, Unsent
    <3>4. copy'[c] = NoCopy /\ batch' = batch
          /\ \A d \in Callers : d # c => copy'[d] = copy[d] /\ pc'[d] = pc[d]
      BY <3>2, FinishEffect
    <3> QED  BY <1>2, <2>1, <3>2, <3>3, <3>4 DEF Unsent
  <2> QED  BY <2>2, <2>3
<1> QED  BY <1>3, <1>4 DEF UnsentInv

LEMMA BeginsUnsent ==
  ASSUME Typed, UnsentInv, NEW c \in Callers, Begins(c)
  PROVE  UnsentInv'
<1> USE DEF Typed
<1>1. ASSUME NEW n \in Ids, status'[n] = "none" PROVE Untouched(n)'
  <2>1. status[n] = "none" /\ when'[n] = when[n] /\ tries'[n] = tries[n] /\ ~SendEmail(c, n)
    BY <1>1 DEF Begins, SendEmail, ReadForCancel, ReadForResend, ReadBatch, Take, docs,
                history, Documents
  <2>2. Untouched(n)
    BY <2>1 DEF UnsentInv
  <2>3. ~Held(n)'
    BY <2>1, <2>2, BeginsHolds DEF Untouched, ReadForCancel, ReadForResend, Exists,
                                   IsPending, MayRetry, IsDue
  <2> QED  BY <2>1, <2>2, <2>3 DEF Untouched
<1>2. ASSUME NEW n \in Ids, when'[n] # "none", resends'[n] = 0 PROVE Unsent(n)'
  <2>1. CASE status[n] = "none"
    <3>1. Untouched(n) /\ \A d \in Callers : ~HeldBy(d, n)
      BY <2>1, HeldIsHeldBy DEF UnsentInv, Untouched
    <3>2. /\ status'[n] = "scheduled" /\ tries'[n] = 0 /\ UNCHANGED <<copy, batch>>
      BY <1>2, <2>1, <3>1
         DEF Untouched, Begins, SendEmail, ReadForCancel, ReadForResend, ReadBatch, Take, docs,
             history, Documents
    <3> QED  BY <3>1, <3>2 DEF Unsent, HeldBy
  <2>2. CASE status[n] # "none"
    <3>1. /\ status'[n] = status[n] /\ when'[n] = when[n] /\ tries'[n] = tries[n]
          /\ resends'[n] = resends[n] /\ ~ReadForResend(c, n)
      <4>1. resends[n] \in Nat /\ (ReadForResend(c, n) => resends'[n] = resends[n] + 1)
        BY DEF Documents, ReadForResend
      <4> QED  BY <1>2, <2>2, <4>1, BeginsKeeps
    <3>2. Unsent(n)
      BY <1>2, <3>1 DEF UnsentInv
    <3>3. \/ \E i \in Ids \ {n} : \E p, m : Goto(c, p, m) /\ m.id = i /\ batch' = batch
          \/ Goto(c, "cancel", Read(n)) /\ batch' = batch
          \/ UNCHANGED <<copy, pc, batch>>
          \/ \E found \in SUBSET Ids :
                /\ ReadBatch(c, found)
                /\ n \in found => when[n] = "past"
          \/ \E p \in {"mark", "count", "release"} : Take(c, p)
      BY <2>2, <3>1, <3>2 DEF Begins, SendEmail, ReadForCancel, ReadForResend, Unsent,
                              IsPending, MayRetry, IsDue, Read, Copy
    <3>4. ASSUME NEW i \in Ids \ {n}, NEW p, NEW m, Goto(c, p, m), m.id = i, batch' = batch
          PROVE  Unsent(n)'
      BY <3>1, <3>2, <3>4, GotoEffect DEF Unsent
    <3>5. CASE Goto(c, "cancel", Read(n)) /\ batch' = batch
      BY <3>1, <3>2, <3>5, GotoEffect DEF Unsent
    <3>6. CASE UNCHANGED <<copy, pc, batch>>
      BY <3>1, <3>2, <3>6 DEF Unsent
    <3>7. ASSUME NEW found \in SUBSET Ids, ReadBatch(c, found), n \in found => when[n] = "past"
          PROVE  Unsent(n)'
      <4>1. /\ pc[c] = "idle" /\ copy' = copy /\ \A d \in Callers \ {c} : pc'[d] = pc[d]
            /\ batch'[c] = {Read(i) : i \in found}
            /\ \A d \in Callers \ {c} : batch'[d] = batch[d]
        BY <3>7 DEF ReadBatch, Hands
      <4>2. copy[c] = NoCopy
        BY <4>1 DEF Hands, AtWork
      <4>3. (\E m \in batch'[c] : m.id = n) => n \in found
        BY <4>1 DEF Read, Copy
      <4> QED  BY <3>1, <3>2, <3>7, <4>1, <4>2, <4>3 DEF Unsent
    <3>8. ASSUME NEW p \in {"mark", "count", "release"}, Take(c, p) PROVE Unsent(n)'
      <4>1. PICK m \in batch[c] : Goto(c, p, m) /\ batch' = [batch EXCEPT ![c] = @ \ {m}]
        BY <3>8 DEF Take
      <4>2. \A d \in Callers : batch'[d] \subseteq batch[d]
        BY <4>1 DEF Hands
      <4>3. m.id = n => when[n] = "past"
        BY <3>2 DEF Unsent
      <4> QED  BY <3>1, <3>2, <4>1, <4>2, <4>3, GotoEffect DEF Unsent
    <3> QED  BY <3>3, <3>4, <3>5, <3>6, <3>7, <3>8
  <2> QED  BY <2>1, <2>2
<1> QED  BY <1>1, <1>2 DEF UnsentInv

LEMMA NextUnsent == Typed /\ UnsentInv /\ [Next]_vars => UnsentInv'
<1> SUFFICES ASSUME Typed, UnsentInv, [Next]_vars PROVE UnsentInv'
  OBVIOUS
<1>1. CASE Crash
  BY <1>1 DEF Crash, UnsentInv, Untouched, Unsent, Held, docs
<1>2. ASSUME NEW i \in Ids, TimeComes(i) \/ CleanupOldNotifications(i) PROVE UnsentInv'
  <2>1. UNCHANGED <<calls, history, attempts>>
    BY <1>2 DEF TimeComes, CleanupOldNotifications
  <2>2. \A n \in Ids : /\ status'[n] = status[n] \/ (status[n] \in {"sent", "cancelled"}
                                                      /\ status'[n] = "gone")
                       /\ when'[n] = when[n] \/ (when[n] = "future" /\ when'[n] = "past")
    BY <1>2 DEF TimeComes, CleanupOldNotifications, Typed, Documents
  <2> QED  BY <2>1, <2>2 DEF UnsentInv, Untouched, Unsent, Held, calls, history
<1>3. CASE UNCHANGED vars
  BY <1>3 DEF vars, docs, calls, history, UnsentInv, Untouched, Unsent, Held
<1> QED  BY <1>1, <1>2, <1>3, StepKinds, WorksUnsent, BeginsUnsent DEF Elsewhere

\* In every state, however the calls interleave: what was given a time and never resent
\* was never sent.
THEOREM ScheduledUnsent == Spec => []ScheduledStaysUnsent
<1>1. Init => UnsentInv
  BY DEF Init, UnsentInv, Untouched, Unsent, Held
<1>2. UnsentInv => ScheduledStaysUnsent
  BY DEF UnsentInv, Unsent, ScheduledStaysUnsent
<1> QED  BY <1>1, <1>2, InitTyped, NextTyped, NextUnsent, PTL DEF Spec

-----------------------------------------------------------------------------
(* No attempt beyond the budget.                                           *)

\* Attempts stay within the budget in documents and copies, and what a retry counts has one
\* left: its round found it so, and works on its copies whatever is written since.
Ranges ==
    /\ \A n \in Ids : attempts[n] \in 0..MaxAttempts /\ resends[n] \in 0..MaxResends
    /\ \A c \in Callers : copy[c] # NoCopy => copy[c].attempts \in 0..MaxAttempts
    /\ \A c \in Callers : \A m \in batch[c] : m.attempts \in 0..MaxAttempts
    /\ \A c \in Callers : pc[c] = "count" => copy[c].attempts < MaxAttempts
    /\ \A c \in Retriers : \A m \in batch[c] : m.attempts < MaxAttempts
    /\ crashes \in 0..MaxCrashes

LEMMA RangesType == Typed /\ Ranges => TypeOK
<1> SUFFICES ASSUME Typed, Ranges PROVE TypeOK
  OBVIOUS
<1> USE DEF Typed
<1>1. attempts \in [Ids -> 0..MaxAttempts] /\ resends \in [Ids -> 0..MaxResends]
  BY DEF Documents, Ranges
<1>2. \A m \in Papers : m.attempts \in 0..MaxAttempts => m \in Copies
  BY DEF Papers, Copies
<1>3. copy \in [Callers -> Copies \cup {NoCopy}]
  BY <1>2 DEF Hands, Ranges
<1>4. batch \in [Callers -> SUBSET Copies]
  BY <1>2 DEF Hands, Ranges
<1> QED  BY <1>1, <1>3, <1>4 DEF TypeOK, Hands, Documents, AtWork, Ranges

\* A call goes on with a copy within the budget, or with none, and writes no more.
LEMMA MovedInRanges ==
  ASSUME Typed, Ranges, NEW c \in Callers, NEW point, NEW m, Goto(c, point, m),
         m = NoCopy \/ m.attempts \in 0..MaxAttempts,
         point = "count" => m.attempts < MaxAttempts,
         \A n \in Ids : attempts'[n] \in 0..MaxAttempts /\ resends'[n] \in 0..MaxResends,
         \A d \in Callers : batch'[d] \subseteq batch[d], crashes' = crashes
  PROVE  Ranges'
<1>1. /\ pc'[c] = point /\ copy'[c] = m
      /\ \A d \in Callers \ {c} : pc'[d] = pc[d] /\ copy'[d] = copy[d]
  BY GotoEffect DEF Typed
<1>2. Retriers \subseteq Callers
  BY DEF Callers
<1> QED  BY <1>1, <1>2 DEF Ranges

\* The attempts that an update writes.
LEMMA UpdateInRanges ==
  ASSUME Typed, Ranges, NEW n \in Ids, NEW s, NEW a \in 0..MaxAttempts, UpdateFails(n, s, a)
  PROVE  \A i \in Ids : attempts'[i] \in 0..MaxAttempts
BY DEF Typed, Documents, Ranges, UpdateFails, Update, docs

LEMMA WorksInRanges ==
  ASSUME Typed, Ranges, NEW c \in Callers, Works(c)
  PROVE  Ranges'
<1> DEFINE n == copy[c].id
           a == copy[c].attempts
<1>1. pc[c] \in AtWork
  BY DEF Works, SendNow, MarkProcessing, Send, RecordSent, RecordError, RecordFailure,
         CancelNotification, ResendNotification, CountAttempt, Release, AtWork
<1>2. /\ n \in Ids /\ a \in 0..MaxAttempts /\ 0 \in 0..MaxAttempts
      /\ pc[c] = "count" => a < MaxAttempts
  BY <1>1, CopyType, NotificationAssumption DEF Typed, Ranges, Papers
<1>3. \A k \in 0..MaxAttempts : Copy(n, k).attempts = k
  BY DEF Copy
    \* What the call writes, and with what it goes on.
<1>4. ASSUME NEW s, NEW k \in 0..MaxAttempts, UpdateFails(n, s, k) \/ docs' = docs,
             NEW k2 \in 0..MaxAttempts,
             \/ Finish(c)
             \/ batch' = batch /\ \E point : /\ point # "count"
                                            /\ \/ Goto(c, point, copy[c])
                                               \/ Goto(c, point, Copy(n, k2)),
             UNCHANGED <<resends, crashes>>
      PROVE  Ranges'
  <2>1. \A i \in Ids : attempts'[i] \in 0..MaxAttempts /\ resends'[i] \in 0..MaxResends
    BY <1>2, <1>4, UpdateInRanges DEF UpdateFails, Ranges, docs
  <2>2. batch' = batch
    BY <1>4 DEF Finish
  <2>3. \E point, m : /\ Goto(c, point, m) /\ point # "count"
                      /\ m = NoCopy \/ m.attempts \in 0..MaxAttempts
    BY <1>2, <1>3, <1>4 DEF Finish
  <2> QED  BY <1>4, <2>1, <2>2, <2>3, MovedInRanges
<1>5. CASE MarkProcessing(c)
  BY <1>2, <1>4, <1>5 DEF MarkProcessing, UpdateFails, history
<1>6. CASE Send(c)
  BY <1>2, <1>4, <1>6 DEF Send
<1>7. CASE RecordSent(c)
  BY <1>2, <1>4, <1>7 DEF RecordSent, history
<1>8. CASE RecordError(c)
  BY <1>2, <1>4, <1>8 DEF RecordError, history
<1>9. CASE RecordFailure(c)
  <2>1. \E k \in 0..MaxAttempts : UpdateFails(n, "failed", k)
    BY <1>2, <1>9, NotificationAssumption DEF RecordFailure
  <2> QED  BY <1>2, <1>4, <1>9, <2>1 DEF RecordFailure, history
<1>10. CASE CancelNotification(c)
  BY <1>2, <1>4, <1>10 DEF CancelNotification, history
<1>11. CASE ResendNotification(c)
  BY <1>2, <1>4, <1>11 DEF ResendNotification, UpdateFails, history
<1>12. CASE CountAttempt(c)
  <2>1. a + 1 \in 0..MaxAttempts
    BY <1>2, <1>12, NotificationAssumption DEF CountAttempt
  <2> QED  BY <2>1, <1>4, <1>12 DEF CountAttempt, UpdateFails, history
<1>13. CASE Release(c)
  BY <1>2, <1>4, <1>13 DEF Release, UpdateFails, history
<1> QED  BY <1>5, <1>6, <1>7, <1>8, <1>9, <1>10, <1>11, <1>12, <1>13 DEF Works, SendNow

\* Only a round of retries counts, and it has read what may be retried.
LEMMA RoundKinds ==
  ASSUME NEW c \in Callers, Round(c)
  PROVE  \/ Works(c)
         \/ \E found \in SUBSET Ids :
               ReadBatch(c, found) /\ (c \in Retriers => \A n \in found : MayRetry(n))
         \/ \E point \in {"mark", "count", "release"} :
               Take(c, point) /\ (point = "count" => c \in Retriers)
BY NotificationAssumption
   DEF Round, ProcessPendingNotifications, RetryFailedNotifications,
       ProcessScheduledNotifications, Works

LEMMA RoundInRanges ==
  ASSUME Typed, Ranges, NEW c \in Callers, Round(c)
  PROVE  Ranges'
<1>1. ASSUME NEW found \in SUBSET Ids, ReadBatch(c, found),
             c \in Retriers => \A n \in found : MayRetry(n)
      PROVE  Ranges'
  <2>1. /\ pc'[c] = "next" /\ batch'[c] = {Read(n) : n \in found}
        /\ UNCHANGED <<docs, copy, history>>
        /\ \A d \in Callers \ {c} : pc'[d] = pc[d] /\ batch'[d] = batch[d]
    BY <1>1 DEF ReadBatch, Typed, Hands
  <2>2. \A m \in batch'[c] : /\ m.attempts \in 0..MaxAttempts
                             /\ c \in Retriers => m.attempts < MaxAttempts
    BY <1>1, <2>1 DEF Read, Copy, MayRetry, Ranges
  <2>3. Retriers \subseteq Callers
    BY DEF Callers
  <2> QED  BY <2>1, <2>2, <2>3 DEF Ranges, docs, history
<1>2. ASSUME NEW point \in {"mark", "count", "release"}, Take(c, point),
             point = "count" => c \in Retriers
      PROVE  Ranges'
  <2>1. PICK m \in batch[c] : Goto(c, point, m) /\ batch' = [batch EXCEPT ![c] = @ \ {m}]
    BY <1>2 DEF Take
  <2>2. m.attempts \in 0..MaxAttempts /\ (point = "count" => m.attempts < MaxAttempts)
    BY <1>2 DEF Ranges
  <2>3. \A d \in Callers : batch'[d] \subseteq batch[d]
    BY <2>1 DEF Typed, Hands
  <2>4. UNCHANGED <<docs, history>>
    BY <1>2 DEF Take
  <2>5. \A n \in Ids : attempts'[n] \in 0..MaxAttempts /\ resends'[n] \in 0..MaxResends
    BY <2>4 DEF docs, history, Ranges
  <2> QED  BY <2>1, <2>2, <2>3, <2>4, <2>5, MovedInRanges DEF history
<1> QED  BY <1>1, <1>2, RoundKinds, WorksInRanges

LEMMA RequestInRanges ==
  ASSUME Typed, Ranges, NEW c \in Callers, Request(c)
  PROVE  Ranges'
<1>0. /\ 0 \in 0..MaxAttempts /\ \A n \in Ids : Copy(n, 0).attempts = 0
      /\ \A n \in Ids : Read(n).attempts \in 0..MaxAttempts
  BY NotificationAssumption DEF Copy, Read, Ranges
<1>1. ASSUME NEW n \in Ids, SendEmail(c, n) PROVE Ranges'
  <2>1. UNCHANGED <<attempts, batch, history>>
    BY <1>1 DEF SendEmail
  <2>2. Goto(c, "mark", Copy(n, 0)) \/ UNCHANGED <<pc, copy>>
    BY <1>1 DEF SendEmail
  <2>3. CASE UNCHANGED <<pc, copy>>
    BY <2>1, <2>3 DEF Ranges, history
  <2>4. CASE Goto(c, "mark", Copy(n, 0))
    <3>1. \A i \in Ids : attempts'[i] \in 0..MaxAttempts /\ resends'[i] \in 0..MaxResends
      BY <2>1 DEF Ranges, history
    <3> QED  BY <1>0, <2>1, <2>4, <3>1, MovedInRanges DEF history
  <2> QED  BY <2>2, <2>3, <2>4
<1>2. ASSUME NEW n \in Ids, ReadForCancel(c, n) PROVE Ranges'
  <2>1. \A i \in Ids : attempts'[i] \in 0..MaxAttempts /\ resends'[i] \in 0..MaxResends
    BY <1>2 DEF ReadForCancel, Ranges, docs, history
  <2>2. Goto(c, "cancel", Read(n)) /\ batch' = batch /\ crashes' = crashes
    BY <1>2 DEF ReadForCancel, history
  <2> QED  BY <1>0, <2>1, <2>2, MovedInRanges
<1>3. ASSUME NEW n \in Ids, ReadForResend(c, n) PROVE Ranges'
  <2>1. \A i \in Ids : attempts'[i] \in 0..MaxAttempts /\ resends'[i] \in 0..MaxResends
    BY <1>3, NotificationAssumption DEF ReadForResend, Ranges, docs, Typed, Documents
  <2>2. Goto(c, "resend", Read(n)) /\ batch' = batch /\ crashes' = crashes
    BY <1>3 DEF ReadForResend
  <2> QED  BY <1>0, <2>1, <2>2, MovedInRanges
<1> QED  BY <1>1, <1>2, <1>3, WorksInRanges DEF Request, Works

LEMMA NextRanges == Typed /\ Ranges /\ [Next]_vars => Ranges'
<1> SUFFICES ASSUME Typed, Ranges, [Next]_vars PROVE Ranges'
  OBVIOUS
<1>1. ASSUME NEW c \in Users, Request(c) PROVE Ranges'
  BY <1>1, RequestInRanges DEF Callers
<1>2. ASSUME NEW c \in Callers, SendNow(c) \/ Round(c) PROVE Ranges'
  BY <1>2, RoundInRanges, WorksInRanges DEF Works
<1>3. ASSUME NEW n \in Ids, TimeComes(n) \/ CleanupOldNotifications(n) PROVE Ranges'
  BY <1>3 DEF TimeComes, CleanupOldNotifications, Ranges, calls, history
<1>4. CASE Crash
  <2>1. crashes' \in 0..MaxCrashes /\ UNCHANGED <<attempts, resends>> /\ Retriers \subseteq Callers
    BY <1>4, NotificationAssumption DEF Crash, Ranges, docs, Callers
  <2>2. \A c \in Callers : pc'[c] = "idle" /\ copy'[c] = NoCopy /\ batch'[c] = {}
    BY <1>4 DEF Crash
  <2> QED  BY <2>1, <2>2 DEF Ranges
<1>5. CASE UNCHANGED vars
  BY <1>5 DEF vars, docs, calls, history, Ranges
<1> QED  BY <1>1, <1>2, <1>3, <1>4, <1>5 DEF Next

\* However many rounds count attempts of the same notification from copies of their own, no
\* document ever carries more attempts than the budget, which Validate would not take.
THEOREM AttemptsWithinBudget == Spec => []TypeOK
<1>1. Init => Ranges
  BY NotificationAssumption DEF Init, Ranges, Callers
<1> QED  BY <1>1, InitTyped, NextTyped, NextRanges, RangesType, PTL DEF Spec

-----------------------------------------------------------------------------
(* How many sends one failure can lead to.                                 *)

\* Of a set of numbers one is the lowest.
LEMMA SomeLowest ==
  ASSUME NEW S \in SUBSET Nat, S # {}
  PROVE  \E n \in S : \A m \in S : n <= m
<1>1. IsWellFoundedOn(OpToRel(<, Nat), Nat)
  BY NatLessThanWellFounded
<1>2. PICK n \in S : \A m \in S : ~(<<m, n>> \in OpToRel(<, Nat))
  BY <1>1, WFMin
<1>3. \A m \in S : ~(m < n)
  BY <1>2 DEF OpToRel
<1> QED  BY <1>3

\* Induction, over a set instead of a predicate.
LEMMA SetInduction ==
  ASSUME NEW S, 0 \in S, \A n \in Nat : n \in S => n + 1 \in S
  PROVE  \A n \in Nat : n \in S
<1> SUFFICES ASSUME Nat \ S # {} PROVE FALSE
  OBVIOUS
<1>1. PICK n \in Nat \ S : \A m \in Nat \ S : n <= m
  BY SomeLowest
<1>2. n # 0 /\ n - 1 \in Nat /\ n - 1 \in S
  BY <1>1
<1> QED  BY <1>1, <1>2

\* A sequence that begins like this and goes on by this rule.
Follows(f, first, rule) == f[0] = first /\ \A n \in Nat : f[n + 1] = rule[f[n]]

\* A function is defined by its first value and by how a value follows from the one before.
LEMMA RecursionExists ==
  ASSUME NEW S, NEW first \in S, NEW rule \in [S -> S]
  PROVE  \E f \in [Nat -> S] : Follows(f, first, rule)
<1> DEFINE Upto(n, f) == /\ f \in [0..n -> S] /\ f[0] = first
                         /\ \A i \in 0..(n - 1) : f[i + 1] = rule[f[i]]
           D == {n \in Nat : \E f : Upto(n, f)}
<1>1. \A n \in Nat : n \in D
  <2>1. 0 \in D
    <3>1. Upto(0, [i \in 0..0 |-> first])
      OBVIOUS
    <3> QED  BY <3>1
  <2>2. ASSUME NEW n \in Nat, n \in D PROVE n + 1 \in D
    <3>1. PICK f : Upto(n, f)
      BY <2>2
    <3> DEFINE g == [i \in 0..(n + 1) |-> IF i = n + 1 THEN rule[f[n]] ELSE f[i]]
    <3>2. g[0] = first /\ g[n + 1] = rule[f[n]] /\ f[n] \in S /\ \A i \in 0..n : g[i] = f[i]
      BY <3>1
    <3>3. g \in [0..(n + 1) -> S]
      BY <3>1
    <3>4. ASSUME NEW i \in 0..n PROVE g[i + 1] = rule[g[i]]
      <4>1. CASE i = n
        BY <3>2, <4>1
      <4>2. CASE i # n
        <5>1. i \in 0..(n - 1) /\ i + 1 \in 0..n
          BY <4>2
        <5> HIDE DEF g
        <5> QED  BY <3>1, <3>2, <5>1
      <4> QED  BY <4>1, <4>2
    <3> HIDE DEF g
    <3>5. Upto(n + 1, g)
      BY <3>2, <3>3, <3>4
    <3> QED  BY <3>5
  <2> HIDE DEF D
  <2> QED  BY <2>1, <2>2, SetInduction
<1>2. ASSUME NEW n \in Nat, NEW f, NEW m \in Nat, NEW g, Upto(n, f), Upto(m, g), n <= m
      PROVE  f[n] = g[n]
  <2> DEFINE E == {i \in Nat : i <= n => f[i] = g[i]}
  <2>1. 0 \in E
    BY <1>2
  <2>2. ASSUME NEW i \in Nat, i \in E PROVE i + 1 \in E
    <3> SUFFICES ASSUME i + 1 <= n PROVE f[i + 1] = g[i + 1]
      OBVIOUS
    <3>1. i \in 0..(n - 1) /\ i \in 0..(m - 1) /\ f[i] = g[i]
      BY <1>2, <2>2
    <3> QED  BY <1>2, <3>1
  <2>3. \A i \in Nat : i \in E
    <3> HIDE DEF E
    <3> QED  BY <2>1, <2>2, SetInduction
  <2> QED  BY <2>3
<1> DEFINE F == [n \in Nat |-> CHOOSE f : Upto(n, f)]
           h == [n \in Nat |-> F[n][n]]
<1>3. \A n \in Nat : Upto(n, F[n])
  BY <1>1
<1> HIDE DEF F, D
<1>4. h \in [Nat -> S] /\ h[0] = first
  BY <1>3
<1>5. ASSUME NEW n \in Nat PROVE h[n + 1] = rule[h[n]]
  <2>1. Upto(n, F[n]) /\ Upto(n + 1, F[n + 1])
    BY <1>3
  <2>2. F[n + 1][n + 1] = rule[F[n + 1][n]]
    <3>1. n \in 0..((n + 1) - 1)
      OBVIOUS
    <3> QED  BY <2>1, <3>1
  <2>3. F[n + 1][n] = F[n][n]
    <3>1. n + 1 \in Nat /\ n <= n + 1
      OBVIOUS
    <3> HIDE DEF Upto
    <3> QED  BY <1>2, <2>1, <3>1
  <2> QED  BY <2>2, <2>3
<1> QED  BY <1>4, <1>5 DEF Follows

\* The number of callers of RetryFailedNotifications.
R == Cardinality(Retriers)

\* Sends[k] is what a failure with k attempts left comes to: the send itself and, for
\* each caller of RetryFailedNotifications, what a failure with k - 1 left comes to.
LEMMA SendsFollow ==
  /\ R \in Nat
  /\ Sends[0] = 0
  /\ \A k \in Nat : Sends[k] \in Nat /\ Sends[k + 1] = 1 + R * Sends[k]
<1> DEFINE rule == [x \in Nat |-> 1 + R * x]
<1>0. R \in Nat
  BY NotificationAssumption, FS_CardinalityType DEF R
<1>1. PICK f \in [Nat -> Nat] : Follows(f, 0, rule)
  <2>1. rule \in [Nat -> Nat] /\ 0 \in Nat
    BY <1>0
  <2> HIDE DEF rule
  <2> QED  BY <2>1, RecursionExists
<1> USE DEF Follows
<1>2. f = [k \in Nat |-> IF k = 0 THEN 0 ELSE 1 + R * f[k - 1]]
  <2>1. ASSUME NEW k \in Nat \ {0} PROVE f[k] = 1 + R * f[k - 1]
    <3>1. k - 1 \in Nat /\ (k - 1) + 1 = k /\ f[k - 1] \in Nat
      BY <1>1
    <3> QED  BY <1>1, <3>1
  <2> QED  BY <1>1, <2>1
<1>3. Sends = CHOOSE f2 : f2 = [k \in Nat |-> IF k = 0 THEN 0 ELSE 1 + R * f2[k - 1]]
  BY DEF Sends, R
<1> HIDE DEF rule
<1>4. Sends = [k \in Nat |-> IF k = 0 THEN 0 ELSE 1 + R * Sends[k - 1]]
  BY <1>2, <1>3, Zenon
<1>5. Sends[0] = 0 /\ \A k \in Nat : Sends[k + 1] = 1 + R * Sends[k]
  <2>1. \A k \in Nat : k + 1 \in Nat /\ k + 1 # 0 /\ (k + 1) - 1 = k
    OBVIOUS
  <2> QED  BY <1>4, <2>1
<1>6. \A k \in Nat : Sends[k] \in Nat
  <2> DEFINE S == {k \in Nat : Sends[k] \in Nat}
  <2>1. 0 \in S
    BY <1>5
  <2>2. \A k \in Nat : k \in S => k + 1 \in S
    BY <1>0, <1>5
  <2> HIDE DEF S
  <2>3. \A k \in Nat : k \in S
    BY <2>1, <2>2, SetInduction
  <2> QED  BY <2>3 DEF S
<1> QED  BY <1>0, <1>5, <1>6

\* Products of numbers this large are left to lemmas of their own.
LEMMA Product ==
  ASSUME NEW a \in Nat, NEW b \in Nat
  PROVE  a * b \in Nat /\ (a >= 1 => a * b >= b) /\ (a >= 2 => a * b >= 2 * b)
OBVIOUS

\* More attempts left, more sends.
LEMMA SendsGrow == \A k \in Nat : \A m \in Nat : m <= k => Sends[m] <= Sends[k]
<1> DEFINE S == {k \in Nat : \A m \in Nat : m <= k => Sends[m] <= Sends[k]}
<1>1. 0 \in S
  BY SendsFollow
<1>2. ASSUME NEW k \in Nat, k \in S PROVE k + 1 \in S
  <2>0. R \in Nat /\ Sends[0] = 0 /\ Sends[1] = 1 /\ Sends[k] \in Nat
      /\ Sends[k + 1] = 1 + R * Sends[k]
    BY SendsFollow
  <2>1. CASE R = 0
    <3>1. \A m \in Nat : Sends[m] <= 1
      <4>1. \A m \in Nat \ {0} : m - 1 \in Nat /\ Sends[(m - 1) + 1] = 1 + R * Sends[m - 1]
         /\ (m - 1) + 1 = m
        BY SendsFollow
      <4>2. \A m \in Nat \ {0} : Sends[m] = 1
        <5> TAKE m \in Nat \ {0}
        <5>1. Sends[m - 1] \in Nat
          BY <4>1, SendsFollow
        <5>2. R * Sends[m - 1] = 0
          BY <5>1, <2>1
        <5> QED  BY <4>1, <5>2
      <4> QED  BY <4>2, <2>0
    <3>2. Sends[k + 1] = 1
      <4>1. R * Sends[k] = 0
        BY <2>0, <2>1
      <4> QED BY <2>0, <4>1
    <3> QED  BY <3>1, <3>2, <1>2
  <2>2. CASE R # 0
    <3>1. R * Sends[k] >= Sends[k] /\ R * Sends[k] \in Nat
      BY <2>0, <2>2, Product
    <3>2. \A m \in Nat : Sends[m] \in Nat
      BY SendsFollow
    <3>3. \A m \in Nat : m <= k + 1 => m = k + 1 \/ m <= k
      OBVIOUS
    <3>4. \A m \in Nat : m <= k + 1 => Sends[m] <= Sends[k + 1]
      <4> SUFFICES ASSUME NEW m \in Nat, m <= k + 1 PROVE Sends[m] <= Sends[k + 1]
        OBVIOUS
      <4>1. CASE m <= k
        <5>1. Sends[m] <= Sends[k]
          BY <4>1, <1>2
        <5> QED  BY <5>1, <3>1, <3>2, <2>0
      <4>2. CASE m = k + 1
        BY <4>2, <3>2, <2>0, <3>1
      <4> QED  BY <3>3, <4>1, <4>2
    <3> QED  BY <3>4
  <2> QED  BY <2>1, <2>2
<1> HIDE DEF S
<1>3. \A k \in Nat : k \in S
  BY <1>1, <1>2, SetInduction
<1> QED  BY <1>3 DEF S

-----------------------------------------------------------------------------
(* Sums of tables of numbers.  A sum is the size of a heap: as many stones *)
(* at each place as the table says.                                        *)

Heap(f) == {p \in (DOMAIN f) \X Nat : p[2] \in 1..f[p[1]]}

\* What is on a heap.
LEMMA HeapOf ==
  ASSUME NEW S, NEW f \in [S -> Nat]
  PROVE  /\ \A p \in Heap(f) : /\ p = <<p[1], p[2]>> /\ p[1] \in S
                              /\ p[2] \in Nat \ {0} /\ p[2] <= f[p[1]]
         /\ \A s \in S, k \in Nat \ {0} : k <= f[s] <=> <<s, k>> \in Heap(f)
BY DEF Heap

\* At most both.
LEMMA AtMostBoth ==
  ASSUME NEW S, IsFiniteSet(S), NEW T, IsFiniteSet(T)
  PROVE  IsFiniteSet(S \cup T) /\ Cardinality(S \cup T) <= Cardinality(S) + Cardinality(T)
<1>1. IsFiniteSet(S \cap T)
  BY FS_Intersection
<1>2. Cardinality(S \cap T) \in Nat /\ Cardinality(S) \in Nat /\ Cardinality(T) \in Nat
  BY <1>1, FS_CardinalityType
<1>3. IsFiniteSet(S \cup T)
      /\ Cardinality(S \cup T) = Cardinality(S) + Cardinality(T) - Cardinality(S \cap T)
  BY FS_Union
<1> QED  BY <1>2, <1>3

\* What is taken off and put on a heap.
LEMMA Swap ==
  ASSUME NEW H, IsFiniteSet(H), NEW H2, NEW A, IsFiniteSet(A), NEW L,
         H2 \ H \subseteq A, L \subseteq H \ H2
  PROVE  IsFiniteSet(H2) /\ Cardinality(H2) + Cardinality(L) <= Cardinality(H) + Cardinality(A)
<1>1. IsFiniteSet(L) /\ IsFiniteSet(H \ L)
      /\ Cardinality(H \ L) = Cardinality(H) - Cardinality(L)
  <2>1. IsFiniteSet(L)
    BY FS_Subset
  <2>2. H \cap L = L
    OBVIOUS
  <2>3. IsFiniteSet(H \ L) /\ Cardinality(H \ L) = Cardinality(H) - Cardinality(H \cap L)
    BY FS_Difference
  <2> QED  BY <2>1, <2>2, <2>3
<1>2. IsFiniteSet((H \ L) \cup A)
      /\ Cardinality((H \ L) \cup A) <= Cardinality(H \ L) + Cardinality(A)
  BY <1>1, AtMostBoth
<1>3. H2 \subseteq (H \ L) \cup A
  OBVIOUS
<1>4. IsFiniteSet(H2) /\ Cardinality(H2) <= Cardinality((H \ L) \cup A)
  BY <1>2, <1>3, FS_Subset
<1>5. /\ Cardinality(H) \in Nat /\ Cardinality(L) \in Nat /\ Cardinality(A) \in Nat
      /\ Cardinality(H2) \in Nat /\ Cardinality(H \ L) \in Nat
      /\ Cardinality((H \ L) \cup A) \in Nat
  BY <1>1, <1>2, <1>4, FS_CardinalityType
<1> QED  BY <1>1, <1>2, <1>4, <1>5

\* Disjoint sets.
LEMMA Together ==
  ASSUME NEW S, IsFiniteSet(S), NEW T, IsFiniteSet(T), S \cap T = {}
  PROVE  IsFiniteSet(S \cup T) /\ Cardinality(S \cup T) = Cardinality(S) + Cardinality(T)
<1>1. Cardinality(S \cap T) = 0
  BY FS_EmptySet
<1> QED  BY <1>1, FS_Union, FS_CardinalityType

\* A part of a table that is filled to the same height.
LEMMA Block ==
  ASSUME NEW S, IsFiniteSet(S), NEW a \in Nat, NEW b \in Nat, a <= b
  PROVE  /\ IsFiniteSet(S \X ((a + 1)..b))
         /\ Cardinality(S \X ((a + 1)..b)) = Cardinality(S) * (b - a)
<1>1. IsFiniteSet((a + 1)..b) /\ Cardinality((a + 1)..b) = b - a
  <2>1. a + 1 \in Int /\ b \in Int /\ (IF a + 1 > b THEN 0 ELSE b - (a + 1) + 1) = b - a
    OBVIOUS
  <2> QED  BY <2>1, FS_Interval
<1> QED  BY <1>1, FS_Product

\* A part of a table filled from the ground.
LEMMA Floor ==
  ASSUME NEW S, IsFiniteSet(S), NEW b \in Nat
  PROVE  IsFiniteSet(S \X (1..b)) /\ Cardinality(S \X (1..b)) = Cardinality(S) * b
<1>1. IsFiniteSet(1..b) /\ Cardinality(1..b) = b
  <2>1. (IF 1 > b THEN 0 ELSE b - 1 + 1) = b
    OBVIOUS
  <2> QED  BY <2>1, FS_Interval
<1> QED  BY <1>1, FS_Product

\* One entry of a table is replaced.
LEMMA OneEntry ==
  ASSUME NEW S, NEW f \in [S -> Nat], NEW h \in [S -> Nat], NEW c \in S,
         \A d \in S \ {c} : h[d] = f[d], IsFiniteSet(Heap(f))
  PROVE  IsFiniteSet(Heap(h)) /\ Cardinality(Heap(h)) + f[c] = Cardinality(Heap(f)) + h[c]
<1> DEFINE Rest == {p \in Heap(f) : p[1] # c}
<1>0. IsFiniteSet(Rest)
  <2>1. Rest \subseteq Heap(f)
    OBVIOUS
  <2> QED  BY <2>1, FS_Subset
<1>1. ASSUME NEW e \in [S -> Nat], \A d \in S \ {c} : e[d] = f[d]
      PROVE  IsFiniteSet(Heap(e)) /\ Cardinality(Heap(e)) = Cardinality(Rest) + e[c]
  <2> DEFINE Pile == {c} \X (1..e[c])
  <2>1. IsFiniteSet(Pile) /\ Cardinality(Pile) = e[c]
    <3>1. IsFiniteSet({c}) /\ Cardinality({c}) = 1
      BY FS_Singleton
    <3>2. e[c] \in Nat /\ 1 * e[c] = e[c]
      OBVIOUS
    <3> QED  BY <3>1, <3>2, Floor
  <2>2. Heap(e) = Rest \cup Pile
    <3>1. ASSUME NEW p \in Heap(e) PROVE p \in Rest \cup Pile
      <4>1. p = <<p[1], p[2]>> /\ p[1] \in S /\ p[2] \in Nat \ {0} /\ p[2] <= e[p[1]]
        BY <3>1, HeapOf
      <4>2. CASE p[1] = c
        <5>1. p[2] \in 1..e[c]
          BY <4>1, <4>2
        <5> QED  BY <4>1, <4>2, <5>1
      <4>3. CASE p[1] # c
        <5>1. <<p[1], p[2]>> \in Heap(f)
          BY <1>1, <4>1, <4>3, HeapOf
        <5> QED  BY <4>1, <4>3, <5>1
      <4> QED  BY <4>2, <4>3
    <3>2. ASSUME NEW p \in Rest PROVE p \in Heap(e)
      <4>1. p = <<p[1], p[2]>> /\ p[1] \in S /\ p[2] \in Nat \ {0} /\ p[2] <= f[p[1]] /\ p[1] # c
        BY <3>2, HeapOf
      <4>2. p[2] <= e[p[1]]
        BY <1>1, <4>1
      <4>3. <<p[1], p[2]>> \in Heap(e)
        BY <4>1, <4>2, HeapOf
      <4> QED  BY <4>1, <4>3
    <3>3. ASSUME NEW p \in Pile PROVE p \in Heap(e)
      <4>1. p = <<c, p[2]>> /\ p[2] \in Nat \ {0} /\ p[2] <= e[c]
        BY <3>3
      <4> HIDE DEF Pile
      <4>2. <<c, p[2]>> \in Heap(e)
        BY <4>1, HeapOf
      <4> QED  BY <4>1, <4>2
    <3> QED  BY <3>1, <3>2, <3>3
  <2>3. Rest \cap Pile = {}
    OBVIOUS
  <2> HIDE DEF Rest, Pile
  <2> QED  BY <1>0, <2>1, <2>2, <2>3, Together
<1> HIDE DEF Rest
<1>2. IsFiniteSet(Heap(h)) /\ Cardinality(Heap(h)) = Cardinality(Rest) + h[c]
  BY <1>1
<1>3. Cardinality(Heap(f)) = Cardinality(Rest) + f[c]
  BY <1>1
<1>4. Cardinality(Rest) \in Nat /\ f[c] \in Nat /\ h[c] \in Nat
  BY <1>0, FS_CardinalityType
<1> QED  BY <1>2, <1>3, <1>4

\* A table over the pairs of retries says what each weighs beside each other.
Pairs == Retriers \X Retriers

\* The entries of some retries among themselves, filled to height h, and two more for each alone.
LEMMA Couples ==
  ASSUME NEW F, IsFiniteSet(F), NEW h \in Nat
  PROVE  LET A == ((F \X F) \X (1..h)) \cup ({<<s, s>> : s \in F} \X {h + 1, h + 2})
         IN  IsFiniteSet(A) /\ Cardinality(A)
               <= (Cardinality(F) * Cardinality(F)) * h + 2 * Cardinality(F)
<1> DEFINE D == {<<s, s>> : s \in F}
           f == Cardinality(F)
<1>1. IsFiniteSet(D) /\ Cardinality(D) <= f
  <2> DEFINE m == [s \in F |-> <<s, s>>]
  <2>1. m \in Surjection(F, D)
    BY DEF Surjection
  <2> QED  BY <2>1, FS_Surjection
<1>2. IsFiniteSet(F \X F) /\ Cardinality(F \X F) = f * f
  BY FS_Product
<1>3. IsFiniteSet((F \X F) \X (1..h)) /\ Cardinality((F \X F) \X (1..h)) = (f * f) * h
  <2> QED  BY <1>2, Floor
<1>4. IsFiniteSet(D \X {h + 1, h + 2}) /\ Cardinality(D \X {h + 1, h + 2}) = Cardinality(D) * 2
  <2>1. {h + 1, h + 2} = (h + 1)..(h + 2)
    OBVIOUS
  <2>2. h + 2 \in Nat /\ h <= h + 2 /\ (h + 2) - h = 2
    OBVIOUS
  <2> HIDE DEF D
  <2>3. IsFiniteSet(D \X ((h + 1)..(h + 2)))
        /\ Cardinality(D \X ((h + 1)..(h + 2))) = Cardinality(D) * ((h + 2) - h)
    BY <1>1, <2>2, Block
  <2> QED  BY <2>1, <2>2, <2>3
<1> HIDE DEF D
<1>5. IsFiniteSet(((F \X F) \X (1..h)) \cup (D \X {h + 1, h + 2}))
      /\ Cardinality(((F \X F) \X (1..h)) \cup (D \X {h + 1, h + 2}))
            <= Cardinality((F \X F) \X (1..h)) + Cardinality(D \X {h + 1, h + 2})
  BY <1>3, <1>4, AtMostBoth
<1>6. f \in Nat /\ (f * f) * h \in Nat /\ Cardinality(D) \in Nat
      /\ Cardinality(((F \X F) \X (1..h)) \cup (D \X {h + 1, h + 2})) \in Nat
  <2>1. f \in Nat
    BY FS_CardinalityType
  <2> QED  BY <1>1, <1>3, <1>5, <2>1, FS_CardinalityType
<1>7. Cardinality(((F \X F) \X (1..h)) \cup (D \X {h + 1, h + 2})) <= (f * f) * h + 2 * f
  <2> DEFINE q == (f * f) * h
  <2>1. q = Cardinality((F \X F) \X (1..h)) /\ q \in Nat
    BY <1>3, <1>6
  <2> HIDE DEF q, f
  <2>2. Cardinality(D) <= f /\ Cardinality(D) * 2 = 2 * Cardinality(D)
    BY <1>1, <1>6
  <2>3. Cardinality(((F \X F) \X (1..h)) \cup (D \X {h + 1, h + 2})) <= q + 2 * f
    BY <1>4, <1>5, <1>6, <2>1, <2>2
  <2> QED  BY <2>3 DEF q
<1> QED  BY <1>5, <1>7 DEF D

\* A table of pairs gains only among those of F, and loses between r and them.
Gains(W, W2, F, h) ==
    \A s, t \in Retriers : \/ W2[<<s, t>>] <= W[<<s, t>>]
                           \/ s \in F /\ t \in F /\ s # t /\ W2[<<s, t>>] <= h
                           \/ s \in F /\ s = t /\ W2[<<s, t>>] <= h + 2
\* W2 is lower than W between r and those in F.
Loses(W, W2, r, F, hi, lo) ==
    \A s \in F : /\ W[<<r, s>>] >= hi /\ W[<<s, r>>] >= hi
                 /\ W2[<<r, s>>] <= lo /\ W2[<<s, r>>] <= lo

\* What retries in F gain among themselves against what r loses.
LEMMA Exchange ==
  ASSUME NEW r \in Retriers, NEW F \in SUBSET (Retriers \ {r}),
         NEW W \in [Pairs -> Nat], IsFiniteSet(Heap(W)), NEW W2 \in [Pairs -> Nat],
         NEW h \in Nat, NEW lo \in Nat, NEW hi \in Nat, lo <= hi,
         NEW dlo \in Nat, NEW dhi \in Nat, dlo <= dhi,
         Gains(W, W2, F, h), Loses(W, W2, r, F, hi, lo),
         Loses(W, W2, r, {r}, dhi, dlo)
  PROVE  /\ IsFiniteSet(F) /\ IsFiniteSet(Heap(W2))
         /\ Cardinality(Heap(W2)) + 2 * (Cardinality(F) * (hi - lo)) + (dhi - dlo)
              <= Cardinality(Heap(W)) + (Cardinality(F) * Cardinality(F)) * h + 2 * Cardinality(F)
<1> DEFINE A == ((F \X F) \X (1..h)) \cup ({<<s, s>> : s \in F} \X {h + 1, h + 2})
           L1 == ({r} \X F) \X ((lo + 1)..hi)
           L2 == (F \X {r}) \X ((lo + 1)..hi)
           L3 == ({r} \X {r}) \X ((dlo + 1)..dhi)
           f == Cardinality(F)
<1>0. W[<<r, r>>] >= dhi /\ W2[<<r, r>>] <= dlo
  BY DEF Loses
<1>1. IsFiniteSet(F) /\ f \in Nat
  <2>1. F \in SUBSET Retriers /\ IsFiniteSet(Retriers)
    BY NotificationAssumption
  <2> QED  BY <2>1, FS_Subset, FS_CardinalityType
<1>2. IsFiniteSet({r}) /\ Cardinality({r}) = 1
  BY FS_Singleton
<1>3. IsFiniteSet(A) /\ Cardinality(A) <= (f * f) * h + 2 * f
  BY <1>1, Couples
<1>4. IsFiniteSet(L1) /\ Cardinality(L1) = f * (hi - lo)
  <2>1. IsFiniteSet({r} \X F) /\ Cardinality({r} \X F) = f
    <3>1. 1 * f = f
      BY <1>1
    <3> QED  BY <1>1, <1>2, <3>1, FS_Product
  <2> QED  BY <2>1, Block
<1>5. IsFiniteSet(L2) /\ Cardinality(L2) = f * (hi - lo)
  <2>1. IsFiniteSet(F \X {r}) /\ Cardinality(F \X {r}) = f
    <3>1. f * 1 = f
      BY <1>1
    <3> QED  BY <1>1, <1>2, <3>1, FS_Product
  <2> QED  BY <2>1, Block
<1>6. IsFiniteSet(L3) /\ Cardinality(L3) = dhi - dlo
  <2>1. IsFiniteSet({r} \X {r}) /\ Cardinality({r} \X {r}) = 1
    <3>1. 1 * 1 = 1
      OBVIOUS
    <3> QED  BY <1>2, <3>1, FS_Product
  <2>2. 1 * (dhi - dlo) = dhi - dlo
    OBVIOUS
  <2>3. IsFiniteSet(L3) /\ Cardinality(L3) = Cardinality({r} \X {r}) * (dhi - dlo)
    BY <2>1, Block
  <2> QED  BY <2>1, <2>2, <2>3
<1>7. /\ IsFiniteSet((L1 \cup L2) \cup L3)
      /\ Cardinality((L1 \cup L2) \cup L3) = (f * (hi - lo) + f * (hi - lo)) + (dhi - dlo)
  <2>1. r \notin F
    OBVIOUS
  <2>2. L1 \cap L2 = {} /\ (L1 \cup L2) \cap L3 = {}
    BY <2>1
  <2> HIDE DEF L1, L2, L3
  <2>3. IsFiniteSet(L1 \cup L2) /\ Cardinality(L1 \cup L2) = f * (hi - lo) + f * (hi - lo)
    BY <1>4, <1>5, <2>2, Together
  <2> QED  BY <1>6, <2>2, <2>3, Together
<1>8. Heap(W2) \ Heap(W) \subseteq A
  <2> SUFFICES ASSUME NEW p \in Heap(W2), p \notin Heap(W) PROVE p \in A
    OBVIOUS
  <2>1. p = <<p[1], p[2]>> /\ p[1] \in Pairs /\ p[2] \in Nat \ {0} /\ p[2] <= W2[p[1]]
    BY HeapOf
  <2>2. ~(p[2] <= W[p[1]])
    BY <2>1, HeapOf
  <2>3. PICK s \in Retriers, t \in Retriers : p[1] = <<s, t>>
    BY <2>1 DEF Pairs
  <2>4. W2[p[1]] \in Nat /\ W[p[1]] \in Nat
    BY <2>1
  <2>5. ~(W2[<<s, t>>] <= W[<<s, t>>])
    BY <2>1, <2>2, <2>3, <2>4
  <2>6. CASE s \in F /\ t \in F /\ s # t /\ W2[<<s, t>>] <= h
    <3>1. p[2] \in 1..h /\ p[1] \in F \X F
      BY <2>1, <2>3, <2>4, <2>6
    <3> QED  BY <2>1, <3>1
  <2>7. CASE s \in F /\ s = t /\ W2[<<s, t>>] <= h + 2
    <3>1. p[2] \in 1..h \/ p[2] \in {h + 1, h + 2}
      BY <2>1, <2>3, <2>4, <2>7
    <3>2. p[1] \in F \X F /\ p[1] \in {<<u, u>> : u \in F}
      BY <2>3, <2>7
    <3> QED  BY <2>1, <3>1, <3>2
  <2> QED  BY <2>5, <2>6, <2>7 DEF Gains
<1>9. (L1 \cup L2) \cup L3 \subseteq Heap(W) \ Heap(W2)
  <2>1. ASSUME NEW s \in Retriers, NEW t \in Retriers, NEW a \in Nat, NEW b \in Nat,
               NEW k \in (a + 1)..b, W[<<s, t>>] >= b, W2[<<s, t>>] <= a
        PROVE  <<<<s, t>>, k>> \in Heap(W) \ Heap(W2)
    <3>1. <<s, t>> \in Pairs /\ k \in Nat \ {0}
      BY DEF Pairs
    <3>2. W[<<s, t>>] \in Nat /\ W2[<<s, t>>] \in Nat
      BY <3>1
    <3>3. k <= W[<<s, t>>] /\ ~(k <= W2[<<s, t>>])
      BY <2>1, <3>2
    <3> QED  BY <3>1, <3>3, HeapOf
  <2>2. ASSUME NEW p \in L1 PROVE p \in Heap(W) \ Heap(W2)
    <3>1. PICK s \in F, k \in (lo + 1)..hi : p = <<<<r, s>>, k>>
      BY <2>2
    <3> QED  BY <2>1, <3>1 DEF Loses
  <2>3. ASSUME NEW p \in L2 PROVE p \in Heap(W) \ Heap(W2)
    <3>1. PICK s \in F, k \in (lo + 1)..hi : p = <<<<s, r>>, k>>
      BY <2>3
    <3> QED  BY <2>1, <3>1 DEF Loses
  <2>4. ASSUME NEW p \in L3 PROVE p \in Heap(W) \ Heap(W2)
    <3>1. PICK k \in (dlo + 1)..dhi : p = <<<<r, r>>, k>>
      BY <2>4
    <3> QED  BY <1>0, <2>1, <3>1
  <2> QED  BY <2>2, <2>3, <2>4
<1> HIDE DEF A, L1, L2, L3
<1>10. IsFiniteSet(Heap(W2)) /\ Cardinality(Heap(W2)) + Cardinality((L1 \cup L2) \cup L3)
                                  <= Cardinality(Heap(W)) + Cardinality(A)
  BY <1>3, <1>8, <1>9, Swap
<1>11. /\ Cardinality(Heap(W2)) \in Nat /\ Cardinality(Heap(W)) \in Nat /\ Cardinality(A) \in Nat
  BY <1>3, <1>10, FS_CardinalityType
<1>12. f * (hi - lo) \in Nat /\ (f * f) * h \in Nat
  <2>1. hi - lo \in Nat
    OBVIOUS
  <2> HIDE DEF f
  <2>2. \A a, b \in Nat : a * b \in Nat
    OBVIOUS
  <2> QED  BY <1>1, <2>1, <2>2
<1> DEFINE x == f * (hi - lo)
           y == (f * f) * h
<1>13. x \in Nat /\ y \in Nat /\ Cardinality(A) <= y + 2 * f
       /\ Cardinality((L1 \cup L2) \cup L3) = (x + x) + (dhi - dlo)
  BY <1>3, <1>7, <1>12
<1> HIDE DEF x, y, f
<1>14. Cardinality(Heap(W2)) + 2 * x + (dhi - dlo) <= Cardinality(Heap(W)) + y + 2 * f
  BY <1>1, <1>10, <1>11, <1>13
<1> QED  BY <1>1, <1>10, <1>14 DEF x, y, f

-----------------------------------------------------------------------------
(* What the callers of RetryFailedNotifications may still send.            *)

\* Sends[x - 1], or nothing.
Before(x) == IF x = 0 THEN 0 ELSE Sends[x - 1]
Larger(a, b) == IF a >= b THEN a ELSE b

\* A caller that may have read the notification with x attempts left, and works on a copy with
\* b left: what it weighs beside another caller, and by itself.
Beside(x, b) == Larger(2 * Before(x), Sends[b])
Own(x, b) == Larger(IF x = 0 THEN 0 ELSE 1 + Before(x), Sends[b])
Table(b, o) ==
    [p \in Pairs |-> IF p[1] = p[2] THEN 2 * o[p[1]] ELSE Larger(b[p[1]], b[p[2]])]
Numbered == [Retriers -> Nat]
BesideOf(X, B) == [s \in Retriers |-> Beside(X[s], B[s])]
OwnOf(X, B) == [s \in Retriers |-> Own(X[s], B[s])]
Weight(X, B) == Table(BesideOf(X, B), OwnOf(X, B))
Levels == [Retriers -> 0..MaxAttempts]

\* What the sends of x attempts and of those before it are.
LEMMA Numbers ==
  /\ \A x \in Nat : /\ Sends[x] \in Nat /\ Before(x) \in Nat /\ Before(x + 1) = Sends[x]
                    /\ x # 0 => Sends[x] = 1 + R * Before(x)
  /\ Before(0) = 0 /\ Sends[0] = 0
  /\ \A x, y \in Nat : x <= y => Sends[x] <= Sends[y] /\ Before(x) <= Before(y)
<1>1. \A x \in Nat : Sends[x] \in Nat /\ Before(x) \in Nat /\ Before(x + 1) = Sends[x]
  <2> TAKE x \in Nat
  <2>1. x + 1 # 0 /\ (x + 1) - 1 = x /\ (x # 0 => x - 1 \in Nat)
    OBVIOUS
  <2> QED  BY <2>1, SendsFollow DEF Before
<1>2. \A x \in Nat \ {0} : Sends[x] = 1 + R * Before(x)
  <2> TAKE x \in Nat \ {0}
  <2>1. x - 1 \in Nat /\ (x - 1) + 1 = x
    OBVIOUS
  <2>2. Sends[(x - 1) + 1] = 1 + R * Sends[x - 1]
    BY <2>1, SendsFollow
  <2> QED  BY <2>1, <2>2 DEF Before
<1>3. \A x, y \in Nat : x <= y => Sends[x] <= Sends[y] /\ Before(x) <= Before(y)
  <2> SUFFICES ASSUME NEW x \in Nat, NEW y \in Nat, x <= y
               PROVE  Sends[x] <= Sends[y] /\ Before(x) <= Before(y)
    OBVIOUS
  <2>1. Sends[x] <= Sends[y]
    BY SendsGrow
  <2>2. CASE x = 0
    BY <1>1, <2>1, <2>2 DEF Before
  <2>3. CASE x # 0
    <3>1. x - 1 \in Nat /\ y - 1 \in Nat /\ x - 1 <= y - 1 /\ y # 0
      BY <2>3
    <3> QED  BY <2>1, <2>3, <3>1, SendsGrow DEF Before
  <2> QED  BY <2>2, <2>3
<1> QED  BY <1>1, <1>2, <1>3, SendsFollow DEF Before

\* The two weights are numbers, and each is one of its two parts.
LEMMA BesideAndOwn ==
  \A x, b \in Nat :
      /\ Beside(x, b) \in Nat /\ Own(x, b) \in Nat
      /\ Beside(x, b) >= 2 * Before(x) /\ Beside(x, b) >= Sends[b]
      /\ Beside(x, b) = 2 * Before(x) \/ Beside(x, b) = Sends[b]
      /\ x # 0 => Own(x, b) >= 1 + Before(x)
      /\ Own(x, b) >= Sends[b]
      /\ Own(x, b) = (IF x = 0 THEN 0 ELSE 1 + Before(x)) \/ Own(x, b) = Sends[b]
<1> TAKE x, b \in Nat
<1>1. Before(x) \in Nat /\ Sends[b] \in Nat
  BY Numbers
<1> QED  BY <1>1 DEF Beside, Own, Larger

\* The entries of a table.
LEMMA TableOf ==
  ASSUME NEW b \in Numbered, NEW o \in Numbered
  PROVE  /\ Table(b, o) \in [Pairs -> Nat]
         /\ \A s \in Retriers : Table(b, o)[<<s, s>>] = 2 * o[s]
         /\ \A s, t \in Retriers : s # t => Table(b, o)[<<s, t>>] = Larger(b[s], b[t])
<1>1. \A s \in Retriers : b[s] \in Nat /\ o[s] \in Nat
  BY DEF Numbered
<1>2. \A x, y \in Nat : Larger(x, y) \in Nat
  BY DEF Larger
<1>3. \A p \in Pairs : p[1] \in Retriers /\ p[2] \in Retriers
  BY DEF Pairs
<1>4. ASSUME NEW p \in Pairs
      PROVE  (IF p[1] = p[2] THEN 2 * o[p[1]] ELSE Larger(b[p[1]], b[p[2]])) \in Nat
  <2>1. b[p[1]] \in Nat /\ b[p[2]] \in Nat /\ o[p[1]] \in Nat
    BY <1>1, <1>3
  <2>2. 2 * o[p[1]] \in Nat /\ Larger(b[p[1]], b[p[2]]) \in Nat
    <3>1. \A x \in Nat : 2 * x \in Nat
      OBVIOUS
    <3> QED  BY <1>2, <2>1, <3>1, Zenon
  <2> QED  BY <2>2
<1>5. Table(b, o) \in [Pairs -> Nat]
  BY <1>4 DEF Table
<1>6. \A s, t \in Retriers :
         Table(b, o)[<<s, t>>] = IF s = t THEN 2 * o[s] ELSE Larger(b[s], b[t])
  BY DEF Table, Pairs
<1> QED  BY <1>5, <1>6

\* Levels are numbers, and so are the weights made of them.
LEMMA LevelsOf ==
  ASSUME NEW X \in Levels, NEW B \in Levels
  PROVE  /\ \A s \in Retriers : X[s] \in Nat /\ B[s] \in Nat
         /\ BesideOf(X, B) \in Numbered /\ OwnOf(X, B) \in Numbered
         /\ \A s \in Retriers : /\ BesideOf(X, B)[s] = Beside(X[s], B[s])
                                /\ OwnOf(X, B)[s] = Own(X[s], B[s])
<1>1. \A s \in Retriers : X[s] \in Nat /\ B[s] \in Nat
  BY NotificationAssumption DEF Levels
<1>2. \A s \in Retriers : Beside(X[s], B[s]) \in Nat /\ Own(X[s], B[s]) \in Nat
  BY <1>1, BesideAndOwn
<1> QED  BY <1>1, <1>2 DEF BesideOf, OwnOf, Numbered

\* The callers beside one of them.
LEMMA Others ==
  ASSUME NEW r \in Retriers, NEW F \in SUBSET (Retriers \ {r})
  PROVE  /\ R \in Nat \ {0} /\ Cardinality(F) \in Nat /\ Cardinality(F) <= R - 1
         /\ R = 1 => F = {} /\ Cardinality(F) = 0
<1>1. IsFiniteSet(Retriers)
  BY NotificationAssumption
<1>2. IsFiniteSet(Retriers \ {r}) /\ Cardinality(Retriers \ {r}) = R - 1
  BY <1>1, FS_RemoveElement DEF R
<1>3. IsFiniteSet(F) /\ Cardinality(F) <= R - 1
  BY <1>2, FS_Subset
<1>4. Cardinality(F) \in Nat /\ R \in Nat /\ R - 1 \in Nat
  BY <1>1, <1>2, <1>3, FS_CardinalityType DEF R
<1>5. R = 1 => Cardinality(F) = 0
  BY <1>3, <1>4
<1>6. Cardinality(F) = 0 => F = {}
  BY <1>3, FS_EmptySet
<1> QED  BY <1>3, <1>4, <1>5, <1>6

\* What some lose outweighs what others gain.
LEMMA Outweighs ==
  ASSUME NEW f \in Nat, NEW d \in Nat, NEW e \in Nat
  PROVE  /\ (f * f) * (2 * e) + 2 * f
              <= 2 * (f * ((1 + (f + 1 + d) * e) - 2 * e))
                    + (2 * (1 + (f + 1 + d) * e) - 2 * (1 + e))
         /\ (f * f) * (2 * e) + 2 * f <= 2 * (f * (1 + (f + 1 + d) * e))
<1>1. \A a, b \in Nat : a * b \in Nat
  OBVIOUS
<1>2. f * f \in Nat /\ f * d \in Nat /\ f * e \in Nat /\ d * e \in Nat
  BY <1>1
<1>3. (f * f) * e \in Nat /\ (f * d) * e \in Nat
  BY <1>1, <1>2
<1>4. (f + 1 + d) * e = f * e + e + d * e
  OBVIOUS
<1>5. f * (1 + (f + 1 + d) * e) = f + (f * f) * e + f * e + (f * d) * e
  OBVIOUS
<1>6. f * ((1 + (f + 1 + d) * e) - 2 * e) = f + (f * f) * e + (f * d) * e - f * e
  OBVIOUS
<1>7. (f * f) * (2 * e) = 2 * ((f * f) * e)
  OBVIOUS
<1> DEFINE a == (f * f) * e
           b == (f * d) * e
           x == f * e
           y == d * e
<1> HIDE DEF a, b, x, y
<1>8. a \in Nat /\ b \in Nat /\ x \in Nat /\ y \in Nat
  BY <1>2, <1>3 DEF a, b, x, y
<1>9. /\ 2 * a + 2 * f <= 2 * (f + a + b - x) + (2 * (1 + (x + e + y)) - 2 * (1 + e))
      /\ 2 * a + 2 * f <= 2 * (f + a + x + b)
  BY <1>8
<1> QED  BY <1>4, <1>5, <1>6, <1>7, <1>9 DEF a, b, x, y

\* A table whose entries are no larger.
LEMMA Smaller ==
  ASSUME NEW b \in Numbered, NEW o \in Numbered, NEW b2 \in Numbered, NEW o2 \in Numbered,
         \A s \in Retriers : b2[s] <= b[s] /\ o2[s] <= o[s], IsFiniteSet(Heap(Table(b, o)))
  PROVE  /\ IsFiniteSet(Heap(Table(b2, o2)))
         /\ Cardinality(Heap(Table(b2, o2))) <= Cardinality(Heap(Table(b, o)))
<1> DEFINE W == Table(b, o)
           W2 == Table(b2, o2)
<1>1. W \in [Pairs -> Nat] /\ W2 \in [Pairs -> Nat]
  BY TableOf
<1>2. ASSUME NEW s \in Retriers, NEW t \in Retriers PROVE W2[<<s, t>>] <= W[<<s, t>>]
  <2>1. b[s] \in Nat /\ b2[s] \in Nat /\ o[s] \in Nat /\ o2[s] \in Nat
      /\ b[t] \in Nat /\ b2[t] \in Nat
    BY DEF Numbered
  <2>2. b2[s] <= b[s] /\ o2[s] <= o[s] /\ b2[t] <= b[t]
    OBVIOUS
  <2>3. CASE s = t
    <3>1. W[<<s, t>>] = 2 * o[s] /\ W2[<<s, t>>] = 2 * o2[s]
      BY <2>3, TableOf
    <3> HIDE DEF W, W2
    <3> QED  BY <2>1, <2>2, <3>1
  <2>4. CASE s # t
    <3>1. W[<<s, t>>] = Larger(b[s], b[t]) /\ W2[<<s, t>>] = Larger(b2[s], b2[t])
      BY <2>4, TableOf
    <3> HIDE DEF W, W2
    <3> QED  BY <2>1, <2>2, <3>1 DEF Larger
  <2> QED  BY <2>3, <2>4
<1>3. IsFiniteSet(Heap(W))
  OBVIOUS
<1> HIDE DEF W, W2
<1>4. Heap(W2) \subseteq Heap(W)
  <2> SUFFICES ASSUME NEW p \in Heap(W2) PROVE p \in Heap(W)
    OBVIOUS
  <2>1. p = <<p[1], p[2]>> /\ p[1] \in Pairs /\ p[2] \in Nat \ {0} /\ p[2] <= W2[p[1]]
    BY <1>1, HeapOf
  <2>2. PICK s \in Retriers, t \in Retriers : p[1] = <<s, t>>
    BY <2>1 DEF Pairs
  <2>3. W2[p[1]] <= W[p[1]] /\ W2[p[1]] \in Nat /\ W[p[1]] \in Nat
    BY <1>1, <1>2, <2>1, <2>2
  <2>4. p[2] <= W[p[1]]
    BY <2>1, <2>3
  <2>5. <<p[1], p[2]>> \in Heap(W)
    BY <1>1, <2>1, <2>4, HeapOf
  <2> QED  BY <2>1, <2>5
<1>5. IsFiniteSet(Heap(W2)) /\ Cardinality(Heap(W2)) <= Cardinality(Heap(W))
  BY <1>3, <1>4, FS_Subset
<1> QED  BY <1>5 DEF W, W2

\* A caller r gives up some of what it weighs, and those of F, who weighed less, gain up to
\* 2 * e beside others and up to 1 + e by themselves.
Shifts(b, o, b2, o2, r, F, lo, e) ==
    \A s \in Retriers \ {r} :
        /\ b2[r] <= b[r] /\ b2[r] <= lo
        /\ s \notin F => b[s] >= lo /\ b2[s] <= b[s] /\ o2[s] <= o[s]
        /\ s \in F => /\ b2[s] <= lo
                      /\ b2[s] <= b[s] \/ b2[s] <= 2 * e
                      /\ o2[s] <= o[s] \/ o2[s] <= 1 + e

\* What the callers in F gain by what they may read, r has paid for.
LEMMA Trade ==
  ASSUME NEW r \in Retriers, NEW F \in SUBSET (Retriers \ {r}), NEW e \in Nat,
         NEW b \in Numbered, NEW o \in Numbered, NEW b2 \in Numbered, NEW o2 \in Numbered,
         IsFiniteSet(Heap(Table(b, o))),
         NEW lo \in Nat, NEW hi \in Nat, NEW dlo \in Nat, NEW dhi \in Nat, dlo <= dhi,
         F = {} \/ (2 * e <= lo /\ lo <= hi),
         b[r] >= hi, o[r] >= dhi, o2[r] <= dlo, Shifts(b, o, b2, o2, r, F, lo, e)
  PROVE  /\ IsFiniteSet(Heap(Table(b2, o2)))
         /\ F = {} => Cardinality(Heap(Table(b2, o2))) + 2 * (dhi - dlo)
                        <= Cardinality(Heap(Table(b, o)))
         /\ F # {} => Cardinality(Heap(Table(b2, o2)))
                        + 2 * (Cardinality(F) * (hi - lo)) + (2 * dhi - 2 * dlo)
                        <= Cardinality(Heap(Table(b, o)))
                             + (Cardinality(F) * Cardinality(F)) * (2 * e) + 2 * Cardinality(F)
<1> DEFINE W == Table(b, o)
           W2 == Table(b2, o2)
<1>1. W \in [Pairs -> Nat] /\ W2 \in [Pairs -> Nat]
  <2>1. W \in [Pairs -> Nat]
    BY TableOf
  <2>2. W2 \in [Pairs -> Nat]
    BY TableOf
  <2> QED  BY <2>1, <2>2
<1>2. \A s \in Retriers : b[s] \in Nat /\ b2[s] \in Nat /\ o[s] \in Nat /\ o2[s] \in Nat
  BY DEF Numbered
<1>3. \A s \in Retriers : W[<<s, s>>] = 2 * o[s] /\ W2[<<s, s>>] = 2 * o2[s]
  <2>1. \A s \in Retriers : Table(b, o)[<<s, s>>] = 2 * o[s]
    BY TableOf
  <2>2. \A s \in Retriers : Table(b2, o2)[<<s, s>>] = 2 * o2[s]
    BY TableOf
  <2> QED  BY <2>1, <2>2
<1>4. \A s, t \in Retriers : s # t => W[<<s, t>>] = Larger(b[s], b[t])
                                      /\ W2[<<s, t>>] = Larger(b2[s], b2[t])
  BY TableOf
<1>5. IsFiniteSet(Heap(W))
  OBVIOUS
<1> HIDE DEF W, W2
<1>6. ASSUME NEW s \in Retriers, NEW t \in Retriers
      PROVE  \/ W2[<<s, t>>] <= W[<<s, t>>]
             \/ s \in F /\ t \in F /\ s # t /\ W2[<<s, t>>] <= 2 * e
             \/ s \in F /\ s = t /\ W2[<<s, t>>] <= 2 * e + 2
  <2>1. b[s] \in Nat /\ b2[s] \in Nat /\ o[s] \in Nat /\ o2[s] \in Nat
      /\ b[t] \in Nat /\ b2[t] \in Nat
    BY <1>2
  <2>2. CASE s = t
    <3>1. s = r => o2[s] <= o[s]
      BY <2>1
    <3>2. s # r => o2[s] <= o[s] \/ (s \in F /\ o2[s] <= 1 + e)
      BY DEF Shifts
    <3>3. W[<<s, t>>] = 2 * o[s] /\ W2[<<s, t>>] = 2 * o2[s]
      BY <1>3, <2>2
    <3> QED  BY <2>1, <2>2, <3>1, <3>2, <3>3
  <2>3. CASE s # t
    <3>1. W[<<s, t>>] = Larger(b[s], b[t]) /\ W2[<<s, t>>] = Larger(b2[s], b2[t])
      BY <1>4, <2>3
    <3>2. CASE s \in F /\ t \in F
      <4>1. /\ b2[s] <= b[s] \/ b2[s] <= 2 * e
            /\ b2[t] <= b[t] \/ b2[t] <= 2 * e
        BY <3>2 DEF Shifts
      <4> QED  BY <2>1, <2>3, <3>1, <3>2, <4>1 DEF Larger
    <3>3. CASE s \notin F \/ t \notin F
      <4>1. /\ b2[s] <= b[s] \/ (t \notin F /\ t # r /\ b2[s] <= b[t]) \/ b2[s] <= b[t]
            /\ b2[t] <= b[t] \/ b2[t] <= b[s]
        <5>1. CASE s = r
          <6>1. t \in Retriers \ {r}
            BY <2>3, <5>1
          <6>2. b2[r] <= b[r]
            BY <6>1 DEF Shifts
          <6>3. b2[t] <= b[t] \/ (t \in F /\ b2[t] <= lo)
            BY <6>1 DEF Shifts
          <6>4. t \in F => lo <= b[r]
            BY <1>2
          <6> QED  BY <2>1, <5>1, <6>2, <6>3, <6>4
        <5>2. CASE t = r
          <6>1. s \in Retriers \ {r}
            BY <2>3, <5>2
          <6>2. b2[r] <= b[r]
            BY <6>1 DEF Shifts
          <6>3. b2[s] <= b[s] \/ (s \in F /\ b2[s] <= lo)
            BY <6>1 DEF Shifts
          <6>4. s \in F => lo <= b[r]
            BY <1>2
          <6> QED  BY <2>1, <5>2, <6>2, <6>3, <6>4
        <5>3. CASE s # r /\ t # r
          <6>1. s \in Retriers \ {r} /\ t \in Retriers \ {r}
            BY <5>3
          <6>2. b2[s] <= b[s] \/ (s \in F /\ t \notin F /\ b2[s] <= lo)
            BY <3>3, <6>1 DEF Shifts
          <6>3. b2[t] <= b[t] \/ (t \in F /\ s \notin F /\ b2[t] <= lo)
            BY <3>3, <6>1 DEF Shifts
          <6>4. /\ s \in F /\ t \notin F => lo <= b[t]
                /\ t \in F /\ s \notin F => lo <= b[s]
            BY <2>1, <6>1 DEF Shifts
          <6> QED  BY <2>1, <6>2, <6>3, <6>4
        <5> QED  BY <5>1, <5>2, <5>3
      <4> QED  BY <2>1, <3>1, <4>1 DEF Larger
    <3> QED  BY <3>2, <3>3
  <2> QED  BY <2>2, <2>3
<1>7. Gains(W, W2, F, 2 * e) /\ Loses(W, W2, r, {r}, 2 * dhi, 2 * dlo)
      /\ 2 * dlo <= 2 * dhi /\ 2 * dlo \in Nat /\ 2 * dhi \in Nat /\ 2 * e \in Nat
  <2>1. Gains(W, W2, F, 2 * e)
    BY <1>6 DEF Gains
  <2> QED  BY <1>2, <1>3, <2>1 DEF Loses
<1>8. CASE F = {}
  <2>1. /\ IsFiniteSet(Heap(W2))
        /\ Cardinality(Heap(W2)) + 2 * (Cardinality(F) * (0 - 0)) + (2 * dhi - 2 * dlo)
             <= Cardinality(Heap(W)) + (Cardinality(F) * Cardinality(F)) * (2 * e)
                  + 2 * Cardinality(F)
    <3>1. 0 \in Nat /\ 0 <= 0
      OBVIOUS
    <3>2. Loses(W, W2, r, F, 0, 0)
      BY <1>8 DEF Loses
    <3> QED  BY <1>1, <1>5, <1>7, <3>1, <3>2, Exchange
  <2>2. Cardinality(F) = 0
    BY <1>8, FS_EmptySet
  <2>3. Cardinality(Heap(W2)) \in Nat /\ Cardinality(Heap(W)) \in Nat
    BY <1>5, <2>1, FS_CardinalityType
  <2>4. Cardinality(Heap(W2)) + 2 * (dhi - dlo) <= Cardinality(Heap(W))
    BY <2>1, <2>2, <2>3
  <2> QED  BY <1>8, <2>1, <2>4 DEF W, W2
<1>9. CASE F # {}
  <2>1. ASSUME NEW s \in F
        PROVE  W[<<r, s>>] >= hi /\ W[<<s, r>>] >= hi /\ W2[<<r, s>>] <= lo /\ W2[<<s, r>>] <= lo
    <3>1. s \in Retriers \ {r} /\ s \in Retriers /\ s # r
      OBVIOUS
    <3>2. b2[s] <= lo /\ b2[r] <= lo
      BY <3>1 DEF Shifts
    <3>3. b[s] \in Nat /\ b2[s] \in Nat /\ b[r] \in Nat /\ b2[r] \in Nat
      BY <1>2, <3>1
    <3>4. W[<<r, s>>] = Larger(b[r], b[s]) /\ W2[<<r, s>>] = Larger(b2[r], b2[s])
          /\ W[<<s, r>>] = Larger(b[s], b[r]) /\ W2[<<s, r>>] = Larger(b2[s], b2[r])
      BY <1>4, <3>1
    <3> QED  BY <3>2, <3>3, <3>4 DEF Larger
  <2>2. lo <= hi /\ Loses(W, W2, r, F, hi, lo)
    BY <1>9, <2>1 DEF Loses
  <2>3. /\ IsFiniteSet(Heap(W2))
        /\ Cardinality(Heap(W2)) + 2 * (Cardinality(F) * (hi - lo)) + (2 * dhi - 2 * dlo)
             <= Cardinality(Heap(W)) + (Cardinality(F) * Cardinality(F)) * (2 * e)
                  + 2 * Cardinality(F)
    BY <1>1, <1>5, <1>7, <2>2, Exchange
  <2> QED  BY <1>9, <2>3 DEF W, W2
<1> QED  BY <1>8, <1>9

\* With less to read and less to work on, the weight is less.
LEMMA Lighter ==
  ASSUME NEW X \in Levels, NEW B \in Levels, NEW X2 \in Levels, NEW B2 \in Levels,
         \A s \in Retriers : X2[s] <= X[s] /\ B2[s] <= B[s], IsFiniteSet(Heap(Weight(X, B)))
  PROVE  /\ IsFiniteSet(Heap(Weight(X2, B2)))
         /\ Cardinality(Heap(Weight(X2, B2))) <= Cardinality(Heap(Weight(X, B)))
<1>1. ASSUME NEW s \in Retriers
      PROVE  /\ BesideOf(X2, B2)[s] <= BesideOf(X, B)[s]
             /\ OwnOf(X2, B2)[s] <= OwnOf(X, B)[s]
  <2>1. X[s] \in Nat /\ B[s] \in Nat /\ X2[s] \in Nat /\ B2[s] \in Nat
    BY LevelsOf
  <2>2. /\ Before(X2[s]) <= Before(X[s]) /\ Sends[B2[s]] <= Sends[B[s]]
        /\ Before(X2[s]) \in Nat /\ Before(X[s]) \in Nat
        /\ Sends[B2[s]] \in Nat /\ Sends[B[s]] \in Nat
    BY <2>1, Numbers
  <2>3. X2[s] # 0 => X[s] # 0
    BY <2>1
  <2>4. /\ Beside(X2[s], B2[s]) <= Beside(X[s], B[s])
        /\ Own(X2[s], B2[s]) <= Own(X[s], B[s])
    BY <2>2, <2>3 DEF Beside, Own, Larger
  <2> QED  BY <2>4, LevelsOf
<1> QED  BY <1>1, Smaller, LevelsOf DEF Weight

\* A caller fails with k attempts left, and all may read it: what another one weighs.
LEMMA MayRead ==
  ASSUME NEW x \in Nat, NEW k \in Nat, NEW b \in Nat, NEW lo \in Nat, lo >= 2 * Before(k)
  PROVE  /\ Beside(x, b) \in Nat /\ Own(x, b) \in Nat
         /\ Beside(x, b) >= lo =>
               /\ Beside(Larger(x, k), b) <= Beside(x, b)
         /\ Beside(x, b) > 2 * Before(k) =>
               /\ Own(Larger(x, k), b) <= Own(x, b)
         /\ Beside(x, b) <= lo => Beside(Larger(x, k), b) <= lo
         /\ Own(Larger(x, k), b) <= Own(x, b) \/ Own(Larger(x, k), b) <= 1 + Before(k)
<1> DEFINE e == Before(k)
<1>1. /\ Beside(x, b) \in Nat /\ Own(x, b) \in Nat
      /\ Beside(k, b) = 2 * e \/ Beside(k, b) = Sends[b]
      /\ Own(k, b) = (IF k = 0 THEN 0 ELSE 1 + e) \/ Own(k, b) = Sends[b]
      /\ Beside(x, b) >= Sends[b] /\ Own(x, b) >= Sends[b]
      /\ x # 0 => Own(x, b) >= 1 + Before(x)
      /\ Beside(x, b) = 2 * Before(x) \/ Beside(x, b) = Sends[b]
  BY BesideAndOwn
<1>2. Sends[b] \in Nat /\ Before(x) \in Nat /\ e \in Nat /\ (x = 0 => Before(x) = 0)
  BY Numbers
<1> HIDE DEF e
<1>3. CASE Larger(x, k) = x
  BY <1>1, <1>3
<1>4. CASE Larger(x, k) = k
  <2>1. Beside(x, b) >= lo => Beside(k, b) <= Beside(x, b)
    BY <1>1, <1>2 DEF e
  <2>2. Beside(x, b) > 2 * e => Own(x, b) >= 1 + e
    BY <1>1, <1>2
  <2>3. Beside(x, b) > 2 * e => Own(k, b) <= Own(x, b)
    BY <1>1, <1>2, <2>2
  <2>4. Beside(x, b) <= lo => Beside(k, b) <= lo
    BY <1>1, <1>2 DEF e
  <2>5. Own(k, b) <= Own(x, b) \/ Own(k, b) <= 1 + e
    BY <1>1, <1>2
  <2> QED  BY <1>1, <1>4, <2>1, <2>3, <2>4, <2>5 DEF e
<1> QED  BY <1>3, <1>4 DEF Larger

\* A caller that all the others may follow fails with k attempts left and is done with its
\* copy: what all may read then costs no more than what it was going to do.
LEMMA Failing ==
  ASSUME NEW X \in Levels, NEW B \in Levels, NEW r \in Retriers, IsFiniteSet(Heap(Weight(X, B))),
         \A s \in Retriers : X[r] <= X[s],
         NEW X2 \in Levels, X2 = [s \in Retriers |-> Larger(X[s], B[r])],
         NEW B2 \in Levels, B2 = [B EXCEPT ![r] = 0]
  PROVE  /\ IsFiniteSet(Heap(Weight(X2, B2)))
         /\ Cardinality(Heap(Weight(X2, B2))) <= Cardinality(Heap(Weight(X, B)))
<1> DEFINE k == B[r]
           e == Before(k)
           b == BesideOf(X, B)
           o == OwnOf(X, B)
           b2 == BesideOf(X2, B2)
           o2 == OwnOf(X2, B2)
           F == {s \in Retriers \ {r} : b[s] <= 2 * e}
           f == Cardinality(F)
<1>0. /\ \A s \in Retriers : /\ X[s] \in Nat /\ B[s] \in Nat /\ X2[s] \in Nat /\ B2[s] \in Nat
                             /\ X2[s] = Larger(X[s], k)
                             /\ s # r => B2[s] = B[s]
      /\ B2[r] = 0 /\ k \in Nat
  BY LevelsOf DEF Levels
<1>1. CASE X[r] >= k
  <2>1. \A s \in Retriers : X2[s] <= X[s] /\ B2[s] <= B[s]
    <3> TAKE s \in Retriers
    <3>1. X[r] <= X[s] /\ X2[s] = Larger(X[s], k) /\ X[s] \in Nat /\ X[r] \in Nat /\ k \in Nat
      BY <1>0
    <3>2. X2[s] = X[s]
      BY <1>1, <3>1 DEF Larger
    <3> QED  BY <1>0, <3>1, <3>2
  <2> QED  BY <2>1, Lighter
<1>2. CASE ~(X[r] >= k)
  <2>1. k # 0 /\ X2[r] = k
    BY <1>0, <1>2 DEF Larger
  <2>2. e \in Nat /\ Sends[k] = 1 + R * e /\ Sends[k] \in Nat
    BY <1>0, <2>1, Numbers
  <2>3. F \in SUBSET (Retriers \ {r})
    OBVIOUS
  <2>4. R \in Nat \ {0} /\ f \in Nat /\ f <= R - 1 /\ (R = 1 => F = {} /\ f = 0)
    <3> HIDE DEF F
    <3> QED  BY <2>3, Others
  <2>5. R * e \in Nat /\ R * e >= e /\ (R >= 2 => R * e >= 2 * e)
    <3> HIDE DEF e
    <3> QED  BY <2>2, <2>4, Product
  <2>6. /\ b \in Numbered /\ o \in Numbered /\ b2 \in Numbered /\ o2 \in Numbered
        /\ \A s \in Retriers : /\ b[s] = Beside(X[s], B[s]) /\ o[s] = Own(X[s], B[s])
                               /\ b2[s] = Beside(X2[s], B2[s]) /\ o2[s] = Own(X2[s], B2[s])
    <3>1. /\ BesideOf(X, B) \in Numbered /\ OwnOf(X, B) \in Numbered
          /\ \A s \in Retriers : /\ BesideOf(X, B)[s] = Beside(X[s], B[s])
                                 /\ OwnOf(X, B)[s] = Own(X[s], B[s])
      BY LevelsOf
    <3>2. /\ BesideOf(X2, B2) \in Numbered /\ OwnOf(X2, B2) \in Numbered
          /\ \A s \in Retriers : /\ BesideOf(X2, B2)[s] = Beside(X2[s], B2[s])
                                 /\ OwnOf(X2, B2)[s] = Own(X2[s], B2[s])
      BY LevelsOf
    <3> QED  BY <3>1, <3>2
  <2>7. Weight(X, B) = Table(b, o) /\ Weight(X2, B2) = Table(b2, o2)
    BY DEF Weight
  <2> HIDE DEF b, o, b2, o2, f
  <2>8. o[r] >= Sends[k] /\ b[r] >= Sends[k] /\ b2[r] <= 2 * e /\ o2[r] <= 1 + e
    <3>1. /\ Beside(k, 0) = 2 * Before(k) \/ Beside(k, 0) = Sends[0]
          /\ Own(k, 0) = (IF k = 0 THEN 0 ELSE 1 + Before(k)) \/ Own(k, 0) = Sends[0]
          /\ Beside(X[r], k) >= Sends[k] /\ Own(X[r], k) >= Sends[k]
      BY <1>0, BesideAndOwn
    <3>2. Sends[0] = 0
      BY Numbers
    <3> HIDE DEF e, k
    <3>3. b2[r] = Beside(k, 0) /\ o2[r] = Own(k, 0) /\ b[r] = Beside(X[r], k) /\ o[r] = Own(X[r], k)
      BY <1>0, <2>1, <2>6 DEF k
    <3> QED  BY <2>1, <2>2, <3>1, <3>2, <3>3 DEF e
  <2> HIDE DEF F
  <2>9. ASSUME NEW s \in Retriers \ {r}
        PROVE  /\ b2[r] <= b[r] /\ b2[r] <= 2 * e
               /\ s \notin F => b[s] >= 2 * e /\ b2[s] <= b[s] /\ o2[s] <= o[s]
               /\ s \in F => /\ b2[s] <= 2 * e /\ (b2[s] <= b[s] \/ b2[s] <= 2 * e)
                             /\ o2[s] <= o[s] \/ o2[s] <= 1 + e
    <3>1. s \in Retriers /\ s # r /\ X[s] \in Nat /\ B[s] \in Nat /\ b[s] = Beside(X[s], B[s])
          /\ o[s] = Own(X[s], B[s]) /\ b2[s] = Beside(Larger(X[s], k), B[s])
          /\ o2[s] = Own(Larger(X[s], k), B[s])
      BY <1>0, <2>6
    <3>2. s \in F <=> b[s] <= 2 * e
      BY DEF F
    <3>3. b[s] \in Nat /\ b2[r] \in Nat /\ b[r] \in Nat
      BY <2>6 DEF Numbered
    <3>4. 2 * e \in Nat /\ 2 * e >= 2 * Before(k)
      BY <2>2
    <3>5. /\ Beside(X[s], B[s]) >= 2 * e =>
               /\ Beside(Larger(X[s], k), B[s]) <= Beside(X[s], B[s])
          /\ Beside(X[s], B[s]) > 2 * Before(k) =>
               /\ Own(Larger(X[s], k), B[s]) <= Own(X[s], B[s])
          /\ Beside(X[s], B[s]) <= 2 * e => Beside(Larger(X[s], k), B[s]) <= 2 * e
          /\ Own(Larger(X[s], k), B[s]) <= Own(X[s], B[s])
                \/ Own(Larger(X[s], k), B[s]) <= 1 + Before(k)
      <4> DEFINE z == 2 * e
      <4>1. z \in Nat /\ z >= 2 * Before(k)
        BY <3>4
      <4> HIDE DEF z
      <4>2. /\ Beside(X[s], B[s]) >= z =>
                 /\ Beside(Larger(X[s], k), B[s]) <= Beside(X[s], B[s])
            /\ Beside(X[s], B[s]) > 2 * Before(k) =>
                 /\ Own(Larger(X[s], k), B[s]) <= Own(X[s], B[s])
            /\ Beside(X[s], B[s]) <= z => Beside(Larger(X[s], k), B[s]) <= z
            /\ Own(Larger(X[s], k), B[s]) <= Own(X[s], B[s])
                  \/ Own(Larger(X[s], k), B[s]) <= 1 + Before(k)
        BY <1>0, <3>1, <4>1, MayRead
      <4> QED  BY <4>2 DEF z
    <3>6. R # 1
      <4> DEFINE O == Retriers \ {r}
      <4>1. O \in SUBSET (Retriers \ {r}) /\ O # {}
        OBVIOUS
      <4> HIDE DEF O
      <4> QED  BY <4>1, Others
    <3>7. b2[r] <= b[r]
      <4> HIDE DEF e, k
      <4>1. R >= 2 /\ R * e >= 2 * e
        <5>1. R >= 2
          BY <2>4, <3>6
        <5> QED  BY <2>5, <5>1
      <4> QED  BY <2>2, <2>5, <2>8, <3>3, <4>1
    <3> HIDE DEF k
    <3>8. e = Before(k)
      OBVIOUS
    <3> HIDE DEF e
    <3> QED  BY <2>2, <2>8, <3>1, <3>2, <3>3, <3>5, <3>7, <3>8
  <2>10. F = {} \/ (2 * e <= 2 * e /\ 2 * e <= Sends[k])
    <3> HIDE DEF e, k
    <3> QED  BY <2>2, <2>4, <2>5
  <2>11. 1 + e <= Sends[k] /\ 1 + e \in Nat /\ 2 * e \in Nat
    <3> HIDE DEF e, k
    <3> QED  BY <2>2, <2>5
  <2>12. IsFiniteSet(Heap(Table(b, o)))
    BY <2>7
  <2> HIDE DEF e, k
  <2>16. Shifts(b, o, b2, o2, r, F, 2 * e, e)
    BY <2>9 DEF Shifts
  <2>13. /\ IsFiniteSet(Heap(Table(b2, o2)))
         /\ F = {} => Cardinality(Heap(Table(b2, o2))) + 2 * (Sends[k] - (1 + e))
                        <= Cardinality(Heap(Table(b, o)))
         /\ F # {} => Cardinality(Heap(Table(b2, o2)))
                        + 2 * (Cardinality(F) * (Sends[k] - 2 * e)) + (2 * Sends[k] - 2 * (1 + e))
                        <= Cardinality(Heap(Table(b, o)))
                             + (Cardinality(F) * Cardinality(F)) * (2 * e) + 2 * Cardinality(F)
    BY <2>2, <2>3, <2>6, <2>8, <2>10, <2>11, <2>12, <2>16, Trade
  <2> DEFINE C == Cardinality(Heap(Table(b, o)))
             C2 == Cardinality(Heap(Table(b2, o2)))
  <2>14. C \in Nat /\ C2 \in Nat
    BY <2>12, <2>13, FS_CardinalityType
  <2>15. C2 <= C
    <3>1. CASE F = {}
      <4> HIDE DEF C, C2
      <4> QED  BY <2>2, <2>11, <2>13, <2>14, <3>1 DEF C, C2
    <3>2. CASE F # {}
      <4> DEFINE d == R - 1 - f
      <4>1. d \in Nat /\ R = f + 1 + d
        BY <2>4
      <4> HIDE DEF d
      <4>2. (f * f) * (2 * e) + 2 * f
               <= 2 * (f * ((1 + (f + 1 + d) * e) - 2 * e))
                    + (2 * (1 + (f + 1 + d) * e) - 2 * (1 + e))
        BY <2>2, <2>4, <4>1, Outweighs
      <4>3. Sends[k] = 1 + (f + 1 + d) * e
        BY <2>2, <4>1
      <4> DEFINE p == f * (Sends[k] - 2 * e)
                 q == (f * f) * (2 * e)
      <4>4. p \in Int /\ q \in Int
        <5>1. \A i, j \in Int : i * j \in Int
          OBVIOUS
        <5> QED  BY <2>2, <2>4, <5>1
      <4>5. q + 2 * f <= 2 * p + (2 * Sends[k] - 2 * (1 + e))
        BY <4>2, <4>3
      <4>6. C2 + 2 * p + (2 * Sends[k] - 2 * (1 + e)) <= C + q + 2 * f
        BY <2>13, <3>2 DEF f
      <4> HIDE DEF p, q, C, C2
      <4> QED  BY <2>2, <2>4, <2>14, <4>4, <4>5, <4>6
    <3> QED  BY <3>1, <3>2
  <2> QED  BY <2>7, <2>13, <2>15
<1> QED  BY <1>1, <1>2

\* What each may read once r has stored it with k attempts left and may not read it itself.
Counted(X, r, k) == [s \in Retriers |-> IF s = r THEN k ELSE Larger(X[s], k)]

\* A caller that may read with k + 1 attempts left counts one and takes the notification up: all
\* may then read it with k left, and yet a send more is paid for.
LEMMA Counting ==
  ASSUME NEW X \in Levels, NEW B \in Levels, NEW r \in Retriers, IsFiniteSet(Heap(Weight(X, B))),
         NEW k \in Nat, X[r] = k + 1,
         NEW X2 \in Levels, X2 = Counted(X, r, k),
         NEW B2 \in Levels, B2 = [B EXCEPT ![r] = k]
  PROVE  /\ IsFiniteSet(Heap(Weight(X2, B2)))
         /\ Cardinality(Heap(Weight(X2, B2))) + 2 <= Cardinality(Heap(Weight(X, B)))
<1> DEFINE e == Before(k)
           g == Sends[k]
           b == BesideOf(X, B)
           o == OwnOf(X, B)
           b2 == BesideOf(X2, B2)
           o2 == OwnOf(X2, B2)
           F == {s \in Retriers \ {r} : b[s] < g}
           f == Cardinality(F)
<1>0. /\ \A s \in Retriers : /\ X[s] \in Nat /\ B[s] \in Nat /\ X2[s] \in Nat /\ B2[s] \in Nat
                             /\ s # r => X2[s] = Larger(X[s], k) /\ B2[s] = B[s]
      /\ B2[r] = k /\ X2[r] = k
  BY LevelsOf DEF Levels, Counted
<1>1. /\ e \in Nat /\ g \in Nat /\ (k # 0 => g = 1 + R * e) /\ (k = 0 => e = 0 /\ g = 0)
      /\ Before(k + 1) = g
  BY Numbers
<1>2. F \in SUBSET (Retriers \ {r})
  OBVIOUS
<1>3. R \in Nat \ {0} /\ f \in Nat /\ f <= R - 1 /\ (R = 1 => F = {} /\ f = 0)
  <2> HIDE DEF F
  <2> QED  BY <1>2, Others
<1>4. R * e \in Nat /\ R * e >= e /\ (R >= 2 => R * e >= 2 * e)
  <2> HIDE DEF e
  <2> QED  BY <1>1, <1>3, Product
<1>5. /\ b \in Numbered /\ o \in Numbered /\ b2 \in Numbered /\ o2 \in Numbered
      /\ \A s \in Retriers : /\ b[s] = Beside(X[s], B[s]) /\ o[s] = Own(X[s], B[s])
                             /\ b2[s] = Beside(X2[s], B2[s]) /\ o2[s] = Own(X2[s], B2[s])
  <2>1. /\ BesideOf(X, B) \in Numbered /\ OwnOf(X, B) \in Numbered
        /\ \A s \in Retriers : /\ BesideOf(X, B)[s] = Beside(X[s], B[s])
                               /\ OwnOf(X, B)[s] = Own(X[s], B[s])
    BY LevelsOf
  <2>2. /\ BesideOf(X2, B2) \in Numbered /\ OwnOf(X2, B2) \in Numbered
        /\ \A s \in Retriers : /\ BesideOf(X2, B2)[s] = Beside(X2[s], B2[s])
                               /\ OwnOf(X2, B2)[s] = Own(X2[s], B2[s])
    BY LevelsOf
  <2> QED  BY <2>1, <2>2
<1>6. Weight(X, B) = Table(b, o) /\ Weight(X2, B2) = Table(b2, o2)
  BY DEF Weight
<1> HIDE DEF b, o, b2, o2, f, F
    \* Of the others only those who weigh less than g gain, and then k is not 0.
<1>7. o[r] >= 1 + g /\ b[r] >= 2 * g /\ o2[r] <= g /\ (R = 1 \/ b2[r] <= g)
  <2>1. /\ Beside(X[r], B[r]) >= 2 * Before(X[r])
        /\ X[r] # 0 => Own(X[r], B[r]) >= 1 + Before(X[r])
        /\ Beside(k, k) = 2 * Before(k) \/ Beside(k, k) = Sends[k]
        /\ Own(k, k) = (IF k = 0 THEN 0 ELSE 1 + Before(k)) \/ Own(k, k) = Sends[k]
    BY <1>0, BesideAndOwn
  <2>2. b[r] = Beside(X[r], B[r]) /\ o[r] = Own(X[r], B[r])
        /\ b2[r] = Beside(k, k) /\ o2[r] = Own(k, k)
    BY <1>0, <1>5
  <2>3. X[r] # 0 /\ Before(X[r]) = g
    BY <1>1
  <2>4. Own(k, k) <= g
    <3> HIDE DEF e, g
    <3>1. k # 0 => 1 + e <= g
      BY <1>1, <1>4
    <3>2. Own(k, k) = (IF k = 0 THEN 0 ELSE 1 + e) \/ Own(k, k) = g
      BY <2>1 DEF e, g
    <3> QED  BY <1>1, <3>1, <3>2
  <2>5. R = 1 \/ Beside(k, k) <= g
    <3> HIDE DEF e, g
    <3>1. R # 1 => 2 * e <= g
      BY <1>1, <1>3, <1>4
    <3>2. Beside(k, k) = 2 * e \/ Beside(k, k) = g
      BY <2>1 DEF e, g
    <3> QED  BY <1>1, <3>1, <3>2
  <2> QED  BY <2>1, <2>2, <2>3, <2>4, <2>5
<1>8. R # 1 => 2 * e <= g
  <2> HIDE DEF e, g
  <2> QED  BY <1>1, <1>3, <1>4
<1>9. ASSUME NEW s \in Retriers \ {r}
      PROVE  /\ R # 1 /\ b2[r] <= b[r] /\ b2[r] <= g
             /\ s \notin F => b[s] >= g /\ b2[s] <= b[s] /\ o2[s] <= o[s]
             /\ s \in F => /\ b2[s] <= g /\ (b2[s] <= b[s] \/ b2[s] <= 2 * e)
                           /\ o2[s] <= o[s] \/ o2[s] <= 1 + e
             /\ s \in F => k # 0
  <2>1. s \in Retriers /\ s # r /\ X[s] \in Nat /\ B[s] \in Nat /\ b[s] = Beside(X[s], B[s])
        /\ o[s] = Own(X[s], B[s]) /\ b2[s] = Beside(Larger(X[s], k), B[s])
        /\ o2[s] = Own(Larger(X[s], k), B[s])
    BY <1>0, <1>5
  <2>2. s \in F <=> b[s] < g
    BY DEF F
  <2>3. b[s] \in Nat /\ b2[s] \in Nat /\ b2[r] \in Nat /\ b[r] \in Nat
    BY <1>5 DEF Numbered
  <2>4. R # 1
    <3> DEFINE O == Retriers \ {r}
    <3>1. O \in SUBSET (Retriers \ {r}) /\ O # {}
      OBVIOUS
    <3> HIDE DEF O
    <3> QED  BY <3>1, Others
  <2>5. 2 * e <= g /\ (k # 0 => 2 * e < g)
    <3> HIDE DEF e, g
    <3>1. R >= 2
      BY <1>3, <2>4
    <3> QED  BY <1>1, <1>3, <1>4, <1>8, <2>4, <3>1
  <2> HIDE DEF e, g
  <2>6. /\ b[s] >= g => b2[s] <= b[s]
        /\ b[s] > 2 * e => o2[s] <= o[s]
        /\ b[s] <= g => b2[s] <= g
        /\ o2[s] <= o[s] \/ o2[s] <= 1 + e
    <3>1. g \in Nat /\ g >= 2 * Before(k)
      BY <1>1, <2>5 DEF e
    <3>2. /\ Beside(X[s], B[s]) >= g => Beside(Larger(X[s], k), B[s]) <= Beside(X[s], B[s])
          /\ Beside(X[s], B[s]) > 2 * Before(k) => Own(Larger(X[s], k), B[s]) <= Own(X[s], B[s])
          /\ Beside(X[s], B[s]) <= g => Beside(Larger(X[s], k), B[s]) <= g
          /\ \/ Own(Larger(X[s], k), B[s]) <= Own(X[s], B[s])
             \/ Own(Larger(X[s], k), B[s]) <= 1 + Before(k)
      BY <2>1, <3>1, MayRead
    <3> QED  BY <2>1, <3>2 DEF e
  <2>7. b2[s] <= b[s] \/ b2[s] <= 2 * e
    <3> DEFINE z == 2 * e
    <3>1. z \in Nat /\ z >= 2 * Before(k)
      BY <1>1 DEF e
    <3> HIDE DEF z
    <3>2. /\ Beside(X[s], B[s]) >= z => Beside(Larger(X[s], k), B[s]) <= Beside(X[s], B[s])
          /\ Beside(X[s], B[s]) <= z => Beside(Larger(X[s], k), B[s]) <= z
      BY <2>1, <3>1, MayRead
    <3> QED  BY <2>1, <2>3, <3>1, <3>2 DEF z
  <2>8. CASE s \notin F
    <3>1. b[s] >= g
      BY <1>1, <2>2, <2>3, <2>8
    <3>2. CASE k # 0
      BY <1>1, <1>7, <2>3, <2>4, <2>5, <2>6, <2>7, <2>8, <3>1, <3>2
    <3>3. CASE k = 0
      <4>1. Larger(X[s], k) = X[s]
        BY <2>1, <3>3 DEF Larger
      <4>2. b2[s] = b[s] /\ o2[s] = o[s]
        BY <2>1, <4>1
      <4>3. o[s] \in Nat
        BY <1>5 DEF Numbered
      <4> QED  BY <1>1, <1>7, <2>3, <2>4, <2>8, <3>1, <4>2, <4>3
    <3> QED  BY <3>2, <3>3
  <2>9. CASE s \in F
    <3>1. k # 0
      BY <1>1, <2>2, <2>3, <2>9
    <3> QED  BY <1>1, <1>7, <2>2, <2>3, <2>4, <2>6, <2>7, <2>9, <3>1
  <2> QED  BY <2>8, <2>9
<1>10. F = {} \/ (2 * e <= g /\ g <= 2 * g)
  <2>1. F # {} => R # 1
    BY <1>2, <1>9
  <2> HIDE DEF e, g
  <2> QED  BY <1>1, <1>8, <2>1
<1>11. IsFiniteSet(Heap(Table(b, o)))
  BY <1>6
<1>12. 2 * g \in Nat /\ 1 + g \in Nat /\ g <= 1 + g
  BY <1>1
<1>13. Shifts(b, o, b2, o2, r, F, g, e)
  <2> HIDE DEF e, g
  <2> QED  BY <1>9 DEF Shifts
<1> DEFINE C == Cardinality(Heap(Table(b, o)))
           C2 == Cardinality(Heap(Table(b2, o2)))
           hi == 2 * g
<1>14. hi \in Nat /\ hi = 2 * g
  BY <1>12
<1> HIDE DEF e, g, hi
<1>15. /\ IsFiniteSet(Heap(Table(b2, o2)))
       /\ F = {} => C2 + 2 * ((1 + g) - g) <= C
       /\ F # {} => C2 + 2 * (Cardinality(F) * (hi - g)) + (2 * (1 + g) - 2 * g)
                        <= C + (Cardinality(F) * Cardinality(F)) * (2 * e) + 2 * Cardinality(F)
  BY <1>1, <1>2, <1>5, <1>7, <1>10, <1>11, <1>12, <1>13, <1>14, Trade
<1>16. C \in Nat /\ C2 \in Nat
  BY <1>11, <1>15, FS_CardinalityType
<1> HIDE DEF C, C2
<1>17. CASE F = {}
  <2>1. C2 + 2 <= C
    BY <1>1, <1>15, <1>16, <1>17
  <2> QED  BY <1>6, <1>15, <2>1 DEF C, C2
<1>18. CASE F # {}
  <2> DEFINE d == R - 1 - f
             p == f * g
             q == (f * f) * (2 * e)
  <2>1. d \in Nat /\ R = f + 1 + d
    BY <1>3
  <2>2. g = 1 + (f + 1 + d) * e
    <3>1. k # 0
      BY <1>2, <1>9, <1>18
    <3> HIDE DEF d
    <3> QED  BY <1>1, <2>1, <3>1
  <2> HIDE DEF d
  <2>3. (f * f) * (2 * e) + 2 * f <= 2 * (f * (1 + (f + 1 + d) * e))
    BY <1>1, <1>3, <2>1, Outweighs
  <2>4. p \in Int /\ q \in Int
    <3>1. \A i, j \in Int : i * j \in Int
      OBVIOUS
    <3> QED  BY <1>1, <1>3, <3>1
  <2>5. q + 2 * f <= 2 * p
    BY <2>2, <2>3
  <2>6. hi - g = g /\ 2 * (1 + g) - 2 * g = 2
    BY <1>1, <1>14
  <2>7. C2 + 2 * p + 2 <= C + q + 2 * f
    BY <1>15, <1>18, <2>6 DEF f
  <2> HIDE DEF p, q
  <2>8. C2 + 2 <= C
    BY <1>3, <1>16, <2>4, <2>5, <2>7
  <2> QED  BY <1>6, <1>15, <2>8 DEF C, C2
<1> QED  BY <1>17, <1>18

\* A request or the pending round fails: all may read the notification with all attempts left.
LEMMA FailingOnce ==
  ASSUME NEW X \in Levels, NEW B \in Levels, IsFiniteSet(Heap(Weight(X, B))),
         NEW X2 \in Levels, X2 = [s \in Retriers |-> MaxAttempts]
  PROVE  /\ IsFiniteSet(Heap(Weight(X2, B)))
         /\ R * Sends[MaxAttempts] \in Nat
         /\ Cardinality(Heap(Weight(X2, B)))
              <= Cardinality(Heap(Weight(X, B))) + 2 * (R * Sends[MaxAttempts])
<1> DEFINE e == Before(MaxAttempts)
           W == Weight(X, B)
           W2 == Weight(X2, B)
           A == ((Retriers \X Retriers) \X (1..(2 * e)))
                  \cup ({<<s, s>> : s \in Retriers} \X {2 * e + 1, 2 * e + 2})
<1>0. MaxAttempts \in Nat \ {0} /\ IsFiniteSet(Retriers) /\ R \in Nat
  BY NotificationAssumption, SendsFollow
<1>1. e \in Nat /\ 2 * e \in Nat /\ Sends[MaxAttempts] = 1 + R * e
  <2>1. e \in Nat /\ Sends[MaxAttempts] = 1 + R * e
    BY <1>0, Numbers
  <2> HIDE DEF e
  <2> QED  BY <2>1
<1>2. /\ BesideOf(X, B) \in Numbered /\ OwnOf(X, B) \in Numbered
      /\ BesideOf(X2, B) \in Numbered /\ OwnOf(X2, B) \in Numbered
  BY LevelsOf
<1>3. W \in [Pairs -> Nat] /\ W2 \in [Pairs -> Nat]
  <2>1. W \in [Pairs -> Nat]
    BY <1>2, TableOf DEF Weight
  <2>2. W2 \in [Pairs -> Nat]
    BY <1>2, TableOf DEF Weight
  <2> QED  BY <2>1, <2>2
<1>4. ASSUME NEW s \in Retriers
      PROVE  /\ BesideOf(X2, B)[s] <= BesideOf(X, B)[s] \/ BesideOf(X2, B)[s] <= 2 * e
             /\ OwnOf(X2, B)[s] <= OwnOf(X, B)[s] \/ OwnOf(X2, B)[s] <= 1 + e
  <2>1. X[s] \in Nat /\ B[s] \in Nat /\ X2[s] = MaxAttempts
    BY LevelsOf
  <2>2. /\ BesideOf(X, B)[s] = Beside(X[s], B[s]) /\ OwnOf(X, B)[s] = Own(X[s], B[s])
        /\ BesideOf(X2, B)[s] = Beside(MaxAttempts, B[s])
        /\ OwnOf(X2, B)[s] = Own(MaxAttempts, B[s])
    BY <2>1, LevelsOf
  <2>3. /\ Beside(MaxAttempts, B[s]) = 2 * e \/ Beside(MaxAttempts, B[s]) = Sends[B[s]]
        /\ Own(MaxAttempts, B[s]) = 1 + e \/ Own(MaxAttempts, B[s]) = Sends[B[s]]
        /\ Beside(X[s], B[s]) >= Sends[B[s]] /\ Own(X[s], B[s]) >= Sends[B[s]]
    BY <1>0, <2>1, BesideAndOwn
  <2> HIDE DEF e
  <2> QED  BY <1>1, <2>2, <2>3
<1>5. IsFiniteSet(A) /\ Cardinality(A) <= (R * R) * (2 * e) + 2 * R
  BY <1>0, <1>1, Couples DEF R
<1>6. Heap(W2) \ Heap(W) \subseteq A
  <2> SUFFICES ASSUME NEW p \in Heap(W2), p \notin Heap(W) PROVE p \in A
    OBVIOUS
  <2> HIDE DEF W, W2, e
  <2>1. p = <<p[1], p[2]>> /\ p[1] \in Pairs /\ p[2] \in Nat \ {0} /\ p[2] <= W2[p[1]]
    BY <1>3, HeapOf
  <2>2. ~(p[2] <= W[p[1]])
    BY <1>3, <2>1, HeapOf
  <2>3. PICK s \in Retriers, t \in Retriers : p[1] = <<s, t>>
    BY <2>1 DEF Pairs
  <2>4. W2[<<s, t>>] \in Nat /\ W[<<s, t>>] \in Nat
    BY <1>3, <2>1, <2>3
  <2>5. p[2] <= W2[<<s, t>>] /\ p[2] > W[<<s, t>>]
    BY <2>1, <2>2, <2>3, <2>4
  <2> DEFINE b == BesideOf(X, B)
             o == OwnOf(X, B)
             b2 == BesideOf(X2, B)
             o2 == OwnOf(X2, B)
  <2>6. b[s] \in Nat /\ b[t] \in Nat /\ o[s] \in Nat
      /\ b2[s] \in Nat /\ b2[t] \in Nat /\ o2[s] \in Nat
    BY <1>2 DEF Numbered
  <2>7. /\ b2[s] <= b[s] \/ b2[s] <= 2 * e
        /\ b2[t] <= b[t] \/ b2[t] <= 2 * e
        /\ o2[s] <= o[s] \/ o2[s] <= 1 + e
    BY <1>4
  <2>8. CASE s = t
    <3>1. W[<<s, t>>] = 2 * o[s] /\ W2[<<s, t>>] = 2 * o2[s]
      BY <1>2, <2>8, TableOf DEF Weight, W, W2
    <3> HIDE DEF b, o, b2, o2
    <3>2. p[2] <= 2 * e + 2
      BY <1>1, <2>1, <2>5, <2>6, <2>7, <3>1
    <3>3. p[2] \in 1..(2 * e) \/ p[2] \in {2 * e + 1, 2 * e + 2}
      BY <1>1, <2>1, <3>2
    <3>4. p[1] \in Retriers \X Retriers /\ p[1] \in {<<u, u>> : u \in Retriers}
      BY <2>3, <2>8
    <3> QED  BY <2>1, <3>3, <3>4
  <2>9. CASE s # t
    <3>1. W[<<s, t>>] = Larger(b[s], b[t]) /\ W2[<<s, t>>] = Larger(b2[s], b2[t])
      BY <1>2, <2>9, TableOf DEF Weight, W, W2
    <3> HIDE DEF b, o, b2, o2
    <3>2. p[2] <= 2 * e
      BY <1>1, <2>1, <2>5, <2>6, <2>7, <3>1 DEF Larger
    <3>3. p[2] \in 1..(2 * e) /\ p[1] \in Retriers \X Retriers
      BY <1>1, <2>1, <2>3, <3>2
    <3> QED  BY <2>1, <3>3
  <2> QED  BY <2>8, <2>9
<1> HIDE DEF A
<1>7. IsFiniteSet(Heap(W2))
      /\ Cardinality(Heap(W2)) + Cardinality({}) <= Cardinality(Heap(W)) + Cardinality(A)
  <2>1. {} \subseteq Heap(W) \ Heap(W2)
    OBVIOUS
  <2> HIDE DEF W, W2
  <2>2. IsFiniteSet(Heap(W))
    BY DEF W
  <2> QED  BY <1>5, <1>6, <2>1, <2>2, Swap
<1>8. R * Sends[MaxAttempts] \in Nat /\ (R * R) * (2 * e) + 2 * R = 2 * (R * Sends[MaxAttempts])
  <2> HIDE DEF e
  <2>1. R * Sends[MaxAttempts] = R + (R * R) * e
    BY <1>0, <1>1
  <2>2. (R * R) * (2 * e) = 2 * ((R * R) * e) /\ (R * R) * e \in Nat
    <3>1. \A i, j \in Nat : i * j \in Nat
      OBVIOUS
    <3>2. R * R \in Nat
      BY <1>0, <3>1
    <3>3. (R * R) * e \in Nat
      BY <1>1, <3>1, <3>2
    <3>4. \A i \in Nat : i * (2 * e) = 2 * (i * e)
      BY <1>1
    <3> QED  BY <3>2, <3>3, <3>4
  <2> DEFINE z == (R * R) * e
  <2> HIDE DEF z
  <2>3. z \in Nat /\ R * Sends[MaxAttempts] = R + z /\ (R * R) * (2 * e) = 2 * z
    BY <2>1, <2>2 DEF z
  <2> QED  BY <1>0, <2>3
<1>9. Cardinality({}) = 0
  BY FS_EmptySet
<1>10. Cardinality(Heap(W2)) \in Nat /\ Cardinality(Heap(W)) \in Nat /\ Cardinality(A) \in Nat
  BY <1>5, <1>7, FS_CardinalityType
<1> DEFINE z == R * Sends[MaxAttempts]
           y == (R * R) * (2 * e) + 2 * R
<1>11. z \in Nat /\ y = 2 * z /\ Cardinality(A) <= y
  BY <1>5, <1>8
<1> HIDE DEF z, y
<1>12. Cardinality(Heap(W2)) <= Cardinality(Heap(W)) + 2 * z
  BY <1>7, <1>9, <1>10, <1>11
<1> QED  BY <1>7, <1>11, <1>12 DEF z, W, W2

-----------------------------------------------------------------------------
(* Who does what.                                                          *)

\* Which callers stand at which points, what is in a batch, and that the pending rounds
\* exclude each other.
Points ==
    \A c \in Callers :
        /\ pc[c] = "count" => c \in Retriers
        /\ pc[c] \in {"resend", "cancel"} => c \in Users
        /\ pc[c] = "release" => c \in Schedulers
        /\ c \in Schedulers => pc[c] \in {"idle", "next", "release"}
Tidy ==
    \A c \in Callers :
        /\ pc[c] = "idle" => batch[c] = {}
        /\ \A m, k \in batch[c] : m.id = k.id => m = k
        /\ copy[c] # NoCopy => \A m \in batch[c] : m.id # copy[c].id
Alone == \A p, q \in Pending : pc[p] # "idle" /\ pc[q] # "idle" => p = q
Late == \A c \in Schedulers, n \in Ids : HeldBy(c, n) => when[n] = "past"
Orderly == Points /\ Tidy /\ Alone /\ Late

\* Of what a round reads.
Finds(c, found) ==
    \/ /\ c \in Pending /\ \A p \in Pending : pc[p] = "idle"
       /\ \A n \in found : IsPending(n)
    \/ c \in Retriers /\ \A n \in found : MayRetry(n)
    \/ c \in Schedulers /\ \A n \in found : IsDue(n)
Turns(c, point) ==
    \/ c \in Pending /\ point = "mark"
    \/ c \in Retriers /\ point = "count"
    \/ c \in Schedulers /\ point = "release"

\* Every step is of one of these kinds.
LEMMA StepOf ==
  ASSUME Next
  PROVE  \/ Elsewhere
         \/ \E c \in Callers :
               \/ Works(c)
               \/ c \in Users /\ \E n \in Ids :
                     SendEmail(c, n) \/ ReadForCancel(c, n) \/ ReadForResend(c, n)
               \/ \E found \in SUBSET Ids : ReadBatch(c, found) /\ Finds(c, found)
               \/ \E point \in {"mark", "count", "release"} : Take(c, point) /\ Turns(c, point)
<1>1. Users \subseteq Callers
  BY DEF Callers
<1>2. ASSUME NEW c \in Users, Request(c)
      PROVE  \/ Works(c)
             \/ \E n \in Ids : SendEmail(c, n) \/ ReadForCancel(c, n) \/ ReadForResend(c, n)
  BY <1>2 DEF Request, Works
<1>3. ASSUME NEW c \in Callers, Round(c)
      PROVE  \/ Works(c)
             \/ \E found \in SUBSET Ids : ReadBatch(c, found) /\ Finds(c, found)
             \/ \E point \in {"mark", "count", "release"} : Take(c, point) /\ Turns(c, point)
  <2>1. CASE c \in Pending /\ ProcessPendingNotifications(c)
    BY <2>1 DEF ProcessPendingNotifications, Finds, Turns
  <2>2. CASE c \in Retriers /\ RetryFailedNotifications(c)
    BY <2>2 DEF RetryFailedNotifications, Finds, Turns, Works
  <2>3. CASE c \in Schedulers /\ ProcessScheduledNotifications(c)
    BY <2>3 DEF ProcessScheduledNotifications, Finds, Turns, Works
  <2> QED  BY <1>3, <2>1, <2>2, <2>3 DEF Round
<1> QED  BY <1>1, <1>2, <1>3 DEF Next, Works, Elsewhere

\* Where a call goes on.
LEMMA WorksMoves ==
  ASSUME Typed, NEW c \in Callers, Works(c)
  PROVE  /\ pc[c] \in AtWork /\ copy[c] # NoCopy /\ copy[c].id \in Ids
         /\ batch' = batch
         /\ \A d \in Callers \ {c} : copy'[d] = copy[d] /\ pc'[d] = pc[d]
         /\ \/ copy'[c] = NoCopy /\ pc'[c] = IF batch[c] = {} THEN "idle" ELSE "next"
            \/ /\ copy'[c] # NoCopy /\ copy'[c].id = copy[c].id
               /\ \/ pc[c] = "mark" /\ pc'[c] = "send"
                  \/ pc[c] = "send" /\ pc'[c] \in {"sent", "error"}
                  \/ pc[c] = "error" /\ pc'[c] = "failure"
                  \/ /\ pc[c] \in {"resend", "count", "release"} /\ pc'[c] = "mark"
                     /\ when[copy[c].id] # "past"
<1> USE DEF Typed
<1>1. pc[c] \in AtWork
  BY DEF Works, SendNow, MarkProcessing, Send, RecordSent, RecordError, RecordFailure,
         CancelNotification, ResendNotification, CountAttempt, Release, AtWork
<1>2. copy[c] \in Papers /\ copy[c].id \in Ids /\ copy[c] # NoCopy
  BY <1>1, CopyType, NotificationAssumption DEF Papers
<1>3. \A a \in Int : Copy(copy[c].id, a) # NoCopy /\ Copy(copy[c].id, a).id = copy[c].id
  BY <1>2, NotificationAssumption DEF Papers, Copy
<1>4. copy[c].attempts \in Int
  BY <1>1, CopyType
<1>5. \/ Finish(c)
      \/ /\ batch' = batch
         /\ \/ pc[c] = "mark" /\ Goto(c, "send", copy[c])
            \/ pc[c] = "send" /\ (Goto(c, "sent", copy[c]) \/ Goto(c, "error", copy[c]))
            \/ pc[c] = "error" /\ Goto(c, "failure", copy[c])
            \/ /\ pc[c] \in {"resend", "count", "release"} /\ when[copy[c].id] # "past"
               /\ \/ Goto(c, "mark", copy[c])
                  \/ \E a \in Int : Goto(c, "mark", Copy(copy[c].id, a))
  <2>1. 0 \in Int /\ copy[c].attempts + 1 \in Int
    BY <1>4
  <2> QED  BY <2>1 DEF Works, SendNow, MarkProcessing, Send, RecordSent, RecordError, RecordFailure,
         CancelNotification, ResendNotification, CountAttempt, Release, Update, Accepted
<1>6. CASE Finish(c)
  <2>1. /\ batch' = batch /\ copy'[c] = NoCopy /\ pc'[c] = IF batch[c] = {} THEN "idle" ELSE "next"
        /\ \A d \in Callers \ {c} : copy'[d] = copy[d] /\ pc'[d] = pc[d]
    BY <1>6, GotoEffect DEF Finish
  <2> QED  BY <1>1, <1>2, <2>1
<1>7. CASE ~Finish(c)
  <2>1. PICK p, m : Goto(c, p, m) /\ batch' = batch /\ m # NoCopy /\ m.id = copy[c].id
                    /\ \/ pc[c] = "mark" /\ p = "send"
                       \/ pc[c] = "send" /\ p \in {"sent", "error"}
                       \/ pc[c] = "error" /\ p = "failure"
                       \/ /\ pc[c] \in {"resend", "count", "release"} /\ p = "mark"
                          /\ when[copy[c].id] # "past"
    BY <1>2, <1>3, <1>5, <1>7
  <2>2. /\ pc'[c] = p /\ copy'[c] = m
        /\ \A d \in Callers \ {c} : pc'[d] = pc[d] /\ copy'[d] = copy[d]
    BY <2>1, GotoEffect
  <2> QED  BY <1>1, <1>2, <2>1, <2>2
<1> QED  BY <1>6, <1>7

\* The kinds of callers are apart.
LEMMA KindsOf ==
  /\ \A c \in Users : c \in Callers /\ c \notin Pending /\ c \notin Retriers /\ c \notin Schedulers
  /\ \A c \in Pending : c \in Callers /\ c \notin Users /\ c \notin Retriers /\ c \notin Schedulers
  /\ \A c \in Retriers : c \in Callers /\ c \notin Users /\ c \notin Pending /\ c \notin Schedulers
  /\ \A c \in Schedulers : c \in Callers /\ c \notin Users /\ c \notin Pending /\ c \notin Retriers
  /\ \A c \in Callers : c \in Users \/ c \in Pending \/ c \in Retriers \/ c \in Schedulers
BY NotificationAssumption DEF Callers

\* A call at work keeps the order.
LEMMA WorksOrderly ==
  ASSUME Typed, Orderly, NEW c \in Callers, Works(c), when' = when
  PROVE  Orderly'
<1> USE DEF Orderly
<1>1. /\ pc[c] \in AtWork /\ copy[c] # NoCopy /\ copy[c].id \in Ids
      /\ batch' = batch
      /\ \A d \in Callers \ {c} : copy'[d] = copy[d] /\ pc'[d] = pc[d]
      /\ \/ copy'[c] = NoCopy /\ pc'[c] = IF batch[c] = {} THEN "idle" ELSE "next"
         \/ /\ copy'[c] # NoCopy /\ copy'[c].id = copy[c].id
            /\ \/ pc[c] = "mark" /\ pc'[c] = "send"
               \/ pc[c] = "send" /\ pc'[c] \in {"sent", "error"}
               \/ pc[c] = "error" /\ pc'[c] = "failure"
               \/ /\ pc[c] \in {"resend", "count", "release"} /\ pc'[c] = "mark"
                  /\ when[copy[c].id] # "past"
  BY WorksMoves
<1>2. Points'
  <2>1. c \in Schedulers => when[copy[c].id] = "past"
    BY <1>1 DEF Late, HeldBy
  <2>2. c \in Schedulers => pc[c] = "release" /\ copy'[c] = NoCopy
    BY <1>1, <2>1 DEF Points, AtWork
  <2> QED  BY <1>1, <2>2 DEF Points
<1>3. Tidy'
  BY <1>1 DEF Tidy
<1>4. Alone'
  <2>1. pc[c] # "idle"
    BY <1>1 DEF AtWork
  <2>2. \A p \in Pending : p \in Callers
    BY DEF Callers
  <2>3. \A p \in Pending : pc'[p] # "idle" => pc[p] # "idle"
    BY <1>1, <2>1, <2>2
  <2> QED  BY <2>3 DEF Alone
<1>5. Late'
  <2>1. \A d \in Schedulers : d \in Callers
    BY DEF Callers
  <2>2. \A d \in Schedulers, n \in Ids : HeldBy(d, n)' => HeldBy(d, n)
    BY <1>1, <2>1 DEF HeldBy
  <2> QED  BY <2>2 DEF Late
<1> QED  BY <1>2, <1>3, <1>4, <1>5

\* So does every step.
LEMMA NextOrderly == Typed /\ UnsentInv /\ Orderly /\ [Next]_vars => Orderly'
<1> SUFFICES ASSUME Typed, UnsentInv, Orderly, [Next]_vars PROVE Orderly'
  OBVIOUS
<1> USE DEF Typed
<1>1. ASSUME NEW c \in Callers, Works(c) PROVE Orderly'
  <2>1. when' = when
    BY <1>1 DEF Works, SendNow, MarkProcessing, Send, RecordSent, RecordError, RecordFailure,
         CancelNotification, ResendNotification, CountAttempt, Release, UpdateFails, Update, docs
  <2> QED  BY <1>1, <2>1, WorksOrderly
<1>2. ASSUME NEW c \in Users, NEW n \in Ids,
             SendEmail(c, n) \/ ReadForCancel(c, n) \/ ReadForResend(c, n)
      PROVE  Orderly'
  <2>1. pc[c] = "idle" /\ batch' = batch /\ batch[c] = {} /\ c \in Callers
        /\ c \notin Schedulers /\ c \notin Pending
    BY <1>2, KindsOf DEF SendEmail, ReadForCancel, ReadForResend, Orderly, Tidy
  <2>2. /\ \/ pc'[c] = pc[c] /\ copy'[c] = copy[c]
           \/ pc'[c] \in {"mark", "cancel", "resend"}
        /\ \A d \in Callers \ {c} : pc'[d] = pc[d] /\ copy'[d] = copy[d]
    <3>1. \/ \E p \in {"mark", "cancel", "resend"} : \E m : Goto(c, p, m)
          \/ UNCHANGED <<pc, copy>>
      BY <1>2 DEF SendEmail, ReadForCancel, ReadForResend
    <3> QED  BY <2>1, <3>1, GotoEffect
  <2>3. \A d \in Schedulers, i \in Ids : HeldBy(d, i) => when'[i] = when[i]
    <3>1. ASSUME NEW d \in Schedulers, NEW i \in Ids, HeldBy(d, i) PROVE status[i] # "none"
      <4>1. d \in Callers
        BY DEF Callers
      <4>2. Held(i)
        BY <3>1, <4>1 DEF HeldBy, Held
      <4> QED  BY <4>2 DEF UnsentInv, Untouched
    <3>2. \A i \in Ids : status[i] # "none" => when'[i] = when[i]
      BY <1>2 DEF SendEmail, ReadForCancel, ReadForResend, docs, Documents
    <3> QED  BY <3>1, <3>2
  <2>4. \A d \in Schedulers, i \in Ids : HeldBy(d, i)' => HeldBy(d, i)
    <3>1. \A d \in Schedulers : d \in Callers \ {c}
      BY <2>1, KindsOf
    <3> QED  BY <2>1, <2>2, <3>1 DEF HeldBy
  <2>5. Late'
    BY <2>3, <2>4 DEF Late, Orderly
  <2>6. Points' /\ Tidy'
    BY <1>2, <2>1, <2>2 DEF Points, Tidy, Orderly
  <2>7. Alone'
    <3>1. \A p \in Pending : p \in Callers \ {c}
      BY <2>1, KindsOf
    <3> QED  BY <2>2, <3>1 DEF Alone, Orderly
  <2> QED  BY <2>5, <2>6, <2>7 DEF Orderly
<1>3. ASSUME NEW c \in Callers, NEW found \in SUBSET Ids, ReadBatch(c, found), Finds(c, found)
      PROVE  Orderly'
  <2>1. /\ pc[c] = "idle" /\ pc'[c] = "next" /\ batch'[c] = {Read(n) : n \in found}
        /\ copy' = copy /\ when' = when
        /\ \A d \in Callers \ {c} : pc'[d] = pc[d] /\ batch'[d] = batch[d]
    BY <1>3 DEF ReadBatch, Hands, docs
  <2>2. copy[c] = NoCopy
    BY <2>1 DEF Hands, AtWork
  <2>3. Points'
    BY <1>3, <2>1 DEF Points, Orderly
  <2>4. Tidy'
    <3>1. \A m, k \in batch'[c] : m.id = k.id => m = k
      BY <2>1 DEF Read, Copy
    <3> QED  BY <2>1, <2>2, <3>1 DEF Tidy, Orderly
  <2>5. Alone'
    <3>1. c \in Pending => \A p \in Pending : pc[p] = "idle"
      BY <1>3, KindsOf DEF Finds
    <3>2. \A p \in Pending : p \in Callers
      BY DEF Callers
    <3> QED  BY <2>1, <3>1, <3>2 DEF Alone, Orderly
  <2>6. Late'
    <3>1. c \in Schedulers => \A n \in found : when[n] = "past"
      BY <1>3, KindsOf DEF Finds, IsDue
    <3>2. \A d \in Schedulers : d \in Callers
      BY DEF Callers
    <3>3. ASSUME NEW d \in Schedulers, NEW i \in Ids, HeldBy(d, i)' PROVE when[i] = "past"
      <4>1. CASE d # c
        <5>1. HeldBy(d, i)
          BY <2>1, <3>2, <3>3, <4>1 DEF HeldBy
        <5> QED  BY <5>1 DEF Late, Orderly
      <4>2. CASE d = c
        <5>1. i \in found
          BY <2>1, <2>2, <3>3, <4>2 DEF HeldBy, Read, Copy
        <5> QED  BY <3>1, <4>2, <5>1
      <4> QED  BY <4>1, <4>2
    <3> QED  BY <2>1, <3>3 DEF Late
  <2> QED  BY <2>3, <2>4, <2>5, <2>6 DEF Orderly
<1>4. ASSUME NEW c \in Callers, NEW point \in {"mark", "count", "release"},
             Take(c, point), Turns(c, point)
      PROVE  Orderly'
  <2>1. PICK m \in batch[c] : Goto(c, point, m) /\ batch' = [batch EXCEPT ![c] = @ \ {m}]
    BY <1>4 DEF Take
  <2>2. /\ pc[c] = "next" /\ pc'[c] = point /\ copy'[c] = m /\ when' = when
        /\ batch'[c] = batch[c] \ {m}
        /\ \A d \in Callers \ {c} : pc'[d] = pc[d] /\ copy'[d] = copy[d] /\ batch'[d] = batch[d]
    BY <1>4, <2>1, GotoEffect DEF Take, Hands, docs
  <2>3. Points'
    BY <1>4, <2>2, KindsOf DEF Points, Orderly, Turns
  <2>4. Tidy'
    <3>1. \A k \in batch'[c] : k.id # m.id
      BY <2>1, <2>2 DEF Tidy, Orderly
    <3> QED  BY <2>2, <3>1 DEF Tidy, Orderly
  <2>5. Alone'
    <3>1. \A p \in Pending : p \in Callers
      BY DEF Callers
    <3>2. \A p \in Pending : pc'[p] # "idle" => pc[p] # "idle"
      BY <2>2, <3>1
    <3> QED  BY <3>2 DEF Alone, Orderly
  <2>6. Late'
    <3>1. \A d \in Schedulers : d \in Callers
      BY DEF Callers
    <3>2. \A d \in Schedulers, i \in Ids : HeldBy(d, i)' => HeldBy(d, i)
      BY <2>1, <2>2, <3>1 DEF HeldBy
    <3> QED  BY <2>2, <3>2 DEF Late, Orderly
  <2> QED  BY <2>3, <2>4, <2>5, <2>6 DEF Orderly
<1>5. CASE Crash
  <2>1. \A c \in Callers : pc'[c] = "idle" /\ copy'[c] = NoCopy /\ batch'[c] = {}
    BY <1>5 DEF Crash
  <2>2. (\A p \in Pending : p \in Callers) /\ \A p \in Schedulers : p \in Callers
    BY DEF Callers
  <2> QED  BY <2>1, <2>2 DEF Orderly, Points, Tidy, Alone, Late, HeldBy
<1>6. ASSUME NEW n \in Ids, TimeComes(n) \/ CleanupOldNotifications(n) PROVE Orderly'
  <2>1. UNCHANGED calls /\ \A i \in Ids : when[i] = "past" => when'[i] = "past"
    BY <1>6 DEF TimeComes, CleanupOldNotifications, Documents
  <2>2. Late'
    BY <2>1 DEF Orderly, Late, HeldBy, calls
  <2> QED  BY <2>1, <2>2 DEF Orderly, Points, Tidy, Alone, calls
<1>7. CASE UNCHANGED vars
  BY <1>7 DEF vars, docs, calls, history, Orderly, Points, Tidy, Alone, Late, HeldBy
<1> QED  BY <1>1, <1>2, <1>3, <1>4, <1>5, <1>6, <1>7, StepOf DEF Elsewhere

\* At first everybody is idle.
LEMMA InitOrderly == Init => Orderly
BY KindsOf DEF Init, Orderly, Points, Tidy, Alone, Late, HeldBy

-----------------------------------------------------------------------------
(* The account of a notification: what has been sent, what those at work   *)
(* on it may still send, and what a failure would leave to the retries,    *)
(* against what its requests pay for.                                      *)

\* All sends that one failure can lead to, and the first one.
Whole == Sends[MaxAttempts + 1]

\* Where c stands with n, and whether n is still to come in its round.
On(c, n) == IF copy[c] # NoCopy /\ copy[c].id = n THEN pc[c] ELSE "idle"
Carries(c, n) == \E m \in batch[c] : m.id = n

\* What is kept for a caller at a point: a retry counts its send when it begins; a request
\* and the pending round have all sends before them, and a resend makes the notification
\* pending, too.
Due(c, p) ==
    IF c \in Retriers THEN (IF p \in {"mark", "send"} THEN 1 ELSE 0)
    ELSE IF p = "resend" THEN 2 * Whole
    ELSE IF p = "send" \/ (p = "mark" /\ c \in Users) THEN Whole
    ELSE IF p \in {"error", "failure"} THEN Whole - 1
    ELSE 0
Dues(n) == [c \in Callers |-> Due(c, On(c, n))]

\* The pending round may come to send it, or is about to.
Flagged(n) == status[n] = "pending" \/ \E c \in Pending : On(c, n) = "mark" \/ Carries(c, n)

Plain(n) == 2 * tries[n] + (IF Flagged(n) THEN 2 * Whole ELSE 0)
                + (IF status[n] = "none" THEN 4 * Whole ELSE 0)
Budget(n) == 4 * ((1 + resends[n]) * Whole)

\* X: with how many attempts left each retrier may have read it, or may read it now; B: with
\* how many it is sending it.
Busy == {"mark", "send", "error", "failure"}
CoveredFor(r, n, X, B) ==
    /\ \A m \in batch[r] : m.id = n => X[r] >= MaxAttempts - m.attempts
    /\ On(r, n) = "count" => X[r] >= MaxAttempts - copy[r].attempts
    /\ On(r, n) \in Busy => B[r] >= MaxAttempts - copy[r].attempts
Covers(n, X, B) ==
    /\ status[n] = "failed" => \A r \in Retriers : X[r] >= MaxAttempts - attempts[n]
    /\ \A r \in Retriers : CoveredFor(r, n, X, B)

\* All that is owed, and the weight of what failures may lead to, is within the budget.
Balanced(n, H) ==
    /\ IsFiniteSet(H) /\ IsFiniteSet(Heap(Dues(n)))
    /\ Plain(n) + 2 * Cardinality(Heap(Dues(n))) + Cardinality(H) <= Budget(n)

\* Some levels cover the notification and are balanced.
Solvent(n) == \E X, B \in Levels : Covers(n, X, B) /\ Balanced(n, Heap(Weight(X, B)))

\* The numbers of the account.
LEMMA WholeType ==
  /\ Whole \in Nat \ {0} /\ R * Sends[MaxAttempts] \in Nat
  /\ Whole = 1 + R * Sends[MaxAttempts]
  /\ \A c \in Callers : \A p : Due(c, p) \in Nat
<1>1. MaxAttempts \in Nat
  BY NotificationAssumption
<1>2. R \in Nat /\ Sends[MaxAttempts] \in Nat /\ Whole \in Nat /\ Whole = 1 + R * Sends[MaxAttempts]
  BY <1>1, SendsFollow DEF Whole
<1>3. R * Sends[MaxAttempts] \in Nat
  BY <1>2, Product
<1> DEFINE z == R * Sends[MaxAttempts]
<1>4. z \in Nat /\ Whole = 1 + z
  BY <1>2, <1>3
<1> HIDE DEF z
<1>5. Whole \in Nat \ {0} /\ Whole - 1 \in Nat /\ 2 * Whole \in Nat
  BY <1>4
<1>6. \A c \in Callers : \A p : Due(c, p) \in Nat
  BY <1>5 DEF Due
<1> QED  BY <1>2, <1>3, <1>5, <1>6

Accounts ==
    \A n \in Ids :
        /\ Dues(n) \in [Callers -> Nat] /\ Plain(n) \in Nat /\ tries[n] \in Nat
        /\ Budget(n) \in Nat /\ (1 + resends[n]) * Whole \in Nat
        /\ 2 * tries[n] <= Plain(n)

LEMMA AccountType == Typed => Accounts
<1> SUFFICES ASSUME Typed, NEW n \in Ids
             PROVE  /\ Dues(n) \in [Callers -> Nat] /\ Plain(n) \in Nat /\ tries[n] \in Nat
                    /\ Budget(n) \in Nat /\ (1 + resends[n]) * Whole \in Nat
                    /\ 2 * tries[n] <= Plain(n)
  BY DEF Accounts
<1>1. Whole \in Nat /\ tries[n] \in Nat /\ 1 + resends[n] \in Nat
  BY WholeType DEF Typed, Documents
<1>2. (1 + resends[n]) * Whole \in Nat
  BY <1>1, Product
<1>3. Budget(n) \in Nat
  BY <1>2 DEF Budget
<1>4. Plain(n) \in Nat /\ 2 * tries[n] <= Plain(n)
  BY <1>1 DEF Plain
<1>5. Dues(n) \in [Callers -> Nat]
  BY WholeType DEF Dues
<1> QED  BY <1>1, <1>2, <1>3, <1>4, <1>5

LEMMA AccountTypeNext == Typed' => Accounts'
BY AccountType, PTL

\* As far as n is concerned, d stays where it is; and so does everybody but c.
Still(d, n) ==
    /\ On(d, n)' = On(d, n)
    /\ On(d, n) # "idle" => copy'[d].attempts = copy[d].attempts
    /\ \A m \in batch'[d] : m.id = n => m \in batch[d]
Apart(c, n) == \A d \in Callers \ {c} : Still(d, n)

\* The row of dues changes in one place.
LEMMA DuesMove ==
  ASSUME Typed, Typed', NEW n \in Ids, NEW c \in Callers, Apart(c, n), IsFiniteSet(Heap(Dues(n)))
  PROVE  /\ IsFiniteSet(Heap(Dues(n)'))
         /\ Cardinality(Heap(Dues(n)')) + Due(c, On(c, n))
              = Cardinality(Heap(Dues(n))) + Due(c, On(c, n)')
<1> DEFINE f == Dues(n)
           h == Dues(n)'
<1>1. f \in [Callers -> Nat]
  BY AccountType DEF Accounts
<1>2. h = [d \in Callers |-> Due(d, On(d, n)')]
  BY DEF Dues
<1>3. h \in [Callers -> Nat] /\ h[c] = Due(c, On(c, n)')
  BY <1>2, WholeType
<1>4. f[c] = Due(c, On(c, n))
  BY DEF Dues
<1>5. \A d \in Callers \ {c} : h[d] = f[d]
  BY <1>2 DEF Apart, Still, Dues
<1> HIDE DEF f, h
<1>6. IsFiniteSet(Heap(f))
  BY DEF f
<1>7. IsFiniteSet(Heap(h)) /\ Cardinality(Heap(h)) + f[c] = Cardinality(Heap(f)) + h[c]
  BY <1>1, <1>3, <1>5, <1>6, OneEntry
<1> QED  BY <1>3, <1>4, <1>7 DEF f, h

\* What is left of a row of dues that lose x and gain y.
LEMMA Settles ==
  ASSUME Typed, Typed', NEW n \in Ids, NEW H, Balanced(n, H), NEW H2, IsFiniteSet(H2),
         NEW x \in Nat, NEW y \in Nat, NEW b \in Nat, Budget(n)' = Budget(n) + b,
         IsFiniteSet(Heap(Dues(n)')),
         Cardinality(Heap(Dues(n)')) + x = Cardinality(Heap(Dues(n))) + y,
         Plain(n)' + 2 * y + Cardinality(H2) <= Plain(n) + 2 * x + Cardinality(H) + b
  PROVE  /\ IsFiniteSet(H2) /\ IsFiniteSet(Heap(Dues(n)'))
         /\ Plain(n)' + 2 * Cardinality(Heap(Dues(n)')) + Cardinality(H2) <= Budget(n)'
<1> DEFINE D == Cardinality(Heap(Dues(n)))
           D2 == Cardinality(Heap(Dues(n)'))
           P == Plain(n)
           P2 == Plain(n)'
           T == Budget(n)
           T2 == Budget(n)'
           C == Cardinality(H)
           C2 == Cardinality(H2)
<1>1. P \in Nat /\ T \in Nat
  BY AccountType DEF Accounts
<1>2. P2 \in Nat /\ T2 \in Nat
  BY AccountTypeNext DEF Accounts
<1>3. D \in Nat /\ D2 \in Nat /\ C \in Nat /\ C2 \in Nat
  BY FS_CardinalityType DEF Balanced
<1>4. P + 2 * D + C <= T
  BY DEF Balanced
<1> HIDE DEF D, D2, P, P2, T, T2, C, C2
<1>5. D2 + x = D + y /\ P2 + 2 * y + C2 <= P + 2 * x + C + b /\ T2 = T + b
  BY DEF D, D2, P, P2, T, T2, C, C2
<1>6. P2 + 2 * D2 + C2 <= T2
  BY <1>1, <1>2, <1>3, <1>4, <1>5
<1> QED  BY <1>6 DEF D2, P2, T2, C2

\* A step of c, paid for by what c had kept, or what its weight loses.
LEMMA Pays ==
  ASSUME Typed, Typed', NEW n \in Ids, NEW c \in Callers, Apart(c, n),
         NEW X \in Levels, NEW B \in Levels, NEW X2 \in Levels, NEW B2 \in Levels,
         Balanced(n, Heap(Weight(X, B))), Covers(n, X2, B2)', IsFiniteSet(Heap(Weight(X2, B2))),
         NEW b \in Nat, Budget(n)' = Budget(n) + b,
         Plain(n)' + 2 * Due(c, On(c, n)') + Cardinality(Heap(Weight(X2, B2)))
           <= Plain(n) + 2 * Due(c, On(c, n)) + Cardinality(Heap(Weight(X, B))) + b
  PROVE  Solvent(n)'
<1> DEFINE H == Heap(Weight(X, B))
           H2 == Heap(Weight(X2, B2))
           x == Due(c, On(c, n))
           y == Due(c, On(c, n)')
<1>1. x \in Nat /\ y \in Nat
  BY WholeType
<1>2. IsFiniteSet(Heap(Dues(n)))
  BY DEF Balanced
<1>3. /\ IsFiniteSet(Heap(Dues(n)'))
      /\ Cardinality(Heap(Dues(n)')) + x = Cardinality(Heap(Dues(n))) + y
  BY <1>2, DuesMove
<1>4. /\ Balanced(n, H) /\ IsFiniteSet(H2)
      /\ Plain(n)' + 2 * y + Cardinality(H2) <= Plain(n) + 2 * x + Cardinality(H) + b
  OBVIOUS
<1> HIDE DEF H, H2, x, y
<1>5. /\ IsFiniteSet(H2) /\ IsFiniteSet(Heap(Dues(n)'))
      /\ Plain(n)' + 2 * Cardinality(Heap(Dues(n)')) + Cardinality(H2) <= Budget(n)'
  BY <1>1, <1>3, <1>4, Settles
<1>6. Balanced(n, Heap(Weight(X2, B2)))'
  BY <1>5 DEF Balanced, H2
<1> QED  BY <1>6 DEF Solvent

\* The same, when no weight changes.
LEMMA PaysItself ==
  ASSUME Typed, Typed', NEW n \in Ids, NEW c \in Callers, Apart(c, n),
         NEW X \in Levels, NEW B \in Levels,
         Balanced(n, Heap(Weight(X, B))), Covers(n, X, B)',
         NEW b \in Nat, Budget(n)' = Budget(n) + b,
         Plain(n)' + 2 * Due(c, On(c, n)') <= Plain(n) + 2 * Due(c, On(c, n)) + b
  PROVE  Solvent(n)'
<1>1. IsFiniteSet(Heap(Weight(X, B))) /\ Cardinality(Heap(Weight(X, B))) \in Nat
  BY FS_CardinalityType DEF Balanced
<1>2. /\ Due(c, On(c, n)) \in Nat /\ Due(c, On(c, n)') \in Nat
      /\ Plain(n) \in Nat /\ Plain(n)' \in Nat
  BY WholeType, AccountType, AccountTypeNext DEF Accounts
<1> DEFINE C == Cardinality(Heap(Weight(X, B)))
           x == Due(c, On(c, n))
           y == Due(c, On(c, n)')
           P == Plain(n)
           P2 == Plain(n)'
<1>3. P2 + 2 * y + C <= P + 2 * x + C + b
  <2>1. P2 + 2 * y <= P + 2 * x + b
    OBVIOUS
  <2>2. C \in Nat /\ x \in Nat /\ y \in Nat /\ P \in Nat /\ P2 \in Nat
    BY <1>1, <1>2
  <2> HIDE DEF C, x, y, P, P2
  <2> QED  BY <2>1, <2>2
<1> QED  BY <1>1, <1>3, Pays

\* Who is still where it was is covered by what is no less than before.
LEMMA Covering ==
  ASSUME NEW n \in Ids, Ranges,
         NEW X \in Levels, NEW B \in Levels, NEW X2 \in Levels, NEW B2 \in Levels,
         Covers(n, X, B),
         status'[n] = "failed" => \A s \in Retriers : X2[s] >= MaxAttempts - attempts'[n],
         \A s \in Retriers : \/ Still(s, n) /\ X2[s] >= X[s] /\ B2[s] >= B[s]
                             \/ CoveredFor(s, n, X2, B2)'
  PROVE  Covers(n, X2, B2)'
<1>1. ASSUME NEW s \in Retriers, Still(s, n), X2[s] >= X[s], B2[s] >= B[s]
      PROVE  CoveredFor(s, n, X2, B2)'
  <2>1. s \in Callers
    BY DEF Callers
  <2>2. X[s] \in Nat /\ B[s] \in Nat /\ X2[s] \in Nat /\ B2[s] \in Nat /\ MaxAttempts \in Nat
    BY LevelsOf, NotificationAssumption
  <2>3. CoveredFor(s, n, X, B)
    BY DEF Covers
  <2>4. ASSUME NEW m \in batch'[s], m.id = n PROVE X2[s] >= MaxAttempts - m.attempts
    <3>1. m \in batch[s]
      BY <1>1, <2>4 DEF Still
    <3>2. m.attempts \in 0..MaxAttempts /\ X[s] >= MaxAttempts - m.attempts
      BY <2>1, <2>3, <2>4, <3>1 DEF CoveredFor, Ranges
    <3> QED  BY <1>1, <2>2, <3>2
  <2>5. On(s, n)' = On(s, n) /\ (On(s, n) # "idle" => copy'[s].attempts = copy[s].attempts)
    BY <1>1 DEF Still
  <2>6. On(s, n) # "idle" => copy[s].attempts \in 0..MaxAttempts
    BY <2>1 DEF On, Ranges
  <2>7. On(s, n) = "count" => X2[s] >= MaxAttempts - copy'[s].attempts
    <3> HAVE On(s, n) = "count"
    <3>1. copy'[s].attempts \in 0..MaxAttempts /\ X[s] >= MaxAttempts - copy'[s].attempts
      BY <2>3, <2>5, <2>6 DEF CoveredFor
    <3> QED  BY <1>1, <2>2, <3>1
  <2>8. On(s, n) \in Busy => B2[s] >= MaxAttempts - copy'[s].attempts
    <3> HAVE On(s, n) \in Busy
    <3>1. copy'[s].attempts \in 0..MaxAttempts /\ B[s] >= MaxAttempts - copy'[s].attempts
      BY <2>3, <2>5, <2>6 DEF CoveredFor, Busy
    <3> QED  BY <1>1, <2>2, <3>1
  <2> QED  BY <2>4, <2>5, <2>7, <2>8 DEF CoveredFor
<1> QED  BY <1>1 DEF Covers

\* The same levels cover a notification of which no more has become a failure.
LEMMA CoveringStill ==
  ASSUME NEW n \in Ids, Ranges, NEW X \in Levels, NEW B \in Levels, Covers(n, X, B),
         status'[n] = "failed" => status[n] = "failed" /\ attempts'[n] = attempts[n],
         \A s \in Retriers : Still(s, n) \/ CoveredFor(s, n, X, B)'
  PROVE  Covers(n, X, B)'
<1>1. \A s \in Retriers : X[s] >= X[s] /\ B[s] >= B[s]
  BY LevelsOf
<1>2. status'[n] = "failed" => \A s \in Retriers : X[s] >= MaxAttempts - attempts'[n]
  BY DEF Covers
<1>3. \A s \in Retriers : \/ Still(s, n) /\ X[s] >= X[s] /\ B[s] >= B[s]
                          \/ CoveredFor(s, n, X, B)'
  BY <1>1
<1> QED  BY <1>2, <1>3, Covering

\* The pending round has no more to come to.
LEMMA FlagFalls ==
  ASSUME NEW n \in Ids, status'[n] = "pending" => status[n] = "pending",
         \A p \in Pending : (On(p, n)' = "mark" \/ Carries(p, n)')
            => On(p, n) = "mark" \/ Carries(p, n)
  PROVE  Flagged(n)' => Flagged(n)
BY DEF Flagged

\* As far as n is concerned nothing happens.
Unmoved(n) ==
    /\ status'[n] = status[n] /\ attempts'[n] = attempts[n] /\ tries'[n] = tries[n]
    /\ resends'[n] = resends[n]
    /\ \A d \in Callers : Still(d, n)

\* Who has no part in a step owes what he owed.
LEMMA UnmovedSolvent ==
  ASSUME Typed, Typed', Ranges, NEW n \in Ids, Solvent(n), Unmoved(n)
  PROVE  Solvent(n)'
<1>1. PICK X \in Levels, B \in Levels : Covers(n, X, B) /\ Balanced(n, Heap(Weight(X, B)))
  BY DEF Solvent
<1>2. Retriers \subseteq Callers /\ Pending \subseteq Callers
  BY DEF Callers
<1>3. Covers(n, X, B)'
  <2>1. \A s \in Retriers : Still(s, n)
    BY <1>2 DEF Unmoved
  <2> QED  BY <1>1, <2>1, CoveringStill DEF Unmoved
<1>4. Dues(n)' = Dues(n)
  BY DEF Unmoved, Still, Dues
<1>5. Budget(n)' = Budget(n) + 0 /\ Plain(n)' <= Plain(n)
  <2>1. Flagged(n)' => Flagged(n)
    <3>1. \A p \in Pending : (On(p, n)' = "mark" \/ Carries(p, n)')
              => On(p, n) = "mark" \/ Carries(p, n)
      BY <1>2 DEF Unmoved, Still, Carries
    <3> QED  BY <3>1, FlagFalls DEF Unmoved
  <2>2. Whole \in Nat /\ tries[n] \in Nat /\ Budget(n) \in Nat
    BY WholeType, AccountType DEF Accounts
  <2>3. Budget(n)' = Budget(n)
    BY DEF Unmoved, Budget
  <2> QED  BY <2>1, <2>2, <2>3 DEF Unmoved, Plain
<1>6. Balanced(n, Heap(Weight(X, B)))'
  <2> DEFINE D == Cardinality(Heap(Dues(n)))
             P == Plain(n)
             P2 == Plain(n)'
             T == Budget(n)
             C == Cardinality(Heap(Weight(X, B)))
  <2>1. IsFiniteSet(Heap(Weight(X, B))) /\ IsFiniteSet(Heap(Dues(n))) /\ P + 2 * D + C <= T
    BY <1>1 DEF Balanced
  <2>2. D \in Nat /\ C \in Nat /\ P \in Nat /\ T \in Nat /\ P2 \in Nat /\ P2 <= P /\ Budget(n)' = T
    BY <1>5, <2>1, FS_CardinalityType, AccountType, AccountTypeNext DEF Accounts
  <2>3. P2 + 2 * D + C <= T
    <3> HIDE DEF P2, D, P, C, T
    <3> QED  BY <2>1, <2>2
  <2> QED  BY <1>4, <2>1, <2>2, <2>3 DEF Balanced
<1> QED  BY <1>3, <1>6 DEF Solvent

\* A call at work moves itself and nobody else, and no other notification.
LEMMA WorksStill ==
  ASSUME Typed, NEW c \in Callers, Works(c), NEW n \in Ids
  PROVE  /\ copy[c].id \in Ids /\ pc[c] \in AtWork /\ copy[c] # NoCopy
         /\ batch' = batch /\ resends' = resends
         /\ n # copy[c].id => Unmoved(n)
         /\ n = copy[c].id =>
               /\ Apart(c, n) /\ On(c, n) = pc[c]
               /\ On(c, n)' = "idle" \/ (On(c, n)' = pc'[c] /\ copy'[c] # NoCopy)
<1>1. /\ copy[c].id \in Ids /\ copy[c] # NoCopy /\ pc[c] \in AtWork
      /\ batch' = batch
      /\ \A d \in Callers \ {c} : copy'[d] = copy[d] /\ pc'[d] = pc[d]
      /\ copy'[c] = NoCopy \/ copy'[c].id = copy[c].id
  BY WorksMoves
<1>2. /\ resends' = resends
      /\ n # copy[c].id =>
             status'[n] = status[n] /\ attempts'[n] = attempts[n] /\ tries'[n] = tries[n]
  BY WorksOnHeld
<1>3. \A d \in Callers \ {c} : Still(d, n)
  BY <1>1 DEF Still, On
<1>4. n # copy[c].id => Still(c, n)
  BY <1>1 DEF Still, On
<1>5. n = copy[c].id =>
         /\ On(c, n) = pc[c]
         /\ On(c, n)' = "idle" \/ (On(c, n)' = pc'[c] /\ copy'[c] # NoCopy)
  BY <1>1 DEF On
<1> QED  BY <1>1, <1>2, <1>3, <1>4, <1>5 DEF Unmoved, Apart

\* The account changes with what c keeps for itself, with the flag, and with what is sent.
LEMMA PlainMoves ==
  ASSUME Typed, NEW n \in Ids, status[n] # "none", status'[n] # "none", resends' = resends,
         NEW t \in Nat, tries'[n] = tries[n] + t
  PROVE  /\ Budget(n)' = Budget(n) + 0
         /\ (Flagged(n)' => Flagged(n)) => Plain(n)' <= Plain(n) + 2 * t
         /\ Flagged(n) /\ ~Flagged(n)' => Plain(n)' + 2 * Whole = Plain(n) + 2 * t
         /\ Plain(n)' <= Plain(n) + 2 * Whole + 2 * t
<1>1. Whole \in Nat /\ tries[n] \in Nat /\ Budget(n) \in Nat
  BY WholeType, AccountType DEF Accounts
<1> QED  BY <1>1 DEF Plain, Budget

\* A call that goes on without writing a failure or counting a retry.
Modest(c) ==
    \/ MarkProcessing(c) \/ Send(c) \/ RecordSent(c) \/ RecordError(c) \/ CancelNotification(c)
    \/ ResendNotification(c)
    \/ (RecordFailure(c) \/ CountAttempt(c) \/ Release(c)) /\ docs' = docs /\ Finish(c)

\* Such a call leaves no more to be read.
LEMMA ModestCovered ==
  ASSUME Typed, Ranges, Orderly, NEW c \in Callers, Works(c), Modest(c),
         NEW n \in Ids, n = copy[c].id,
         NEW X \in Levels, NEW B \in Levels, Covers(n, X, B)
  PROVE  Covers(n, X, B)'
<1> USE DEF Typed
<1>1. /\ On(c, n) = pc[c] /\ pc[c] \in AtWork /\ batch' = batch /\ copy[c] # NoCopy
      /\ On(c, n)' = "idle" \/ (On(c, n)' = pc'[c] /\ copy'[c] # NoCopy)
  BY WorksStill
<1>2. status'[n] = "failed" => status[n] = "failed" /\ attempts'[n] = attempts[n]
  <2>1. \/ docs' = docs
        \/ \E s \in {"processing", "sent", "cancelled", "pending"} : \E a :
              Update(n, s, a)
    BY DEF Modest, MarkProcessing, Send, RecordSent, RecordError, CancelNotification,
           ResendNotification, UpdateFails
  <2> QED  BY <1>1, <2>1 DEF Update, docs, Documents
<1>3. ASSUME c \in Retriers PROVE CoveredFor(c, n, X, B)'
  <2>1. CoveredFor(c, n, X, B)
    BY <1>3 DEF Covers
  <2>2. CASE On(c, n)' = "idle"
    BY <1>1, <2>1, <2>2 DEF CoveredFor, Busy
  <2>3. CASE On(c, n)' = pc'[c] /\ copy'[c] # NoCopy
    <3>1. /\ copy'[c] = copy[c] /\ pc[c] \in Busy /\ pc'[c] # "count"
      <4>1. pc[c] # "resend" /\ pc[c] # "cancel"
        BY <1>3, KindsOf DEF Orderly, Points
      <4>2. \/ Finish(c)
            \/ pc[c] = "mark" /\ Goto(c, "send", copy[c])
            \/ pc[c] = "send" /\ (Goto(c, "sent", copy[c]) \/ Goto(c, "error", copy[c]))
            \/ pc[c] = "error" /\ Goto(c, "failure", copy[c])
        BY <4>1 DEF Modest, MarkProcessing, Send, RecordSent, RecordError, CancelNotification,
                    ResendNotification
      <4> QED  BY <2>3, <4>2, GotoEffect, FinishEffect DEF Busy
    <3> QED  BY <1>1, <2>1, <2>3, <3>1 DEF CoveredFor
  <2> QED  BY <1>1, <2>2, <2>3
<1>4. \A s \in Retriers : Still(s, n) \/ CoveredFor(s, n, X, B)'
  <2>1. Apart(c, n) /\ Retriers \subseteq Callers
    BY WorksStill DEF Callers
  <2> QED  BY <1>3, <2>1 DEF Apart
<1> QED  BY <1>2, <1>4, CoveringStill

\* A step of a call at work, from what it had kept for itself.
LEMMA ModestPays ==
  ASSUME Typed, Typed', Ranges, Orderly, NEW c \in Callers, Works(c), Modest(c),
         NEW n \in Ids, n = copy[c].id, Solvent(n), Budget(n)' = Budget(n) + 0,
         Plain(n)' + 2 * Due(c, On(c, n)') <= Plain(n) + 2 * Due(c, On(c, n))
  PROVE  Solvent(n)'
<1>1. PICK X \in Levels, B \in Levels : Covers(n, X, B) /\ Balanced(n, Heap(Weight(X, B)))
  BY DEF Solvent
<1>2. Covers(n, X, B)' /\ Apart(c, n)
  BY <1>1, ModestCovered, WorksStill
<1>3. Plain(n)' + 2 * Due(c, On(c, n)') <= Plain(n) + 2 * Due(c, On(c, n)) + 0
  BY WholeType, AccountType DEF Accounts
<1>4. 0 \in Nat
  OBVIOUS
<1> QED  BY <1>1, <1>2, <1>3, <1>4, PaysItself

\* No call at work but a resend makes the pending round come to a notification.
LEMMA WorksFlag ==
  ASSUME Typed, Orderly, NEW c \in Callers, Works(c), NEW n \in Ids, n = copy[c].id,
         status'[n] = "pending" => status[n] = "pending", On(c, n)' # "mark" \/ c \notin Pending
  PROVE  Flagged(n)' => Flagged(n)
<1>1. Apart(c, n) /\ batch' = batch /\ Pending \subseteq Callers
  BY WorksStill DEF Callers
<1>2. \A p \in Pending : (On(p, n)' = "mark" \/ Carries(p, n)')
        => On(p, n) = "mark" \/ Carries(p, n)
  BY <1>1 DEF Apart, Still, Carries
<1> QED  BY <1>2, FlagFalls

\* And it pays from what it had kept for itself.
LEMMA ModestSolvent ==
  ASSUME Typed, Typed', Ranges, Orderly, UnsentInv, NEW c \in Callers, Works(c), Modest(c),
         NEW n \in Ids, n = copy[c].id, Solvent(n)
  PROVE  Solvent(n)'
<1> USE DEF Typed
<1>1. /\ On(c, n) = pc[c] /\ pc[c] \in AtWork /\ batch' = batch /\ copy[c] # NoCopy
      /\ resends' = resends /\ Apart(c, n)
      /\ On(c, n)' = "idle" \/ (On(c, n)' = pc'[c] /\ copy'[c] # NoCopy)
  BY WorksStill
<1>2. status[n] # "none"
  BY WorksOnHeld DEF UnsentInv, Untouched
<1>3. /\ Whole \in Nat \ {0} /\ Plain(n) \in Nat /\ Plain(n)' \in Nat
      /\ Due(c, On(c, n)) \in Nat /\ Due(c, On(c, n)') \in Nat
  BY WholeType, AccountType, AccountTypeNext DEF Accounts
<1>4. Points /\ Due(c, "idle") = 0
  BY DEF Orderly, Due
<1> DEFINE P == Plain(n)
           P2 == Plain(n)'
           x == Due(c, On(c, n))
           y == Due(c, On(c, n)')
<1>5. ASSUME tries' = tries, status'[n] # "none",
             status'[n] = "pending" => status[n] = "pending", On(c, n)' # "mark", y <= x
      PROVE  Solvent(n)'
  <2>1. /\ Budget(n)' = Budget(n) + 0
        /\ (Flagged(n)' => Flagged(n)) => P2 <= P + 2 * 0
    <3>1. tries'[n] = tries[n] + 0
      BY <1>5 DEF Documents
    <3> QED  BY <1>1, <1>2, <1>5, <3>1, PlainMoves
  <2>2. P2 <= P
    BY <1>3, <1>5, <2>1, WorksFlag
  <2>3. P2 + 2 * y <= P + 2 * x
    <3> HIDE DEF P, P2, x, y
    <3> QED  BY <1>3, <1>5, <2>2 DEF P, P2, x, y
  <2> QED  BY <2>1, <2>3, ModestPays
<1>6. CASE MarkProcessing(c)
  <2>1. pc[c] = "mark" /\ tries' = tries /\ status'[n] # "none"
        /\ (status'[n] = "pending" => status[n] = "pending")
    BY <1>2, <1>6 DEF MarkProcessing, UpdateFails, Update, docs, history, Documents
  <2>2. CASE On(c, n)' = "idle"
    BY <1>3, <1>4, <1>5, <2>1, <2>2
  <2>3. CASE On(c, n)' # "idle"
    <3>1. Goto(c, "send", copy[c]) /\ status'[n] = "processing"
      <4>1. ~Finish(c)
        BY <1>1, <2>3, FinishEffect DEF AtWork, On
      <4> QED  BY <1>6, <4>1 DEF MarkProcessing, Update, Documents
    <3>2. On(c, n)' = "send"
      BY <1>1, <2>3, <3>1, GotoEffect
    <3>3. CASE c \in Users \/ c \in Retriers
      <4>1. y = x
        BY <1>1, <2>1, <3>2, <3>3, KindsOf DEF Due
      <4> QED  BY <1>3, <1>5, <2>1, <3>2, <4>1
    <3>4. CASE c \in Pending
      <4>1. x = 0 /\ y = Whole
        BY <1>1, <2>1, <3>2, <3>4, KindsOf DEF Due
      <4>2. Flagged(n)
        BY <1>1, <2>1, <3>4 DEF Flagged
      <4>3. ~Flagged(n)'
        <5>1. \A p \in Pending : p \in Callers
          BY DEF Callers
        <5>2. \A p \in Pending \ {c} : pc[p] = "idle"
          BY <2>1, <3>4 DEF Orderly, Alone
        <5>3. \A p \in Pending \ {c} : copy[p] = NoCopy /\ batch[p] = {}
          BY <5>1, <5>2 DEF Hands, AtWork, Orderly, Tidy
        <5>4. \A p \in Pending \ {c} : On(p, n)' # "mark" /\ ~Carries(p, n)'
          BY <1>1, <5>1, <5>3 DEF Apart, Still, On, Carries
        <5>5. On(c, n)' # "mark" /\ ~Carries(c, n)'
          BY <1>1, <3>2 DEF Carries, Orderly, Tidy
        <5> QED  BY <3>1, <5>4, <5>5 DEF Flagged
      <4>4. Budget(n)' = Budget(n) + 0 /\ P2 + 2 * Whole = P + 2 * 0
        <5>1. tries'[n] = tries[n] + 0
          BY <2>1 DEF Documents
        <5> QED  BY <1>1, <1>2, <2>1, <4>2, <4>3, <5>1, PlainMoves
      <4>5. P2 + 2 * y <= P + 2 * x
        <5> HIDE DEF P, P2, x, y
        <5> QED  BY <1>3, <4>1, <4>4 DEF P, P2
      <4> QED  BY <4>4, <4>5, ModestPays
    <3> QED  BY <1>4, <2>1, <3>3, <3>4, KindsOf DEF Points
  <2> QED  BY <2>2, <2>3
<1>7. CASE Send(c)
  <2>1. /\ pc[c] = "send" /\ tries'[n] = tries[n] + 1 /\ status' = status
        /\ On(c, n)' \in {"sent", "error"}
    <3>1. Goto(c, "sent", copy[c]) \/ Goto(c, "error", copy[c])
      BY <1>7 DEF Send
    <3>2. copy'[c] = copy[c] /\ pc'[c] \in {"sent", "error"}
      BY <3>1, GotoEffect
    <3> QED  BY <1>1, <1>7, <3>2 DEF Send, docs, Documents, On
  <2>2. y + 1 <= x
    BY <1>1, <1>3, <2>1 DEF Due
  <2>3. Budget(n)' = Budget(n) + 0 /\ P2 <= P + 2 * 1
    <3>1. Flagged(n)' => Flagged(n)
      BY <2>1, WorksFlag
    <3> QED  BY <1>1, <1>2, <2>1, <3>1, PlainMoves
  <2>4. P2 + 2 * y <= P + 2 * x
    <3> HIDE DEF P, P2, x, y
    <3> QED  BY <1>3, <2>2, <2>3 DEF P, P2, x, y
  <2> QED  BY <2>3, <2>4, ModestPays
<1>8. CASE RecordError(c)
  <2>1. /\ pc[c] = "error" /\ tries' = tries /\ status'[n] # "none"
        /\ (status'[n] = "pending" => status[n] = "pending")
    BY <1>2, <1>8 DEF RecordError, UpdateFails, Update, docs, history, Documents
  <2>2. On(c, n)' = "failure"
    BY <1>1, <1>8, GotoEffect DEF RecordError, On
  <2>3. y = x
    BY <1>1, <2>1, <2>2 DEF Due
  <2> QED  BY <1>3, <1>5, <2>1, <2>2, <2>3
<1>9. CASE RecordSent(c) \/ CancelNotification(c)
           \/ ((RecordFailure(c) \/ CountAttempt(c) \/ Release(c)) /\ docs' = docs /\ Finish(c))
  <2>1. /\ Finish(c) /\ tries' = tries /\ status'[n] # "none"
        /\ (status'[n] = "pending" => status[n] = "pending")
    BY <1>2, <1>9 DEF RecordSent, CancelNotification, RecordFailure, CountAttempt, Release,
                      UpdateFails, Update, docs, history, Documents
  <2>2. On(c, n)' = "idle"
    BY <2>1, FinishEffect DEF On
  <2> QED  BY <1>3, <1>4, <1>5, <2>1, <2>2
<1>10. CASE ResendNotification(c)
  <2>1. pc[c] = "resend" /\ tries' = tries /\ status'[n] # "none"
    BY <1>2, <1>10 DEF ResendNotification, UpdateFails, Update, docs, history, Documents
  <2>2. c \in Users /\ x = 2 * Whole
    BY <1>1, <1>4, <2>1, KindsOf DEF Points, Due
  <2>3. Finish(c) \/ Goto(c, "mark", Copy(n, 0))
    BY <1>10 DEF ResendNotification
  <2>4. On(c, n)' = "idle" \/ On(c, n)' = "mark"
    BY <2>3, FinishEffect, GotoEffect DEF On
  <2>5. y = 0 \/ y = Whole
    BY <1>4, <2>2, <2>4, KindsOf DEF Due
  <2>6. Budget(n)' = Budget(n) + 0 /\ P2 <= P + 2 * Whole + 2 * 0
    <3>1. tries'[n] = tries[n] + 0
      BY <2>1 DEF Documents
    <3> QED  BY <1>1, <1>2, <2>1, <3>1, PlainMoves
  <2>7. P2 + 2 * y <= P + 2 * x
    <3> HIDE DEF P, P2, x, y
    <3> QED  BY <1>3, <2>2, <2>5, <2>6 DEF P, P2
  <2> QED  BY <2>6, <2>7, ModestPays
<1> QED  BY <1>6, <1>7, <1>8, <1>9, <1>10 DEF Modest

\* What a stored failure leaves behind.
LEMMA FailureStored ==
  ASSUME Typed, Ranges, NEW n \in Ids, NEW a \in 0..MaxAttempts, Update(n, "failed", a)
  PROVE  status'[n] = "failed" /\ attempts'[n] = a
BY DEF Typed, Documents, Update

\* A request or the pending round fails for good: the retries may take the notification up.
LEMMA FirstFailureSolvent ==
  ASSUME Typed, Typed', Ranges, Orderly, UnsentInv, NEW c \in Callers, Works(c),
         c \notin Retriers, NEW n \in Ids, n = copy[c].id, Solvent(n),
         RecordFailure(c), NEW a \in 0..MaxAttempts, Update(n, "failed", a)
  PROVE  Solvent(n)'
<1> USE DEF Typed
<1>1. PICK X \in Levels, B \in Levels : Covers(n, X, B) /\ Balanced(n, Heap(Weight(X, B)))
  BY DEF Solvent
<1>2. /\ On(c, n) = pc[c] /\ batch' = batch /\ copy[c] # NoCopy /\ resends' = resends
      /\ Apart(c, n)
  BY WorksStill
<1>3. status'[n] = "failed" /\ attempts'[n] = a /\ status[n] # "none" /\ tries' = tries
  BY FailureStored, WorksOnHeld DEF UnsentInv, Untouched, RecordFailure, history
<1>4. pc[c] = "failure" /\ On(c, n)' = "idle"
  BY FinishEffect DEF RecordFailure, On
<1>5. /\ Due(c, On(c, n)) = Whole - 1 /\ Due(c, On(c, n)') = 0
  BY <1>2, <1>4 DEF Due
<1> DEFINE X2 == [s \in Retriers |-> MaxAttempts]
<1>6. X2 \in Levels /\ MaxAttempts \in Nat
  BY NotificationAssumption DEF Levels
<1>7. IsFiniteSet(Heap(Weight(X, B)))
  BY <1>1 DEF Balanced
<1>8. /\ IsFiniteSet(Heap(Weight(X2, B)))
      /\ Cardinality(Heap(Weight(X2, B)))
              <= Cardinality(Heap(Weight(X, B))) + 2 * (R * Sends[MaxAttempts])
  BY <1>6, <1>7, FailingOnce
<1>9. Covers(n, X2, B)'
  <2>1. \A s \in Retriers : X2[s] >= X[s] /\ B[s] >= B[s]
    BY <1>6, LevelsOf DEF Levels
  <2>2. \A s \in Retriers : X2[s] >= MaxAttempts - attempts'[n]
    BY <1>3, <1>6
  <2>3. \A s \in Retriers : Still(s, n)
    BY <1>2, KindsOf DEF Apart
  <2> HIDE DEF X2
  <2> QED  BY <1>1, <1>6, <2>1, <2>2, <2>3, Covering
<1>10. Budget(n)' = Budget(n) + 0 /\ Plain(n)' <= Plain(n) + 2 * 0
  <2>1. tries'[n] = tries[n] + 0
    BY <1>3 DEF Documents
  <2>2. Flagged(n)' => Flagged(n)
    BY <1>3, <1>4, WorksFlag
  <2> QED  BY <1>2, <1>3, <2>1, <2>2, PlainMoves
<1> DEFINE P == Plain(n)
           P2 == Plain(n)'
           C == Cardinality(Heap(Weight(X, B)))
           C2 == Cardinality(Heap(Weight(X2, B)))
           x == Due(c, On(c, n))
           y == Due(c, On(c, n)')
           z == R * Sends[MaxAttempts]
<1>11. P2 + 2 * y + C2 <= P + 2 * x + C + 0
  <2>1. P \in Nat /\ P2 \in Nat /\ C \in Nat /\ C2 \in Nat /\ z \in Nat /\ Whole = 1 + z
    BY <1>7, <1>8, FS_CardinalityType, WholeType, AccountType, AccountTypeNext DEF Accounts
  <2>2. C2 <= C + 2 * z /\ x = Whole - 1 /\ y = 0 /\ P2 <= P + 2 * 0
    BY <1>5, <1>8, <1>10
  <2> HIDE DEF P, P2, C, C2, x, y, z
  <2> QED  BY <2>1, <2>2
<1> HIDE DEF X2
<1>12. 0 \in Nat
  OBVIOUS
<1> QED  BY <1>1, <1>2, <1>6, <1>8, <1>9, <1>10, <1>11, <1>12, Pays

\* A retry fails: all retries may take the notification up with what it had left.
LEMMA RetryFailureSolvent ==
  ASSUME Typed, Typed', Ranges, Orderly, UnsentInv, NEW c \in Retriers, Works(c),
         NEW n \in Ids, n = copy[c].id, Solvent(n),
         RecordFailure(c), NEW a \in 0..MaxAttempts, copy[c].attempts <= a, Update(n, "failed", a)
  PROVE  Solvent(n)'
<1> USE DEF Typed
<1>0. c \in Callers
  BY DEF Callers
<1>1. PICK X \in Levels, B \in Levels : Covers(n, X, B) /\ Balanced(n, Heap(Weight(X, B)))
  BY DEF Solvent
<1>2. /\ On(c, n) = pc[c] /\ batch' = batch /\ copy[c] # NoCopy /\ resends' = resends
      /\ Apart(c, n)
  BY <1>0, WorksStill
<1>3. status'[n] = "failed" /\ attempts'[n] = a /\ status[n] # "none" /\ tries' = tries
  BY <1>0, FailureStored, WorksOnHeld DEF UnsentInv, Untouched, RecordFailure, history
<1>4. pc[c] = "failure" /\ On(c, n)' = "idle"
  BY <1>0, FinishEffect DEF RecordFailure, On
<1>5. Due(c, On(c, n)) = 0 /\ Due(c, On(c, n)') = 0
  BY <1>2, <1>4 DEF Due
<1>6. copy[c].attempts \in 0..MaxAttempts /\ MaxAttempts \in Nat
  BY <1>0, <1>2, NotificationAssumption DEF Ranges
<1>7. \A m \in batch[c] : m.id # n
  BY <1>0, <1>2 DEF Orderly, Tidy
    \* What c itself might read is overwritten: its copy it has in its hands already.
<1> DEFINE X1 == [X EXCEPT ![c] = 0]
           X2 == [s \in Retriers |-> Larger(X1[s], B[c])]
           B2 == [B EXCEPT ![c] = 0]
<1>8. \A s \in Retriers : X[s] \in 0..MaxAttempts /\ B[s] \in 0..MaxAttempts
  BY DEF Levels
<1>9. /\ X1 \in Levels /\ B2 \in Levels /\ X1[c] = 0 /\ B2[c] = 0
      /\ \A s \in Retriers : X1[s] \in 0..MaxAttempts /\ X1[s] <= X[s] /\ X1[c] <= X1[s]
      /\ \A s \in Retriers \ {c} : X1[s] = X[s] /\ B2[s] = B[s]
  BY <1>6, <1>8 DEF Levels
<1> HIDE DEF X1
<1>10. X2 \in Levels /\ \A s \in Retriers : X2[s] >= X1[s] /\ X2[s] >= B[c]
  BY <1>8, <1>9 DEF Levels, Larger
<1> HIDE DEF B2
<1>11. IsFiniteSet(Heap(Weight(X, B)))
  BY <1>1 DEF Balanced
<1>12. /\ IsFiniteSet(Heap(Weight(X1, B)))
       /\ Cardinality(Heap(Weight(X1, B))) <= Cardinality(Heap(Weight(X, B)))
  <2>1. \A s \in Retriers : X1[s] <= X[s] /\ B[s] <= B[s]
    BY <1>8, <1>9
  <2> QED  BY <1>9, <1>11, <2>1, Lighter
<1>13. /\ IsFiniteSet(Heap(Weight(X2, B2)))
       /\ Cardinality(Heap(Weight(X2, B2))) <= Cardinality(Heap(Weight(X1, B)))
  <2>1. X2 = [s \in Retriers |-> Larger(X1[s], B[c])] /\ B2 = [B EXCEPT ![c] = 0]
    BY DEF B2
  <2> HIDE DEF X2
  <2> QED  BY <1>9, <1>10, <1>12, <2>1, Failing
<1> HIDE DEF X2
<1>14. B[c] >= MaxAttempts - copy[c].attempts
  BY <1>1, <1>2, <1>4 DEF Covers, CoveredFor, Busy
<1>15. Covers(n, X2, B2)'
  <2>1. \A s \in Retriers : X2[s] >= MaxAttempts - attempts'[n]
    <3> TAKE s \in Retriers
    <3>1. X2[s] \in 0..MaxAttempts /\ X2[s] >= B[c] /\ B[c] \in 0..MaxAttempts
      BY <1>8, <1>10 DEF Levels
    <3> QED  BY <1>3, <1>6, <1>14, <3>1
  <2>2. CoveredFor(c, n, X2, B2)'
    BY <1>2, <1>4, <1>7 DEF CoveredFor, Busy
  <2>3. ASSUME NEW s \in Retriers \ {c}
        PROVE  Still(s, n) /\ X2[s] >= X[s] /\ B2[s] >= B[s]
    <3>1. s \in Callers \ {c} /\ s \in Retriers
      BY DEF Callers
    <3> QED  BY <1>2, <1>8, <1>9, <1>10, <3>1 DEF Apart
  <2>4. \A s \in Retriers : \/ Still(s, n) /\ X2[s] >= X[s] /\ B2[s] >= B[s]
                            \/ CoveredFor(s, n, X2, B2)'
    BY <2>2, <2>3
  <2> QED  BY <1>1, <1>9, <1>10, <2>1, <2>4, Covering
<1>16. Budget(n)' = Budget(n) + 0 /\ Plain(n)' <= Plain(n) + 2 * 0
  <2>1. tries'[n] = tries[n] + 0
    BY <1>3 DEF Documents
  <2>2. Flagged(n)' => Flagged(n)
    BY <1>0, <1>3, <1>4, WorksFlag
  <2> QED  BY <1>2, <1>3, <2>1, <2>2, PlainMoves
<1> DEFINE P == Plain(n)
           P2 == Plain(n)'
           C == Cardinality(Heap(Weight(X, B)))
           C1 == Cardinality(Heap(Weight(X1, B)))
           C2 == Cardinality(Heap(Weight(X2, B2)))
           x == Due(c, On(c, n))
           y == Due(c, On(c, n)')
<1>17. P2 + 2 * y + C2 <= P + 2 * x + C + 0
  <2>1. P \in Nat /\ P2 \in Nat /\ C \in Nat /\ C1 \in Nat /\ C2 \in Nat
    BY <1>11, <1>12, <1>13, FS_CardinalityType, AccountType, AccountTypeNext DEF Accounts
  <2>2. C2 <= C1 /\ C1 <= C /\ x = 0 /\ y = 0 /\ P2 <= P + 2 * 0
    BY <1>5, <1>12, <1>13, <1>16
  <2> HIDE DEF P, P2, C, C1, C2, x, y
  <2> QED  BY <2>1, <2>2
<1>18. 0 \in Nat
  OBVIOUS
<1> QED  BY <1>0, <1>1, <1>2, <1>9, <1>10, <1>13, <1>15, <1>16, <1>17, <1>18, Pays

\* A retry is counted, and the document says so: what it may read loses an attempt.
LEMMA CountSolvent ==
  ASSUME Typed, Typed', Ranges, Orderly, UnsentInv, NEW c \in Retriers, Works(c),
         NEW n \in Ids, n = copy[c].id, Solvent(n),
         CountAttempt(c), Update(n, "failed", copy[c].attempts + 1)
  PROVE  Solvent(n)'
<1> USE DEF Typed
<1>0. c \in Callers
  BY DEF Callers
<1>1. PICK X \in Levels, B \in Levels : Covers(n, X, B) /\ Balanced(n, Heap(Weight(X, B)))
  BY DEF Solvent
<1>2. /\ On(c, n) = pc[c] /\ batch' = batch /\ copy[c] # NoCopy /\ resends' = resends
      /\ Apart(c, n)
      /\ On(c, n)' = "idle" \/ (On(c, n)' = pc'[c] /\ copy'[c] # NoCopy)
  BY <1>0, WorksStill
<1>3. pc[c] = "count" /\ tries' = tries
  BY DEF CountAttempt, history
<1>4. /\ copy[c].attempts \in 0..MaxAttempts /\ copy[c].attempts < MaxAttempts
      /\ MaxAttempts \in Nat
  BY <1>0, <1>2, <1>3, NotificationAssumption DEF Ranges
<1>5. /\ status'[n] = "failed" /\ attempts'[n] = copy[c].attempts + 1 /\ status[n] # "none"
  <2>1. copy[c].attempts + 1 \in 0..MaxAttempts
    BY <1>4
  <2> QED  BY <1>0, <2>1, FailureStored, WorksOnHeld DEF UnsentInv, Untouched
<1>6. \A m \in batch[c] : m.id # n
  BY <1>0, <1>2 DEF Orderly, Tidy
<1>7. \/ On(c, n)' = "idle"
      \/ On(c, n)' = "mark" /\ copy'[c].attempts = copy[c].attempts + 1
  <2>1. Finish(c) \/ Goto(c, "mark", Copy(n, copy[c].attempts + 1))
    BY DEF CountAttempt
  <2>2. Copy(n, copy[c].attempts + 1).attempts = copy[c].attempts + 1
    BY DEF Copy
  <2> QED  BY <1>0, <1>2, <2>1, <2>2, FinishEffect, GotoEffect DEF On
<1>8. X[c] >= MaxAttempts - copy[c].attempts
  BY <1>1, <1>2, <1>3 DEF Covers, CoveredFor
<1>9. \A s \in Retriers : X[s] \in 0..MaxAttempts /\ B[s] \in 0..MaxAttempts
  BY DEF Levels
<1> DEFINE k == X[c] - 1
           X2 == Counted(X, c, k)
           B2 == [B EXCEPT ![c] = k]
<1>10. k \in 0..MaxAttempts /\ X[c] = k + 1 /\ k >= MaxAttempts - (copy[c].attempts + 1)
  BY <1>4, <1>8, <1>9
<1> HIDE DEF k
<1>11. /\ X2 \in Levels /\ B2 \in Levels
       /\ \A s \in Retriers : X2[s] \in 0..MaxAttempts /\ X2[s] >= k
       /\ \A s \in Retriers \ {c} : X2[s] >= X[s] /\ B2[s] = B[s]
       /\ B2[c] = k
  BY <1>9, <1>10 DEF Levels, Larger, Counted
<1>12. IsFiniteSet(Heap(Weight(X, B)))
  BY <1>1 DEF Balanced
<1>13. /\ IsFiniteSet(Heap(Weight(X2, B2)))
       /\ Cardinality(Heap(Weight(X2, B2))) + 2 <= Cardinality(Heap(Weight(X, B)))
  <2>1. /\ X2 = Counted(X, c, k)
        /\ B2 = [B EXCEPT ![c] = k] /\ k \in Nat
    BY <1>10
  <2> HIDE DEF X2, B2
  <2> QED  BY <1>10, <1>11, <1>12, <2>1, Counting
<1> HIDE DEF X2, B2
<1>14. Covers(n, X2, B2)'
  <2>1. \A s \in Retriers : X2[s] >= MaxAttempts - attempts'[n]
    <3> TAKE s \in Retriers
    <3>1. X2[s] \in 0..MaxAttempts /\ X2[s] >= k
      BY <1>11
    <3> QED  BY <1>4, <1>5, <1>10, <3>1
  <2>2. CoveredFor(c, n, X2, B2)'
    <3>1. \A m \in batch'[c] : m.id # n
      BY <1>2, <1>6
    <3>2. On(c, n)' # "count"
      BY <1>7
    <3>3. On(c, n)' \in Busy => B2[c] >= MaxAttempts - copy'[c].attempts
      BY <1>7, <1>10, <1>11 DEF Busy
    <3> QED  BY <3>1, <3>2, <3>3 DEF CoveredFor
  <2>3. ASSUME NEW s \in Retriers \ {c}
        PROVE  Still(s, n) /\ X2[s] >= X[s] /\ B2[s] >= B[s]
    <3>1. s \in Callers \ {c} /\ s \in Retriers
      BY DEF Callers
    <3> QED  BY <1>2, <1>9, <1>11, <3>1 DEF Apart
  <2>4. \A s \in Retriers : \/ Still(s, n) /\ X2[s] >= X[s] /\ B2[s] >= B[s]
                            \/ CoveredFor(s, n, X2, B2)'
    BY <2>2, <2>3
  <2> QED  BY <1>1, <1>11, <2>1, <2>4, Covering
<1>15. Due(c, On(c, n)) = 0 /\ (Due(c, On(c, n)') = 0 \/ Due(c, On(c, n)') = 1)
  BY <1>2, <1>3 DEF Due
<1>16. Budget(n)' = Budget(n) + 0 /\ Plain(n)' <= Plain(n) + 2 * 0
  <2>1. tries'[n] = tries[n] + 0
    BY <1>3 DEF Documents
  <2>2. c \notin Pending
    BY KindsOf
  <2>3. Flagged(n)' => Flagged(n)
    BY <1>0, <1>5, <2>2, WorksFlag
  <2> QED  BY <1>2, <1>5, <2>1, <2>3, PlainMoves
<1> DEFINE P == Plain(n)
           P2 == Plain(n)'
           C == Cardinality(Heap(Weight(X, B)))
           C2 == Cardinality(Heap(Weight(X2, B2)))
           x == Due(c, On(c, n))
           y == Due(c, On(c, n)')
<1>17. P2 + 2 * y + C2 <= P + 2 * x + C + 0
  <2>1. P \in Nat /\ P2 \in Nat /\ C \in Nat /\ C2 \in Nat
    BY <1>12, <1>13, FS_CardinalityType, AccountType, AccountTypeNext DEF Accounts
  <2>2. C2 + 2 <= C /\ x = 0 /\ (y = 0 \/ y = 1) /\ P2 <= P + 2 * 0
    BY <1>13, <1>15, <1>16
  <2> HIDE DEF P, P2, C, C2, x, y
  <2> QED  BY <2>1, <2>2
<1>18. 0 \in Nat
  OBVIOUS
<1> QED  BY <1>0, <1>1, <1>2, <1>11, <1>13, <1>14, <1>16, <1>17, <1>18, Pays

\* A call at work pays for all it does.
LEMMA WorksSolvent ==
  ASSUME Typed, Typed', Ranges, Orderly, UnsentInv, NEW c \in Callers, Works(c),
         NEW n \in Ids, Solvent(n)
  PROVE  Solvent(n)'
<1> USE DEF Typed
<1>1. CASE n # copy[c].id
  BY <1>1, WorksStill, UnmovedSolvent
<1>2. CASE n = copy[c].id
  <2>1. copy[c] # NoCopy /\ Points
    BY WorksStill DEF Orderly
  <2>2. CASE Modest(c)
    BY <1>2, <2>2, ModestSolvent
  <2>3. CASE RecordFailure(c) /\ ~Modest(c)
    <3>1. PICK a \in {copy[c].attempts, copy[c].attempts + 1} :
             a <= MaxAttempts /\ UpdateFails(copy[c].id, "failed", a)
      BY <2>3 DEF RecordFailure
    <3>2. a \in 0..MaxAttempts /\ copy[c].attempts <= a
      BY <2>1, <3>1, NotificationAssumption DEF Ranges
    <3>3. Update(n, "failed", a)
      BY <1>2, <2>3, <3>1 DEF Modest, UpdateFails, RecordFailure
    <3>4. CASE c \in Retriers
      BY <1>2, <2>3, <3>2, <3>3, <3>4, RetryFailureSolvent
    <3>5. CASE c \notin Retriers
      BY <1>2, <2>3, <3>2, <3>3, <3>5, FirstFailureSolvent
    <3> QED  BY <3>4, <3>5
  <2>4. CASE CountAttempt(c) /\ ~Modest(c)
    <3>1. c \in Retriers
      BY <2>1, <2>4 DEF Points, CountAttempt
    <3>2. Update(n, "failed", copy[c].attempts + 1)
      BY <1>2, <2>4 DEF Modest, UpdateFails, CountAttempt
    <3> QED  BY <1>2, <2>4, <3>1, <3>2, CountSolvent
  <2>5. CASE Release(c) /\ ~Modest(c)
    <3>1. c \in Schedulers /\ HeldBy(c, n)
      BY <1>2, <2>1, <2>5 DEF Points, Release, HeldBy
    <3>2. when[n] = "past"
      BY <3>1 DEF Orderly, Late
    <3> QED  BY <1>2, <2>5, <3>2 DEF Modest, UpdateFails, Update, Accepted, Release
  <2> QED  BY <2>2, <2>3, <2>4, <2>5 DEF Works, SendNow, Modest
<1> QED  BY <1>1, <1>2

\* A notification that does not exist yet is in nobody's hands.
LEMMA NobodyHolds ==
  ASSUME Typed, UnsentInv, NEW n \in Ids, status[n] = "none"
  PROVE  \A d \in Callers : On(d, n) = "idle" /\ ~Carries(d, n)
BY DEF UnsentInv, Untouched, Held, On, Carries

\* A new notification has its budget; SendEmail keeps part of it, the pending round the other.
LEMMA SendEmailSolvent ==
  ASSUME Typed, Typed', Ranges, Orderly, UnsentInv, NEW c \in Users, NEW i \in Ids,
         SendEmail(c, i), NEW n \in Ids, Solvent(n)
  PROVE  Solvent(n)'
<1> USE DEF Typed
<1>0. c \in Callers /\ c \notin Pending /\ c \notin Retriers
  BY KindsOf
<1>1. /\ pc[c] = "idle" /\ copy[c] = NoCopy /\ batch' = batch /\ attempts' = attempts
      /\ tries' = tries /\ resends' = resends
  BY <1>0 DEF SendEmail, Hands, AtWork, history
<1>2. Goto(c, "mark", Copy(i, 0)) \/ UNCHANGED <<pc, copy>>
  BY DEF SendEmail
<1>3. \A d \in Callers \ {c} : pc'[d] = pc[d] /\ copy'[d] = copy[d]
  BY <1>0, <1>2, GotoEffect
<1>4. Copy(i, 0) # NoCopy /\ Copy(i, 0).id = i
  BY NotificationAssumption DEF Copy
<1>5. CASE n # i
  <2>1. On(c, n) = "idle" /\ On(c, n)' = "idle"
    BY <1>0, <1>1, <1>2, <1>4, <1>5, GotoEffect DEF On
  <2>2. \A d \in Callers : Still(d, n)
    BY <1>1, <1>3, <2>1 DEF Still, On
  <2>3. status'[n] = status[n]
    BY <1>5 DEF SendEmail, Documents
  <2> QED  BY <1>1, <2>2, <2>3, UnmovedSolvent DEF Unmoved
<1>6. CASE n = i
  <2>1. status[n] = "none" /\ status'[n] \in {"pending", "scheduled"}
    BY <1>6 DEF SendEmail, Documents
  <2>2. PICK X \in Levels, B \in Levels : Covers(n, X, B) /\ Balanced(n, Heap(Weight(X, B)))
    BY DEF Solvent
  <2>3. Apart(c, n)
    BY <1>1, <1>3 DEF Apart, Still, On
  <2>4. Covers(n, X, B)'
    <3>1. \A s \in Retriers : Still(s, n)
      BY <1>0, <2>3, KindsOf DEF Apart
    <3> QED  BY <2>1, <2>2, <3>1, CoveringStill
  <2>5. On(c, n) = "idle" /\ (On(c, n)' = "idle" \/ On(c, n)' = "mark")
    BY <1>0, <1>1, <1>2, <1>6, GotoEffect DEF On
  <2>6. /\ Whole \in Nat \ {0} /\ tries[n] \in Nat /\ Budget(n) \in Nat
    BY WholeType, AccountType DEF Accounts
  <2>7. Due(c, On(c, n)) = 0 /\ (Due(c, On(c, n)') = 0 \/ Due(c, On(c, n)') = Whole)
    BY <1>0, <2>5 DEF Due
  <2>8. ~Flagged(n)
    BY <2>1, NobodyHolds DEF Flagged, Callers
  <2>9. Plain(n) = 2 * tries[n] + 4 * Whole /\ Plain(n)' <= 2 * tries[n] + 2 * Whole
    BY <1>1, <2>1, <2>6, <2>8 DEF Plain
  <2>10. Plain(n) \in Nat /\ Plain(n)' \in Nat
    BY AccountType, AccountTypeNext DEF Accounts
  <2> DEFINE P == Plain(n)
             P2 == Plain(n)'
             x == Due(c, On(c, n))
             y == Due(c, On(c, n)')
  <2>11. P2 + 2 * y <= P + 2 * x + 0
    <3>1. /\ P = 2 * tries[n] + 4 * Whole /\ P2 <= 2 * tries[n] + 2 * Whole
          /\ x = 0 /\ (y = 0 \/ y = Whole) /\ P2 \in Nat
      BY <2>7, <2>9, <2>10
    <3> HIDE DEF P, P2, x, y
    <3> QED  BY <2>6, <3>1
  <2>12. Budget(n)' = Budget(n) + 0 /\ 0 \in Nat
    BY <1>1, <2>6 DEF Budget
  <2> QED  BY <1>0, <2>2, <2>3, <2>4, <2>11, <2>12, PaysItself
<1> QED  BY <1>5, <1>6

\* A cancellation has nothing to pay.
LEMMA ReadForCancelSolvent ==
  ASSUME Typed, Typed', Ranges, Orderly, UnsentInv, NEW c \in Users, NEW i \in Ids,
         ReadForCancel(c, i), NEW n \in Ids, Solvent(n)
  PROVE  Solvent(n)'
<1> USE DEF Typed
<1>0. c \in Callers /\ c \notin Pending /\ c \notin Retriers
  BY KindsOf
<1>1. /\ pc[c] = "idle" /\ copy[c] = NoCopy /\ batch' = batch /\ docs' = docs
      /\ tries' = tries /\ resends' = resends /\ Goto(c, "cancel", Read(i))
  BY <1>0 DEF ReadForCancel, Hands, AtWork, history
<1>2. pc'[c] = "cancel" /\ \A d \in Callers \ {c} : pc'[d] = pc[d] /\ copy'[d] = copy[d]
  BY <1>0, <1>1, GotoEffect
<1>3. PICK X \in Levels, B \in Levels : Covers(n, X, B) /\ Balanced(n, Heap(Weight(X, B)))
  BY DEF Solvent
<1>4. Apart(c, n) /\ On(c, n) = "idle" /\ (On(c, n)' = "idle" \/ On(c, n)' = "cancel")
  BY <1>1, <1>2 DEF Apart, Still, On
<1>5. Covers(n, X, B)'
  <2>1. \A s \in Retriers : Still(s, n)
    BY <1>0, <1>4, KindsOf DEF Apart
  <2> QED  BY <1>1, <1>3, <2>1, CoveringStill DEF docs
<1>6. Due(c, On(c, n)) = 0 /\ Due(c, On(c, n)') = 0
  BY <1>0, <1>4 DEF Due
<1>7. Flagged(n)' <=> Flagged(n)
  <2>1. \A p \in Pending : Still(p, n) /\ batch'[p] = batch[p]
    BY <1>0, <1>1, <1>4, KindsOf DEF Apart
  <2> QED  BY <1>1, <2>1 DEF Flagged, Still, Carries, docs
<1>8. Budget(n)' = Budget(n) + 0 /\ Plain(n)' = Plain(n) /\ Plain(n) \in Nat /\ 0 \in Nat
  <2>1. Budget(n) \in Nat /\ Plain(n) \in Nat
    BY AccountType DEF Accounts
  <2> QED  BY <1>1, <1>7, <2>1 DEF Budget, Plain, docs
<1>9. Plain(n)' + 2 * Due(c, On(c, n)') <= Plain(n) + 2 * Due(c, On(c, n)) + 0
  BY <1>6, <1>8
<1> QED  BY <1>0, <1>3, <1>4, <1>5, <1>8, <1>9, PaysItself

\* A resend brings its own budget.
LEMMA ReadForResendSolvent ==
  ASSUME Typed, Typed', Ranges, Orderly, UnsentInv, NEW c \in Users, NEW i \in Ids,
         ReadForResend(c, i), NEW n \in Ids, Solvent(n)
  PROVE  Solvent(n)'
<1> USE DEF Typed
<1>0. c \in Callers /\ c \notin Pending /\ c \notin Retriers
  BY KindsOf
<1>1. /\ pc[c] = "idle" /\ copy[c] = NoCopy /\ batch' = batch /\ docs' = docs
      /\ tries' = tries /\ Goto(c, "resend", Read(i))
      /\ resends'[i] = resends[i] + 1 /\ (n # i => resends'[n] = resends[n])
  BY <1>0 DEF ReadForResend, Hands, AtWork, Documents
<1>2. /\ pc'[c] = "resend" /\ copy'[c] = Read(i)
      /\ \A d \in Callers \ {c} : pc'[d] = pc[d] /\ copy'[d] = copy[d]
  BY <1>0, <1>1, GotoEffect
<1>3. PICK X \in Levels, B \in Levels : Covers(n, X, B) /\ Balanced(n, Heap(Weight(X, B)))
  BY DEF Solvent
<1>4. Apart(c, n) /\ On(c, n) = "idle" /\ (On(c, n)' = "idle" \/ (n = i /\ On(c, n)' = "resend"))
  BY <1>1, <1>2 DEF Apart, Still, On, Read, Copy
<1>5. Covers(n, X, B)'
  <2>1. \A s \in Retriers : Still(s, n)
    BY <1>0, <1>4, KindsOf DEF Apart
  <2> QED  BY <1>1, <1>3, <2>1, CoveringStill DEF docs
<1>6. Due(c, On(c, n)) = 0 /\ (Due(c, On(c, n)') = 0 \/ (n = i /\ Due(c, On(c, n)') = 2 * Whole))
  BY <1>0, <1>4 DEF Due
<1>7. Flagged(n)' <=> Flagged(n)
  <2>1. \A p \in Pending : Still(p, n) /\ batch'[p] = batch[p]
    BY <1>0, <1>1, <1>4, KindsOf DEF Apart
  <2> QED  BY <1>1, <2>1 DEF Flagged, Still, Carries, docs
<1>8. Budget(n) \in Nat /\ Plain(n) \in Nat /\ Whole \in Nat /\ Plain(n)' = Plain(n)
  <2>1. Budget(n) \in Nat /\ Plain(n) \in Nat /\ Whole \in Nat
    BY WholeType, AccountType DEF Accounts
  <2> QED  BY <1>1, <1>7, <2>1 DEF Plain, docs
<1> DEFINE b == IF n = i THEN 4 * Whole ELSE 0
<1>9. b \in Nat /\ Budget(n)' = Budget(n) + b
  <2>1. CASE n # i
    BY <1>1, <1>8, <2>1 DEF Budget
  <2>2. CASE n = i
    <3> DEFINE a == 1 + resends[n]
    <3>1. a \in Nat /\ 1 + resends'[n] = a + 1
      BY <1>1, <2>2 DEF Documents
    <3>2. \A j, k \in Nat : (j + 1) * k = j * k + k /\ j * k \in Nat
      OBVIOUS
    <3>3. Budget(n) = 4 * (a * Whole) /\ Budget(n)' = 4 * ((a + 1) * Whole)
      BY <3>1 DEF Budget
    <3> HIDE DEF a
    <3>4. (a + 1) * Whole = a * Whole + Whole /\ a * Whole \in Nat
      BY <1>8, <3>1, <3>2
    <3> QED  BY <1>8, <2>2, <3>3, <3>4
  <2> QED  BY <2>1, <2>2
<1>10. Plain(n)' + 2 * Due(c, On(c, n)') <= Plain(n) + 2 * Due(c, On(c, n)) + b
  <2> DEFINE y == Due(c, On(c, n)')
             x == Due(c, On(c, n))
             P2 == Plain(n)'
  <2>1. x = 0 /\ (y = 0 \/ (n = i /\ y = 2 * Whole)) /\ P2 = Plain(n) /\ Plain(n) \in Nat
    BY <1>6, <1>8
  <2> HIDE DEF x, y, P2
  <2>2. P2 + 2 * y <= Plain(n) + 2 * x + b
    BY <1>8, <1>9, <2>1
  <2> QED  BY <2>2 DEF x, y, P2
<1>11. b \in Nat /\ Budget(n)' = Budget(n) + b
  BY <1>9
<1> HIDE DEF b
<1> QED  BY <1>0, <1>3, <1>4, <1>5, <1>10, <1>11, PaysItself

\* A round finds what it was expected to find.
LEMMA ReadBatchSolvent ==
  ASSUME Typed, Typed', Ranges, Orderly, UnsentInv, NEW c \in Callers, NEW found \in SUBSET Ids,
         ReadBatch(c, found), Finds(c, found), NEW n \in Ids, Solvent(n)
  PROVE  Solvent(n)'
<1> USE DEF Typed
<1>1. /\ pc[c] = "idle" /\ pc'[c] = "next" /\ copy' = copy /\ copy[c] = NoCopy /\ docs' = docs
      /\ tries' = tries /\ resends' = resends
      /\ batch'[c] = {Read(i) : i \in found}
      /\ \A d \in Callers \ {c} : pc'[d] = pc[d] /\ batch'[d] = batch[d]
  BY DEF ReadBatch, Hands, AtWork, docs, history
<1>2. PICK X \in Levels, B \in Levels : Covers(n, X, B) /\ Balanced(n, Heap(Weight(X, B)))
  BY DEF Solvent
<1>3. Apart(c, n) /\ On(c, n) = "idle" /\ On(c, n)' = "idle"
  BY <1>1 DEF Apart, Still, On
<1>4. \A m \in batch'[c] : m.id = n => n \in found /\ m.attempts = attempts[n]
  BY <1>1 DEF Read, Copy
<1>5. Covers(n, X, B)'
  <2>1. ASSUME c \in Retriers PROVE CoveredFor(c, n, X, B)'
    <3>1. n \in found => status[n] = "failed"
      BY <2>1, KindsOf DEF Finds, MayRetry
    <3>2. \A m \in batch'[c] : m.id = n => X[c] >= MaxAttempts - m.attempts
      BY <1>2, <1>4, <2>1, <3>1 DEF Covers
    <3> QED  BY <1>3, <3>2 DEF CoveredFor, Busy
  <2>2. \A s \in Retriers : Still(s, n) \/ CoveredFor(s, n, X, B)'
    BY <1>3, <2>1, KindsOf DEF Apart
  <2> QED  BY <1>1, <1>2, <2>2, CoveringStill DEF docs
<1>6. Flagged(n)' => Flagged(n)
  <2>1. c \in Pending /\ n \in found => status[n] = "pending"
    BY KindsOf DEF Finds, IsPending
  <2>2. \A p \in Pending \ {c} : Still(p, n)
    BY <1>3, KindsOf DEF Apart
  <2>3. c \in Pending /\ Carries(c, n)' => status[n] = "pending"
    BY <1>4, <2>1 DEF Carries
  <2>4. \A p \in Pending \ {c} : (On(p, n)' = "mark" \/ Carries(p, n)')
          => On(p, n) = "mark" \/ Carries(p, n)
    BY <2>2 DEF Still, Carries
  <2> QED  BY <1>1, <1>3, <2>3, <2>4 DEF Flagged, docs
<1>7. Budget(n)' = Budget(n) + 0 /\ Plain(n)' <= Plain(n) /\ Plain(n) \in Nat /\ Plain(n)' \in Nat
      /\ 0 \in Nat
  <2>1. Budget(n) \in Nat /\ Plain(n) \in Nat /\ Plain(n)' \in Nat
      /\ Whole \in Nat /\ tries[n] \in Nat
    BY WholeType, AccountType, AccountTypeNext DEF Accounts
  <2> QED  BY <1>1, <1>6, <2>1 DEF Budget, Plain, docs
<1>8. Due(c, On(c, n)') = Due(c, On(c, n)) /\ Due(c, On(c, n)) \in Nat
  BY <1>3, WholeType
<1>9. Plain(n)' + 2 * Due(c, On(c, n)') <= Plain(n) + 2 * Due(c, On(c, n)) + 0
  BY <1>7, <1>8
<1> QED  BY <1>2, <1>3, <1>5, <1>7, <1>9, PaysItself

\* A round takes up what it has read.
LEMMA TakeSolvent ==
  ASSUME Typed, Typed', Ranges, Orderly, UnsentInv, NEW c \in Callers,
         NEW point \in {"mark", "count", "release"}, Take(c, point), Turns(c, point),
         NEW n \in Ids, Solvent(n)
  PROVE  Solvent(n)'
<1> USE DEF Typed
<1>1. PICK m \in batch[c] : Goto(c, point, m) /\ batch' = [batch EXCEPT ![c] = @ \ {m}]
  BY DEF Take
<1>2. /\ pc[c] = "next" /\ copy[c] = NoCopy /\ docs' = docs /\ tries' = tries /\ resends' = resends
  BY DEF Take, Hands, AtWork, history
<1>3. /\ pc'[c] = point /\ copy'[c] = m
      /\ \A d \in Callers \ {c} : pc'[d] = pc[d] /\ copy'[d] = copy[d]
      /\ batch'[c] = batch[c] \ {m}
      /\ \A d \in Callers \ {c} : batch'[d] = batch[d]
  BY <1>1, GotoEffect DEF Hands
<1>4. m \in Papers /\ m # NoCopy
  BY <1>1, NotificationAssumption DEF Hands, Papers
<1>5. PICK X \in Levels, B \in Levels : Covers(n, X, B) /\ Balanced(n, Heap(Weight(X, B)))
  BY DEF Solvent
<1>6. /\ Apart(c, n) /\ On(c, n) = "idle"
      /\ On(c, n)' = IF m.id = n THEN point ELSE "idle"
  BY <1>2, <1>3, <1>4 DEF Apart, Still, On
<1>7. Covers(n, X, B)'
  <2>1. ASSUME c \in Retriers PROVE CoveredFor(c, n, X, B)'
    <3>1. CoveredFor(c, n, X, B) /\ point = "count"
      BY <1>5, <2>1, KindsOf DEF Covers, Turns
    <3>2. \A k \in batch'[c] : k.id = n => X[c] >= MaxAttempts - k.attempts
      BY <1>3, <3>1 DEF CoveredFor
    <3>3. m.id = n => X[c] >= MaxAttempts - m.attempts
      BY <1>1, <3>1 DEF CoveredFor
    <3> QED  BY <1>3, <1>6, <3>1, <3>2, <3>3 DEF CoveredFor, Busy
  <2>2. \A s \in Retriers : Still(s, n) \/ CoveredFor(s, n, X, B)'
    BY <1>6, <2>1, KindsOf DEF Apart
  <2> QED  BY <1>2, <1>5, <2>2, CoveringStill DEF docs
<1>8. Flagged(n)' => Flagged(n)
  <2>1. \A p \in Pending \ {c} : Still(p, n)
    BY <1>6, KindsOf DEF Apart
  <2>2. \A p \in Pending \ {c} : (On(p, n)' = "mark" \/ Carries(p, n)')
          => On(p, n) = "mark" \/ Carries(p, n)
    BY <2>1 DEF Still, Carries
  <2>3. (On(c, n)' = "mark" \/ Carries(c, n)') => Carries(c, n)
    BY <1>1, <1>3, <1>6 DEF Carries
  <2> QED  BY <1>2, <2>2, <2>3 DEF Flagged, docs
<1>9. Budget(n)' = Budget(n) + 0 /\ Plain(n)' <= Plain(n) /\ Plain(n) \in Nat /\ Plain(n)' \in Nat
      /\ 0 \in Nat
  <2>1. Budget(n) \in Nat /\ Plain(n) \in Nat /\ Plain(n)' \in Nat
      /\ Whole \in Nat /\ tries[n] \in Nat
    BY WholeType, AccountType, AccountTypeNext DEF Accounts
  <2> QED  BY <1>2, <1>8, <2>1 DEF Budget, Plain, docs
<1>10. Due(c, On(c, n)') = 0 /\ Due(c, On(c, n)) = 0
  BY <1>6, KindsOf DEF Due, Turns
<1>11. Plain(n)' + 2 * Due(c, On(c, n)') <= Plain(n) + 2 * Due(c, On(c, n)) + 0
  BY <1>9, <1>10
<1> QED  BY <1>5, <1>6, <1>7, <1>9, <1>11, PaysItself

\* A row without dues.
LEMMA NoDues ==
  ASSUME NEW n \in Ids, \A d \in Callers : On(d, n) = "idle"
  PROVE  Heap(Dues(n)) = {}
<1>1. Dues(n) = [d \in Callers |-> 0]
  BY DEF Dues, Due
<1>2. Dues(n) \in [Callers -> Nat] /\ \A d \in Callers : Dues(n)[d] = 0
  BY <1>1
<1> DEFINE f == Dues(n)
<1>3. f \in [Callers -> Nat] /\ \A d \in Callers : f[d] = 0
  BY <1>2
<1> HIDE DEF f
<1>4. \A p \in Heap(f) : p[1] \in Callers /\ p[2] \in Nat \ {0} /\ p[2] <= f[p[1]]
  BY <1>3, HeapOf
<1>5. Heap(f) = {}
  BY <1>3, <1>4
<1> QED  BY <1>5 DEF f

\* A crash forgives what was in hand.
LEMMA CrashSolvent ==
  ASSUME Typed, Typed', Ranges, Crash, NEW n \in Ids, Solvent(n)
  PROVE  Solvent(n)'
<1> USE DEF Typed
<1>1. PICK X \in Levels, B \in Levels : Covers(n, X, B) /\ Balanced(n, Heap(Weight(X, B)))
  BY DEF Solvent
<1>2. /\ docs' = docs /\ tries' = tries /\ resends' = resends
      /\ \A d \in Callers : batch'[d] = {} /\ On(d, n)' = "idle"
  BY DEF Crash, On
<1>3. Retriers \subseteq Callers /\ Pending \subseteq Callers
  BY DEF Callers
<1>4. Covers(n, X, B)'
  <2>1. \A s \in Retriers : CoveredFor(s, n, X, B)'
    BY <1>2, <1>3 DEF CoveredFor, Busy
  <2> QED  BY <1>1, <1>2, <2>1, CoveringStill DEF docs
<1>5. Heap(Dues(n)') = {}
  <2>1. Dues(n)' = [d \in Callers |-> 0]
    BY <1>2 DEF Dues, Due
  <2> DEFINE f == [d \in Callers |-> 0]
  <2>2. f \in [Callers -> Nat] /\ \A d \in Callers : f[d] = 0
    OBVIOUS
  <2> HIDE DEF f
  <2>3. \A p \in Heap(f) : p[1] \in Callers /\ p[2] \in Nat \ {0} /\ p[2] <= f[p[1]]
    BY <2>2, HeapOf
  <2>4. Heap(f) = {}
    BY <2>2, <2>3
  <2> QED  BY <2>1, <2>4 DEF f
<1>6. Flagged(n)' => Flagged(n)
  BY <1>2, <1>3 DEF Flagged, Carries, docs
<1>7. Budget(n)' = Budget(n) /\ Plain(n)' <= Plain(n) /\ Plain(n) \in Nat /\ Plain(n)' \in Nat
      /\ Budget(n) \in Nat
  <2>1. Budget(n) \in Nat /\ Plain(n) \in Nat /\ Plain(n)' \in Nat
      /\ Whole \in Nat /\ tries[n] \in Nat
    BY WholeType, AccountType, AccountTypeNext DEF Accounts
  <2> QED  BY <1>2, <1>6, <2>1 DEF Budget, Plain, docs
<1>8. Balanced(n, Heap(Weight(X, B)))'
  <2> DEFINE D == Cardinality(Heap(Dues(n)))
             D2 == Cardinality(Heap(Dues(n)'))
             P == Plain(n)
             P2 == Plain(n)'
             T == Budget(n)
             C == Cardinality(Heap(Weight(X, B)))
  <2>1. IsFiniteSet(Heap(Weight(X, B))) /\ IsFiniteSet(Heap(Dues(n))) /\ P + 2 * D + C <= T
    BY <1>1 DEF Balanced
  <2>2. IsFiniteSet(Heap(Dues(n)')) /\ D2 = 0
    BY <1>5, FS_EmptySet
  <2>3. D \in Nat /\ C \in Nat /\ P \in Nat /\ T \in Nat /\ P2 \in Nat /\ P2 <= P /\ Budget(n)' = T
    BY <1>7, <2>1, FS_CardinalityType
  <2>4. P2 + 2 * D2 + C <= Budget(n)'
    <3> HIDE DEF P2, D, D2, P, C, T
    <3> QED  BY <2>1, <2>2, <2>3
  <2> QED  BY <2>1, <2>2, <2>4 DEF Balanced
<1> QED  BY <1>4, <1>8 DEF Solvent

\* Time passes, or an old document is removed.
LEMMA DocumentsPass ==
  ASSUME Typed, Typed', Ranges, NEW i \in Ids, TimeComes(i) \/ CleanupOldNotifications(i),
         NEW n \in Ids, Solvent(n)
  PROVE  Solvent(n)'
<1> USE DEF Typed
<1>1. /\ attempts' = attempts /\ tries' = tries /\ resends' = resends
      /\ pc' = pc /\ copy' = copy /\ batch' = batch
      /\ status'[n] = status[n] \/ (status[n] \in {"sent", "cancelled"} /\ status'[n] = "gone")
  BY DEF TimeComes, CleanupOldNotifications, Documents, calls, history
<1>2. \A d \in Callers : Still(d, n)
  BY <1>1 DEF Still, On
<1>3. CASE status'[n] = status[n]
  BY <1>1, <1>2, <1>3, UnmovedSolvent DEF Unmoved
<1>4. CASE status[n] \in {"sent", "cancelled"} /\ status'[n] = "gone"
  <2>1. PICK X \in Levels, B \in Levels : Covers(n, X, B) /\ Balanced(n, Heap(Weight(X, B)))
    BY DEF Solvent
  <2>2. Covers(n, X, B)'
    <3>1. \A s \in Retriers : Still(s, n)
      BY <1>2 DEF Callers
    <3> QED  BY <1>4, <2>1, <3>1, CoveringStill
  <2>3. Balanced(n, Heap(Weight(X, B)))'
    <3>1. Dues(n)' = Dues(n)
      BY <1>1 DEF Dues, On
    <3>2. Plain(n)' = Plain(n) /\ Budget(n)' = Budget(n)
      <4>1. Flagged(n)' <=> Flagged(n)
        BY <1>1, <1>4 DEF Flagged, On, Carries
      <4> QED  BY <1>1, <1>4, <4>1 DEF Plain, Budget
    <3> QED  BY <2>1, <3>1, <3>2 DEF Balanced
  <2> QED  BY <2>2, <2>3 DEF Solvent
<1> QED  BY <1>1, <1>3, <1>4

\* Every notification's account is balanced, whatever step is made.
Paid == \A n \in Ids : Solvent(n)

LEMMA NextPaid ==
  Typed /\ Typed' /\ Ranges /\ Orderly /\ UnsentInv /\ Paid /\ [Next]_vars => Paid'
<1> SUFFICES ASSUME Typed, Typed', Ranges, Orderly, UnsentInv, Paid, [Next]_vars,
                    NEW n \in Ids
             PROVE  Solvent(n)'
  BY DEF Paid
<1>0. Solvent(n)
  BY DEF Paid
<1>1. ASSUME NEW c \in Callers, Works(c) PROVE Solvent(n)'
  BY <1>0, <1>1, WorksSolvent
<1>2. ASSUME NEW c \in Users, NEW i \in Ids,
             SendEmail(c, i) \/ ReadForCancel(c, i) \/ ReadForResend(c, i)
      PROVE  Solvent(n)'
  BY <1>0, <1>2, SendEmailSolvent, ReadForCancelSolvent, ReadForResendSolvent
<1>3. ASSUME NEW c \in Callers, NEW found \in SUBSET Ids, ReadBatch(c, found), Finds(c, found)
      PROVE  Solvent(n)'
  BY <1>0, <1>3, ReadBatchSolvent
<1>4. ASSUME NEW c \in Callers, NEW point \in {"mark", "count", "release"},
             Take(c, point), Turns(c, point)
      PROVE  Solvent(n)'
  BY <1>0, <1>4, TakeSolvent
<1>5. CASE Elsewhere
  BY <1>0, <1>5, CrashSolvent, DocumentsPass DEF Elsewhere
<1>6. CASE UNCHANGED vars
  <2>1. Unmoved(n)
    BY <1>6 DEF vars, docs, calls, history, Unmoved, Still, On
  <2> QED  BY <1>0, <2>1, UnmovedSolvent
<1> QED  BY <1>1, <1>2, <1>3, <1>4, <1>5, <1>6, StepOf

\* At first nothing is owed but what the first request will.
LEMMA InitPaid == Init => Paid
<1> SUFFICES ASSUME Init, NEW n \in Ids PROVE Solvent(n)
  BY DEF Paid
<1> DEFINE Z == [s \in Retriers |-> 0]
<1>1. Z \in Levels /\ \A s \in Retriers : Z[s] = 0
  BY NotificationAssumption DEF Levels
<1> HIDE DEF Z
<1>2. /\ status[n] = "none" /\ tries[n] = 0 /\ resends[n] = 0
      /\ \A d \in Callers : On(d, n) = "idle" /\ batch[d] = {}
  BY DEF Init, On
<1>3. Covers(n, Z, Z)
  BY <1>2 DEF Covers, CoveredFor, Busy, Callers
<1>4. Heap(Weight(Z, Z)) = {}
  <2> DEFINE b == BesideOf(Z, Z)
             o == OwnOf(Z, Z)
             f == Table(b, o)
  <2>1. b \in Numbered /\ o \in Numbered
    BY <1>1, LevelsOf
  <2>2. \A s \in Retriers : b[s] = 0 /\ o[s] = 0
    <3>1. Beside(0, 0) = 0 /\ Own(0, 0) = 0
      BY Numbers DEF Beside, Own, Larger
    <3>2. \A s \in Retriers : b[s] = Beside(Z[s], Z[s]) /\ o[s] = Own(Z[s], Z[s])
      BY <1>1, LevelsOf
    <3> QED  BY <1>1, <3>1, <3>2
  <2> HIDE DEF b, o
  <2>3. f \in [Pairs -> Nat]
    BY <2>1, TableOf
  <2>4. \A p \in Pairs : f[p] = 0
    <3> TAKE p \in Pairs
    <3>1. PICK s \in Retriers, t \in Retriers : p = <<s, t>>
      BY DEF Pairs
    <3> HIDE DEF f
    <3>2. s = t => f[<<s, t>>] = 2 * o[s]
      BY <2>1, TableOf DEF f
    <3>3. s # t => f[<<s, t>>] = Larger(b[s], b[t])
      BY <2>1, TableOf DEF f
    <3> QED  BY <2>2, <3>1, <3>2, <3>3 DEF Larger
  <2> HIDE DEF f
  <2>5. \A p \in Heap(f) : p[1] \in Pairs /\ p[2] \in Nat \ {0} /\ p[2] <= f[p[1]]
    BY <2>3, HeapOf
  <2>6. Heap(f) = {}
    BY <2>4, <2>5
  <2> QED  BY <2>6 DEF f, b, o, Weight
<1>5. Heap(Dues(n)) = {}
  BY <1>2, NoDues
<1>6. IsFiniteSet({}) /\ Cardinality({}) = 0
  BY FS_EmptySet
<1>7. Whole \in Nat
  BY WholeType
<1>8. Plain(n) = 4 * Whole /\ Budget(n) = 4 * Whole
  <2>1. ~Flagged(n)
    BY <1>2 DEF Flagged, Carries, Callers
  <2>2. Plain(n) = 4 * Whole
    BY <1>2, <1>7, <2>1 DEF Plain
  <2>3. (1 + resends[n]) * Whole = Whole
    BY <1>2, <1>7
  <2> QED  BY <2>2, <2>3 DEF Budget
<1>9. Balanced(n, Heap(Weight(Z, Z)))
  BY <1>4, <1>5, <1>6, <1>7, <1>8 DEF Balanced
<1> QED  BY <1>1, <1>3, <1>9 DEF Solvent

\* However requests and rounds cross, an email is attempted no more often than the request and
\* each resend account for: twice what one failure can come to when every caller of
\* RetryFailedNotifications counts the same attempt as its own.
THEOREM SendsStayBounded == Spec => []SendsBounded
<1>1. Typed /\ Paid => TriesBounded
  <2> SUFFICES ASSUME Typed, Paid, NEW n \in Ids
               PROVE  tries[n] <= 2 * (1 + resends[n]) * Sends[MaxAttempts + 1]
    BY DEF TriesBounded
  <2>1. PICK X \in Levels, B \in Levels : Balanced(n, Heap(Weight(X, B)))
    BY DEF Paid, Solvent
  <2> DEFINE D == Cardinality(Heap(Dues(n)))
             C == Cardinality(Heap(Weight(X, B)))
             P == Plain(n)
             z == (1 + resends[n]) * Whole
  <2>2. P + 2 * D + C <= 4 * z
    BY <2>1 DEF Balanced, Budget
  <2>3. D \in Nat /\ C \in Nat /\ P \in Nat /\ z \in Nat /\ 2 * tries[n] <= P /\ tries[n] \in Nat
    BY <2>1, FS_CardinalityType, AccountType DEF Balanced, Accounts
  <2>4. tries[n] <= 2 * z
    <3> HIDE DEF D, C, P, z
    <3> QED  BY <2>2, <2>3
  <2>5. 2 * z = 2 * (1 + resends[n]) * Whole
    <3>1. \A i, j \in Nat : 2 * (i * j) = 2 * i * j
      OBVIOUS
    <3>2. 1 + resends[n] \in Nat /\ Whole \in Nat
      BY WholeType DEF Typed, Documents
    <3> QED  BY <3>1, <3>2
  <2> QED  BY <2>4, <2>5 DEF Whole
<1>2. Spec => [](Typed /\ Ranges /\ UnsentInv /\ Orderly /\ Paid)
  <2>1. Init => Typed /\ Ranges /\ UnsentInv /\ Orderly /\ Paid
    <3>1. Init => Ranges
      BY NotificationAssumption DEF Init, Ranges, Callers
    <3>2. Init => UnsentInv
      BY DEF Init, UnsentInv, Untouched, Held, Unsent
    <3> QED  BY <3>1, <3>2, InitTyped, InitOrderly, InitPaid
  <2>2. Typed /\ Ranges /\ UnsentInv /\ Orderly /\ Paid /\ [Next]_vars
           => (Typed /\ Ranges /\ UnsentInv /\ Orderly /\ Paid)'
    BY NextTyped, NextRanges, NextUnsent, NextOrderly, NextPaid
  <2> QED  BY <2>1, <2>2, PTL DEF Spec
<1> QED  BY <1>1, <1>2, RangesType, PTL DEF SendsBounded
=============================================================================
