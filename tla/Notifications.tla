----------------------------- MODULE Notifications -----------------------------
(***************************************************************************)
(* The life of an email notification: NotificationService in               *)
(* internal/services over the documents of notification_repository.go.     *)
(*                                                                         *)
(* Requests send, resend and cancel notifications; three rounds, driven by *)
(* tickers, send those that are pending, retry those that have failed, and *)
(* release those whose time has come.  All of them read documents, work on *)
(* their copies, and replace whole documents (Update), whatever has been   *)
(* written since; nothing but the flag of the pending round keeps two of   *)
(* them apart.  An action is one call of the repository or one Send.       *)
(*                                                                         *)
(* Of a document only its status, its attempts and its time are kept, and  *)
(* Create and Update refuse one whose time is over.  The times at which    *)
(* retries fall due and old documents are removed are arbitrary.  What a   *)
(* notification says, and templates, are left out.                         *)
(***************************************************************************)
EXTENDS Integers, FiniteSets

CONSTANTS
    Ids,          \* notifications
    MaxAttempts,
    Users,        \* requests: SendEmail, ResendNotification, CancelNotification
    Pending,      \* callers of ProcessPendingNotifications
    Retriers,     \* callers of RetryFailedNotifications
    Schedulers,   \* callers of ProcessScheduledNotifications
    NoCopy,
    MaxResends,   \* bound: how often a notification may be resent
    MaxCrashes    \* bound: how often the process dies

ASSUME NotificationAssumption ==
    /\ MaxAttempts \in Nat \ {0} /\ MaxResends \in Nat /\ MaxCrashes \in Nat
    /\ IsFiniteSet(Ids) /\ NoCopy \notin [id : Ids, attempts : Int]
    /\ IsFiniteSet(Retriers)
    /\ Users \cap (Pending \cup Retriers \cup Schedulers) = {}
    /\ Retriers \cap (Pending \cup Schedulers) = {}
    /\ Pending \cap Schedulers = {}

Callers == Users \cup Pending \cup Retriers \cup Schedulers

VARIABLES
    status,       \* "none" before the document exists, "gone" after
    attempts,
    when,         \* ScheduledAt: none, future or past
    pc,           \* pc[c]: the point call c has reached
    copy,         \* copy[c]: the document that c is working on
    batch,        \* batch[c]: the documents of c's round still to come
    tries,        \* tries[n]: how often Send was called for n
    mailed,       \* notifications that some Send has succeeded for
    resends,      \* resends[n]: how often ResendNotification was called
    crashes       \* how often the process has died

docs == <<status, attempts, when>>
calls == <<pc, copy, batch>>
history == <<tries, mailed, resends, crashes>>
vars == <<docs, calls, history>>

Copy(n, a) == [id |-> n, attempts |-> a]
Copies == [id : Ids, attempts : 0..MaxAttempts]
Read(n) == Copy(n, attempts[n])

Exists(n) == status[n] \notin {"none", "gone"}

\* A copy of n is in the hands of some call.
Held(n) ==
    \E c \in Callers :
        \/ copy[c] # NoCopy /\ copy[c].id = n
        \/ \E m \in batch[c] : m.id = n

Init ==
    /\ status = [n \in Ids |-> "none"]
    /\ attempts = [n \in Ids |-> 0]
    /\ when = [n \in Ids |-> "none"]
    /\ pc = [c \in Callers |-> "idle"]
    /\ copy = [c \in Callers |-> NoCopy]
    /\ batch = [c \in Callers |-> {}]
    /\ tries = [n \in Ids |-> 0]
    /\ mailed = {}
    /\ resends = [n \in Ids |-> 0]
    /\ crashes = 0

-----------------------------------------------------------------------------
(* The repository's Update, and what a call does next.                     *)

\* Mutant: the time is not validated.
Accepted_AnyTime(n) == Exists(n)

\* Validate: "scheduled_at must be in the future"; and a document must match.
Accepted(n) == Exists(n) /\ when[n] # "past"

Update(n, s, a) ==
    /\ Accepted(n)
    /\ status' = [status EXCEPT ![n] = s]
    /\ attempts' = [attempts EXCEPT ![n] = a]
    /\ UNCHANGED when

\* Update reports an error: the document is refused or is no longer there, or the
\* database did not answer in time and may have stored it all the same.
UpdateFails(n, s, a) == Update(n, s, a) \/ UNCHANGED docs

Goto(c, point, m) ==
    /\ pc' = [pc EXCEPT ![c] = point]
    /\ copy' = [copy EXCEPT ![c] = m]

\* A round goes on with its next document; a request returns.
Finish(c) ==
    /\ Goto(c, IF batch[c] = {} THEN "idle" ELSE "next", NoCopy)
    /\ UNCHANGED batch

-----------------------------------------------------------------------------
(* sendNotificationNow and handleSendError, of the document c works on.    *)

MarkProcessing(c) ==
    /\ pc[c] = "mark"
    /\ \/ /\ Update(copy[c].id, "processing", copy[c].attempts)
          /\ Goto(c, "send", copy[c])
          /\ UNCHANGED batch
       \/ UpdateFails(copy[c].id, "processing", copy[c].attempts) /\ Finish(c)
    /\ UNCHANGED history

\* Mutant: an error is taken for an answer.
Send_AnyAnswer(c) ==
    /\ pc[c] = "send"
    /\ tries' = [tries EXCEPT ![copy[c].id] = @ + 1]
    /\ \/ mailed' = mailed \cup {copy[c].id} /\ Goto(c, "sent", copy[c])
       \/ UNCHANGED mailed /\ \E p \in {"sent", "error"} : Goto(c, p, copy[c])
    /\ UNCHANGED <<docs, batch, resends, crashes>>

Send(c) ==
    /\ pc[c] = "send"
    /\ tries' = [tries EXCEPT ![copy[c].id] = @ + 1]
    /\ \/ mailed' = mailed \cup {copy[c].id} /\ Goto(c, "sent", copy[c])
       \/ UNCHANGED mailed /\ Goto(c, "error", copy[c])
    /\ UNCHANGED <<docs, batch, resends, crashes>>

\* Whether the success is stored or not, the call goes on in the same way.
RecordSent(c) ==
    /\ pc[c] = "sent"
    /\ UpdateFails(copy[c].id, "sent", copy[c].attempts)
    /\ Finish(c)
    /\ UNCHANGED history

\* The error is added to the document, which still says "processing".
RecordError(c) ==
    /\ pc[c] = "error"
    /\ UpdateFails(copy[c].id, "processing", copy[c].attempts)
    /\ Goto(c, "failure", copy[c])
    /\ UNCHANGED <<batch, history>>

\* The attempts are counted when the error is recoverable; whether it is does
\* not decide whether there is a retry.
RecordFailure(c) ==
    /\ pc[c] = "failure"
    /\ \E a \in {copy[c].attempts, copy[c].attempts + 1} :
          a <= MaxAttempts /\ UpdateFails(copy[c].id, "failed", a)
    /\ Finish(c)
    /\ UNCHANGED history

SendNow(c) ==
    MarkProcessing(c) \/ Send(c) \/ RecordSent(c) \/ RecordError(c) \/ RecordFailure(c)

-----------------------------------------------------------------------------
(* Requests.                                                               *)

\* SendEmail creates the document, and sends it unless Create reports an error.  A
\* scheduled one is left to the rounds: should its time come before ShouldProcess
\* looks, then Update refuses it at once.
SendEmail(c, n) ==
    /\ pc[c] = "idle" /\ status[n] = "none"
    /\ \/ /\ status' = [status EXCEPT ![n] = "pending"]
          /\ Goto(c, "mark", Copy(n, 0)) \/ UNCHANGED <<pc, copy>>
          /\ UNCHANGED when
       \/ /\ status' = [status EXCEPT ![n] = "scheduled"]
          /\ when' = [when EXCEPT ![n] = "future"]
          /\ UNCHANGED <<pc, copy>>
    /\ UNCHANGED <<attempts, batch, history>>

ReadForCancel(c, n) ==
    /\ pc[c] = "idle" /\ status[n] \in {"pending", "scheduled"}
    /\ Goto(c, "cancel", Read(n))
    /\ UNCHANGED <<docs, batch, history>>

CancelNotification(c) ==
    /\ pc[c] = "cancel"
    /\ UpdateFails(copy[c].id, "cancelled", copy[c].attempts)
    /\ Finish(c)
    /\ UNCHANGED history

ReadForResend(c, n) ==
    /\ pc[c] = "idle" /\ Exists(n) /\ resends[n] < MaxResends
    /\ resends' = [resends EXCEPT ![n] = @ + 1]
    /\ Goto(c, "resend", Read(n))
    /\ UNCHANGED <<docs, batch, tries, mailed, crashes>>

\* Whatever the status was, the attempts start again.
ResendNotification(c) ==
    /\ pc[c] = "resend"
    /\ \/ /\ Update(copy[c].id, "pending", 0)
          /\ Goto(c, "mark", Copy(copy[c].id, 0))
          /\ UNCHANGED batch
       \/ UpdateFails(copy[c].id, "pending", 0) /\ Finish(c)
    /\ UNCHANGED history

Request(c) ==
    \/ \E n \in Ids : SendEmail(c, n) \/ ReadForCancel(c, n) \/ ReadForResend(c, n)
    \/ CancelNotification(c) \/ ResendNotification(c)

-----------------------------------------------------------------------------
(* Rounds: one query, then the documents one after another.                *)

ReadBatch(c, found) ==
    /\ pc[c] = "idle" /\ found # {}
    /\ pc' = [pc EXCEPT ![c] = "next"]
    /\ batch' = [batch EXCEPT ![c] = {Read(n) : n \in found}]
    /\ UNCHANGED <<docs, copy, history>>

Take(c, point) ==
    /\ pc[c] = "next"
    /\ \E m \in batch[c] :
          /\ Goto(c, point, m)
          /\ batch' = [batch EXCEPT ![c] = @ \ {m}]
    /\ UNCHANGED <<docs, history>>

\* Mutants: documents left behind by a crash too; only those with a time.
IsPending_OrStuck(n) == status[n] \in {"pending", "processing"} /\ when[n] # "future"
IsPending_WithTime(n) == status[n] = "pending" /\ when[n] = "past"

\* GetPending.
IsPending(n) == status[n] = "pending" /\ when[n] # "future"

\* isProcessing lets one such round run at a time.
ProcessPendingNotifications(c) ==
    \/ /\ \A p \in Pending : pc[p] = "idle"
       /\ ReadBatch(c, {n \in Ids : IsPending(n)})
    \/ Take(c, "mark")

\* GetFailedForRetry and CanRetry.
MayRetry(n) == status[n] = "failed" /\ attempts[n] < MaxAttempts

\* Mutant: the attempt is not counted.
CountAttempt_Free(c) ==
    /\ pc[c] = "count"
    /\ \/ /\ Update(copy[c].id, "failed", copy[c].attempts)
          /\ Goto(c, "mark", copy[c])
          /\ UNCHANGED batch
       \/ UpdateFails(copy[c].id, "failed", copy[c].attempts) /\ Finish(c)
    /\ UNCHANGED history

\* A retry is counted before it is made (and, by RecordFailure, once more after).
CountAttempt(c) ==
    /\ pc[c] = "count"
    /\ \/ /\ Update(copy[c].id, "failed", copy[c].attempts + 1)
          /\ Goto(c, "mark", Copy(copy[c].id, copy[c].attempts + 1))
          /\ UNCHANGED batch
       \/ UpdateFails(copy[c].id, "failed", copy[c].attempts + 1) /\ Finish(c)
    /\ UNCHANGED history

RetryFailedNotifications(c) ==
    \/ \E found \in SUBSET {n \in Ids : MayRetry(n)} : ReadBatch(c, found)
    \/ Take(c, "count")
    \/ CountAttempt(c)

\* GetScheduled.
IsDue(n) == status[n] = "scheduled" /\ when[n] = "past"

\* The documents it finds are those that Update refuses.
Release(c) ==
    /\ pc[c] = "release"
    /\ \/ /\ Update(copy[c].id, "pending", copy[c].attempts)
          /\ Goto(c, "mark", copy[c])
          /\ UNCHANGED batch
       \/ UpdateFails(copy[c].id, "pending", copy[c].attempts) /\ Finish(c)
    /\ UNCHANGED history

ProcessScheduledNotifications(c) ==
    \/ ReadBatch(c, {n \in Ids : IsDue(n)})
    \/ Take(c, "release")
    \/ Release(c)

-----------------------------------------------------------------------------

TimeComes(n) ==
    /\ when[n] = "future"
    /\ when' = [when EXCEPT ![n] = "past"]
    /\ UNCHANGED <<status, attempts, calls, history>>

\* CleanupOldNotifications; how old is old is up to the caller.
CleanupOldNotifications(n) ==
    /\ status[n] \in {"sent", "cancelled"}
    /\ status' = [status EXCEPT ![n] = "gone"]
    /\ UNCHANGED <<attempts, when, calls, history>>

\* The process dies and is started again.
Crash ==
    /\ crashes < MaxCrashes
    /\ crashes' = crashes + 1
    /\ pc' = [c \in Callers |-> "idle"]
    /\ copy' = [c \in Callers |-> NoCopy]
    /\ batch' = [c \in Callers |-> {}]
    /\ UNCHANGED <<docs, tries, mailed, resends>>

Round(c) ==
    \/ c \in Pending /\ ProcessPendingNotifications(c)
    \/ c \in Retriers /\ RetryFailedNotifications(c)
    \/ c \in Schedulers /\ ProcessScheduledNotifications(c)

Next ==
    \/ \E c \in Users : Request(c)
    \/ \E c \in Callers : SendNow(c) \/ Round(c)
    \/ \E n \in Ids : TimeComes(n) \/ CleanupOldNotifications(n)
    \/ Crash

Spec == Init /\ [][Next]_vars

\* A call that has begun, at the one point it has reached.
Proceed(c) ==
    Round(c) \/ SendNow(c) \/ (c \in Users /\ (CancelNotification(c) \/ ResendNotification(c)))

\* The tickers start rounds for ever, a call that has begun goes on, and the
\* database does not refuse the same update for ever.
FairSpec ==
    /\ Spec
    /\ \A c \in Callers : WF_vars(Proceed(c))
    /\ \A c \in Pending : SF_vars(MarkProcessing(c) /\ pc'[c] = "send")
    /\ \A c \in Retriers : SF_vars(CountAttempt(c) /\ pc'[c] = "mark")

-----------------------------------------------------------------------------
(* Properties.                                                             *)

TypeOK ==
    /\ status \in [Ids -> {"none", "pending", "scheduled", "processing", "sent",
                           "failed", "cancelled", "gone"}]
    /\ attempts \in [Ids -> 0..MaxAttempts]
    /\ when \in [Ids -> {"none", "future", "past"}]
    /\ pc \in [Callers -> {"idle", "next", "mark", "send", "sent", "error", "failure",
                           "cancel", "resend", "count", "release"}]
    /\ copy \in [Callers -> Copies \cup {NoCopy}]
    /\ batch \in [Callers -> SUBSET Copies]
    /\ tries \in [Ids -> Nat]
    /\ mailed \in SUBSET Ids
    /\ resends \in [Ids -> 0..MaxResends]
    /\ crashes \in 0..MaxCrashes

\* A document says "sent" only if an email has been sent, although any call may
\* overwrite it with what it made of an older copy.
SentIsTrue == \A n \in Ids : status[n] = "sent" => n \in mailed

\* How often an email is attempted is bounded: a request and a round may both take
\* the notification up while it is pending, and what either of them, or a retry,
\* writes back when it fails is read by every caller of RetryFailedNotifications,
\* which nothing keeps apart, and counted as one attempt by all of them.
Sends[k \in Nat] == IF k = 0 THEN 0 ELSE 1 + Cardinality(Retriers) * Sends[k - 1]

TriesBounded == \A n \in Ids : tries[n] <= 2 * (1 + resends[n]) * Sends[MaxAttempts + 1]

\* A notification left in "processing" by a crash or a failed update, or with no
\* attempts left, is in nobody's hands, and only a resend takes it up again.
DeadEnd(n) ==
    /\ ~Held(n)
    /\ \/ status[n] = "processing"
       \/ status[n] = "failed" /\ ~MayRetry(n)

OnlyResendRevives ==
    [][\A n \in Ids :
          DeadEnd(n) => (DeadEnd(n)' \/ \E c \in Users : ReadForResend(c, n))]_vars

\* No round ever sends a scheduled notification: before its time they do not find
\* it, and after it the document is refused.
ScheduledStaysUnsent ==
    \A n \in Ids : (when[n] # "none" /\ resends[n] = 0) => tries[n] = 0

\* A pending notification without a time is in the end sent, cancelled, or left
\* where only a resend helps.
EveryNotificationSettles ==
    \A n \in Ids :
        (status[n] = "pending" /\ when[n] = "none")
            ~> (status[n] \in {"sent", "cancelled", "gone"} \/ DeadEnd(n))
=============================================================================
