------------------------------ MODULE Dashboard ------------------------------
(***************************************************************************)
(* The figures of the dashboard: services/dashboard_service.go and the     *)
(* compute functions of services/cached_dashboard_service.go, which ask    *)
(* the same questions with a goroutine each and one channel; and           *)
(* services/metrics_service.go.                                            *)
(*                                                                         *)
(* One answer is computed at a time.  Queues and collections change        *)
(* between two questions, so a question that succeeds reads any count, up  *)
(* to a bound.  Constant figures, texts and times are left out.            *)
(***************************************************************************)
EXTENDS Naturals, FiniteSets

CONSTANTS
    MaxCount,     \* bound on what a question reads
    FailedLimit,  \* of the alert: 50 with the cache, 10 without
    QueueLimit,   \* of the alert: 100
    None

VARIABLES
    answer,       \* what is being computed, or None
    read,         \* read[q]: what question q found, Failed, or None before
    taken,        \* the questions whose result has been used
    figures,      \* the answer so far
    alerts,       \* the alerts of an answer about alerts
    health        \* the verdict of an answer about health

vars == <<answer, read, taken, figures, alerts, health>>

Failed == MaxCount + 1
Questions == {"workflows", "active", "users", "queue", "processing", "failed", "retrying", "ping"}
Counted == Questions \ {"ping"}

\* The answers, and what each asks.  Those of the cached service are asked in no
\* order, the others one after the other.
Asked == [
    CachedSummary |-> {"workflows", "active", "users", "queue"},
    CachedQuickStats |-> {"workflows", "users", "queue", "processing", "failed"},
    CachedQueueStatus |-> {"queue", "processing", "failed", "retrying"},
    CachedAlerts |-> {"queue", "failed"},
    CachedHealth |-> {"workflows", "ping"},
    Summary |-> {"workflows", "active", "queue", "processing"},
    QuickStats |-> {"workflows", "queue", "processing"},
    QueueStatus |-> {"queue", "processing", "failed", "retrying"},
    Alerts |-> {"failed", "queue", "active", "workflows"},
    DashboardMetrics |-> {"workflows", "active", "queue", "processing", "failed"},
    SystemMetrics |-> {"users", "workflows", "active", "queue"},
    SystemHealth |-> {"users", "ping"}]
Answers == DOMAIN Asked

DashboardAssumption ==
    /\ MaxCount \in Nat \ {0} /\ FailedLimit \in Nat /\ QueueLimit \in Nat
    /\ None \notin Nat \cup Answers

Zero == [q \in Counted |-> 0]
Unread == [q \in Questions |-> None]

Init ==
    /\ answer = None
    /\ read = Unread /\ taken = {}
    /\ figures = Zero /\ alerts = {} /\ health = None

\* A request, of the handler of the same name.
Ask(a) ==
    /\ answer = None
    /\ answer' = a
    /\ UNCHANGED <<read, taken, figures, alerts, health>>
GetDashboardSummary == Ask("CachedSummary") \/ Ask("Summary")
GetQuickStats == Ask("CachedQuickStats") \/ Ask("QuickStats")
GetQueueStatus == Ask("CachedQueueStatus") \/ Ask("QueueStatus")
GetActiveAlerts == Ask("CachedAlerts") \/ Ask("Alerts")
GetSystemHealth == Ask("CachedHealth") \/ Ask("SystemHealth")
GetSystemMetrics == Ask("SystemMetrics")
GetMetrics == Ask("DashboardMetrics")

\* A repository answers, or fails; Ping only succeeds or fails.
Read(q) ==
    /\ answer # None /\ q \in Asked[answer] /\ read[q] = None
    /\ \E v \in IF q = "ping" THEN {0, Failed} ELSE 0..Failed :
           read' = [read EXCEPT ![q] = v]
    /\ UNCHANGED <<answer, taken, figures, alerts, health>>

\* A result is used: it has arrived, and has not been used before.
Arrived(a, q) ==
    /\ answer = a /\ q \in Asked[a] /\ read[q] # None /\ q \notin taken
    /\ taken' = taken \cup {q}
    /\ UNCHANGED <<answer, read>>
Good(q) == read[q] # Failed
Count(q) == IF Good(q) THEN read[q] ELSE 0
Show(q) == figures' = IF Good(q) THEN [figures EXCEPT ![q] = read[q]] ELSE figures

-----------------------------------------------------------------------------
(* The cached service.                                                     *)

\* computeDashboardSummary: a result names no question, and one that is not the
\* queue's carries a queue length of 0, which is not negative.
TakeSummary(q) ==
    /\ Arrived("CachedSummary", q)
    /\ figures' = IF ~Good(q) THEN figures
                  ELSE [figures EXCEPT
                         !["workflows"] = IF q = "workflows" /\ read[q] > 0 THEN read[q] ELSE @,
                         !["active"] = IF q = "active" /\ read[q] > 0 THEN read[q] ELSE @,
                         !["queue"] = IF q = "queue" THEN read[q] ELSE 0]
    /\ UNCHANGED <<alerts, health>>

\* computeQuickStats: a result names its question; the users' is not shown.
TakeQuickStats(q) ==
    /\ Arrived("CachedQuickStats", q)
    /\ IF q = "users" THEN UNCHANGED figures ELSE Show(q)
    /\ UNCHANGED <<alerts, health>>

\* The verdict of both services on the queue.
Verdict(f) ==
    IF f["failed"] > f["processing"] * 2 THEN "unhealthy"
    ELSE IF f["failed"] > 0 THEN "degraded" ELSE "healthy"

\* computeQueueStatus: the verdict comes after the last result.
TakeQueueStatus(q) ==
    /\ Arrived("CachedQueueStatus", q)
    /\ Show(q)
    /\ health' = IF taken' = Asked["CachedQueueStatus"] THEN Verdict(figures') ELSE health
    /\ UNCHANGED alerts

\* GetActiveAlerts: a question that failed raises nothing.
TakeAlerts(q) ==
    /\ Arrived("CachedAlerts", q)
    /\ q = "failed" => "queue" \in taken
    /\ alerts' = alerts \cup
           {x \in {"queue", "failed"} : /\ x = q /\ Good(q)
                                        /\ read[q] > IF q = "queue" THEN QueueLimit ELSE FailedLimit}
    /\ UNCHANGED <<figures, health>>

\* computeSystemHealth: MongoDB first, and its verdict stands.
TakeHealth(q) ==
    /\ Arrived("CachedHealth", q)
    /\ q = "ping" => "workflows" \in taken
    /\ health' = IF Good(q) THEN IF health = None THEN "healthy" ELSE health
                 ELSE IF q = "workflows" THEN "critical"
                 ELSE IF health = "healthy" THEN "warning" ELSE health
    /\ UNCHANGED <<figures, alerts>>

-----------------------------------------------------------------------------
(* The service without cache: a failure counts as 0.                       *)

\* The figures of GetDashboardSummary, GetQuickStats and GetQueueStatus, and of the
\* GetSystemMetrics of the metrics service.
Collected(a) ==
    /\ answer = a /\ taken = {} /\ \A q \in Asked[a] : read[q] # None
    /\ taken' = Asked[a]
    /\ figures' = [q \in Counted |-> IF q \in Asked[a] THEN Count(q) ELSE 0]
    /\ UNCHANGED <<answer, read>>
Summary == Collected("Summary") /\ UNCHANGED <<alerts, health>>
QuickStats == Collected("QuickStats") /\ UNCHANGED <<alerts, health>>
SystemMetrics == Collected("SystemMetrics") /\ UNCHANGED <<alerts, health>>
DashboardMetrics == Collected("DashboardMetrics") /\ UNCHANGED <<alerts, health>>
QueueStatus ==
    /\ Collected("QueueStatus")
    /\ health' = Verdict(figures')
    /\ UNCHANGED alerts

\* GetActiveAlerts: so do the active workflows of a question that failed.
Alerts ==
    /\ Collected("Alerts")
    /\ alerts' = {x \in {"failed", "queue", "inactive"} :
                    \/ x = "failed" /\ Count("failed") > FailedLimit
                    \/ x = "queue" /\ Count("queue") > QueueLimit
                    \/ x = "inactive" /\ Count("active") = 0 /\ Count("workflows") > 0}
    /\ UNCHANGED health

\* CheckSystemHealth: the first failure is the answer.
SystemHealth ==
    /\ Collected("SystemHealth")
    /\ health' = IF Good("users") /\ Good("ping") THEN "healthy" ELSE "critical"
    /\ UNCHANGED alerts

Answered == answer # None /\ taken = Asked[answer]

\* The answer goes out, and the next may be asked for.
Respond ==
    /\ Answered
    /\ answer' = None /\ read' = Unread /\ taken' = {}
    /\ figures' = Zero /\ alerts' = {} /\ health' = None

Request ==
    \/ GetDashboardSummary \/ GetQuickStats \/ GetQueueStatus
    \/ GetActiveAlerts \/ GetSystemHealth \/ GetSystemMetrics \/ GetMetrics
Take(q) ==
    \/ TakeSummary(q) \/ TakeQuickStats(q) \/ TakeQueueStatus(q)
    \/ TakeAlerts(q) \/ TakeHealth(q)
Collect ==
    \/ Summary \/ QuickStats \/ QueueStatus \/ Alerts
    \/ SystemMetrics \/ DashboardMetrics \/ SystemHealth
Next == Request \/ Collect \/ Respond \/ \E q \in Questions : (Read(q) \/ Take(q))

Spec == Init /\ [][Next]_vars

-----------------------------------------------------------------------------
(* The properties.                                                         *)

TypeOK ==
    /\ answer \in Answers \cup {None}
    /\ read \in [Questions -> 0..Failed \cup {None}]
    /\ taken \subseteq Questions
    /\ figures \in [Counted -> 0..MaxCount]
    /\ alerts \subseteq {"failed", "queue", "inactive"}
    /\ health \in {"healthy", "degraded", "unhealthy", "warning", "critical", None}

\* What an answer shows of a question is what the question found, and 0 when it failed,
\* in whatever order the results arrive; but for the length of the queue in the cached
\* summary, which a later result sets to 0.
Shown(q) == ~(answer = "CachedSummary" /\ q = "queue") /\ q # "users"
FiguresAreRead ==
    Answered /\ answer \in {"CachedSummary", "CachedQuickStats", "CachedQueueStatus"} =>
        \A q \in Asked[answer] : Shown(q) => figures[q] = Count(q)

\* The verdict on the queue and the figures beside it agree, although the verdict is
\* given by whoever takes the last result.
VerdictFitsFigures ==
    Answered /\ answer \in {"CachedQueueStatus", "QueueStatus"} => health = Verdict(figures)
=============================================================================
