-------------------------- MODULE MCMonitoredEngine --------------------------
(***************************************************************************)
(* The engine beside what watches it, for TLC: the collector, which the    *)
(* workers feed, and the figures of the dashboard.  The modules share no   *)
(* variable: `part' says which of them moves, the others stay as they      *)
(* begin.                                                                  *)
(***************************************************************************)
EXTENDS MCWorkflowEngine

CONSTANTS
    None,
    Durations, MaxTasks, LastDay, KeptDays,  \* of TaskMetrics
    MaxCount, FailedLimit, QueueLimit        \* of Dashboard

VARIABLES
    part,
    counters, action, daily, hourly, call, day, started, retries, torn,
    answer, read, taken, figures, alerts, health

Collector == INSTANCE TaskMetrics WITH Callers <- Workers, MaxRetries <- MaxAttempts
Shown == INSTANCE Dashboard

ASSUME Parameters == Collector!TaskMetricsAssumption /\ Shown!DashboardAssumption

-----------------------------------------------------------------------------
collectorVars == <<counters, action, daily, hourly, call, day, started, retries, torn>>
shownVars == <<answer, read, taken, figures, alerts, health>>
monitoredVars == <<part, allVars, collectorVars, shownVars>>

MonitoredInit ==
    /\ part \in {"engine", "collector", "dashboard"}
    /\ EngineInit /\ Collector!Init /\ Shown!Init

EngineStep ==
    part = "engine" /\ EngineNext /\ UNCHANGED <<part, collectorVars, shownVars>>
CollectorStep ==
    part = "collector" /\ Collector!Next /\ UNCHANGED <<part, allVars, shownVars>>
DashboardStep ==
    part = "dashboard" /\ Shown!Next /\ UNCHANGED <<part, allVars, collectorVars>>

MonitoredNext == EngineStep \/ CollectorStep \/ DashboardStep

MonitoredSpec == MonitoredInit /\ [][MonitoredNext]_monitoredVars

-----------------------------------------------------------------------------
(* The properties, as the modules state them, of the part that moves.      *)

\* However the process dies, an item is run at most as often as its budget says.
RunsAreBounded == part = "engine" => EngineTypeOK /\ RunsBounded

\* No item is run twice at once, and what the engine holds is recorded as processing, so
\* that a crash loses none of it.
HeldOnceAndRecorded == part = "engine" => NoConcurrentRuns /\ CrashSafe

\* Counters, figures of the action and of the hour tell the same story, and a rate
\* above 100 is only told to a reader that was overtaken; an answer of the dashboard
\* shows what its questions found, with the verdict that these figures deserve.
FiguresHold ==
    /\ part = "collector" =>
           /\ Collector!TypeOK /\ Collector!CountersAgree
           /\ Collector!ActionAddsUp /\ Collector!RatesAreRates
    /\ part = "dashboard" => Shown!TypeOK /\ Shown!FiguresAreRead /\ Shown!VerdictFitsFigures
=============================================================================
