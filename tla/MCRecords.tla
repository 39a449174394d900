------------------------------ MODULE MCRecords ------------------------------
(***************************************************************************)
(* What is kept outside the engine, for TLC: the directories of backups,   *)
(* the listings, the templates of emails, the connections that send them,  *)
(* the waits between retries and the jobs of the notification workers.     *)
(* The modules share no variable: `part' says which of them moves, the     *)
(* others stay as they begin.                                              *)
(***************************************************************************)
EXTENDS Naturals, TLC

CONSTANTS
    None,
    Callers,                                     \* of Templates; the emails; the jobs
    Records,                                     \* of Templates; the connections
    Full, Incremental, Partial,                  \* of BackupFiles
    MaxDocs, MaxSize, DefaultSize,               \* of Listings
    MaxVersion, MaxEdits,                        \* of Templates
    MaxConnections, MaxIdleConns, MaxTries,      \* of EmailService
    MaxAttempts, FewAttempts, Longer,            \* of Backoff
    NumWorkers, MaxBatch                         \* of NotificationWorker

VARIABLES
    part,
    dir, step, base, validated, refused,
    docs, reader, quiet, left, raced,
    templates, cache, call, warm, late,
    server, accepted, pool, gone, send, active, total, dialing, dialled, cleaner,
    shutdown, panicked,
    schedule, delay, attempt, wait, last,
    pending, scheduled, due, told, run, closed, done, stop

Backups == INSTANCE BackupFiles
Pages == INSTANCE Listings
Versions == INSTANCE Templates WITH Ids <- Records, docs <- templates
Smtp == INSTANCE EmailService WITH Emails <- Callers, Conns <- Records, MaxAttempts <- MaxTries
Waits == INSTANCE Backoff WITH base <- delay
Jobs == INSTANCE NotificationWorker WITH Jobs <- Callers, call <- told

ASSUME Parameters ==
    /\ Backups!BackupFilesAssumption /\ Pages!ListingsAssumption /\ Versions!TemplatesAssumption
    /\ Smtp!EmailAssumption /\ Waits!BackoffAssumption /\ Jobs!NotificationWorkerAssumption

Symmetry == Permutations(Callers) \cup Permutations(Records)

-----------------------------------------------------------------------------
backupVars == <<dir, step, base, validated, refused>>
pageVars == <<docs, reader, quiet, left, raced>>
versionVars == <<templates, cache, call, warm, late>>
smtpVars ==
    <<server, accepted, pool, gone, send, active, total, dialing, dialled, cleaner,
      shutdown, panicked>>
waitVars == <<schedule, delay, attempt, wait, last>>
jobVars == <<pending, scheduled, due, told, run, closed, done, stop>>
vars == <<part, backupVars, pageVars, versionVars, smtpVars, waitVars, jobVars>>

Init ==
    /\ part \in {"backups", "pages", "templates", "smtp", "waits", "jobs"}
    /\ Backups!Init
    /\ Pages!Init /\ (part = "pages" \/ docs = [d \in 1..MaxDocs |-> None])
    /\ Versions!Init /\ (part = "templates" \/ templates = [i \in Records |-> None])
    /\ Smtp!Init
    /\ Waits!Init /\ (part = "waits" \/ (schedule = "fixed" /\ delay = Waits!FiveSeconds))
    /\ Jobs!Init

BackupsStep ==
    /\ part = "backups" /\ Backups!Next
    /\ UNCHANGED <<part, pageVars, versionVars, smtpVars, waitVars, jobVars>>
PagesStep ==
    /\ part = "pages" /\ Pages!Next
    /\ UNCHANGED <<part, backupVars, versionVars, smtpVars, waitVars, jobVars>>
TemplatesStep ==
    /\ part = "templates" /\ Versions!Next
    /\ UNCHANGED <<part, backupVars, pageVars, smtpVars, waitVars, jobVars>>
SmtpStep ==
    /\ part = "smtp" /\ Smtp!Next
    /\ UNCHANGED <<part, backupVars, pageVars, versionVars, waitVars, jobVars>>
WaitsStep ==
    /\ part = "waits" /\ Waits!Next
    /\ UNCHANGED <<part, backupVars, pageVars, versionVars, smtpVars, jobVars>>
JobsStep ==
    /\ part = "jobs" /\ Jobs!Next
    /\ UNCHANGED <<part, backupVars, pageVars, versionVars, smtpVars, waitVars>>

Next == BackupsStep \/ PagesStep \/ TemplatesStep \/ SmtpStep \/ WaitsStep \/ JobsStep

Spec == Init /\ [][Next]_vars

-----------------------------------------------------------------------------
(* The properties, as the modules state them, of the part that moves.      *)

\* A backup that the validation accepted has what its restoration looks for.
ValidatedIsRestorable ==
    part = "backups" => Backups!TypeOK /\ Backups!ValidatedIsRestorable

\* Who turns the pages to the last one has seen all that was listed from the beginning,
\* and each document once if nothing changed.
PagesHold == part = "pages" => Pages!TypeOK /\ Pages!WalkCovers /\ Pages!PagesPartition

\* An email is rendered from a template that is stored and active, unless a write
\* overtook the read that filled the cache.
CacheIsCurrent == part = "templates" => Versions!TypeOK /\ Versions!CacheIsCurrent

\* No connection to the mail server is lost or shared, and whoever is told that an email
\* was sent can rely on it.
EmailsHold ==
    part = "smtp" => Smtp!TypeOK /\ Smtp!ConnectionsAccounted /\ Smtp!ToldIsAccepted

\* A retry never waits less than the one before it, up to the very retry at which the
\* delay of the executor overflows.
WaitsGrow == part = "waits" => Waits!TypeOK /\ Waits!WaitsGrow

\* A job whose caller was told it is enqueued is on one of the two keys.
JobsAreKept == part = "jobs" => Jobs!TypeOK /\ Jobs!JobsAreKept
=============================================================================
