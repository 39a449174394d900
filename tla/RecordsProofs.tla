---------------------------- MODULE RecordsProofs ----------------------------
(***************************************************************************)
(* Theorems about the parts of MCRecords, for every value of the           *)
(* constants: the directories of backups, the jobs of the notification     *)
(* workers, the cache of templates, the connections that send emails, the  *)
(* listings page by page and the waits between retries.  Each part has its *)
(* inductive invariant; a step of another part leaves the variables of     *)
(* this one alone.                                                         *)
(***************************************************************************)
EXTENDS MCRecords, FiniteSetTheorems, WellFoundedInduction, TLAPS

-----------------------------------------------------------------------------
(* The directories of backups.                                             *)

\* What is validated had ended, and it has what a restoration looks for; before a
\* backup is asked there is no directory of it.
BackupInv ==
    /\ Backups!TypeOK
    /\ refused = {}
    /\ \A b \in Backups!Ids : step[b] = "idle" => dir[b] = None
    /\ \A b \in validated :
          /\ step[b] \in {"completed", "failed"}
          /\ dir[b] # None
          /\ dir[b].mongodb # "none" /\ dir[b].redis = "dump"

LEMMA BackupInitially ==
  ASSUME Backups!Init
  PROVE  BackupInv
BY DEF Backups!Init, BackupInv, Backups!TypeOK, Backups!Step

\* What is in a directory, also of one that was deleted under way.
LEMMA HereTyped ==
  ASSUME BackupInv, NEW b \in Backups!Ids
  PROVE  Backups!Here(b) \in Backups!Dir
BY DEF BackupInv, Backups!TypeOK, Backups!Here, Backups!Dir, Backups!New, Backups!Mongo,
       Backups!Redis

\* A tool writes into the directory of its own backup, which runs, and goes on.
LEMMA WriteKeeps ==
  ASSUME BackupInv, NEW b \in Backups!Ids, Backups!Running(b),
         NEW to \in Backups!Step \ {"idle"}, step' = [step EXCEPT ![b] = to],
         NEW d \in Backups!Dir, dir' = dir \/ dir' = [dir EXCEPT ![b] = d],
         base' \in [Backups!Ids -> Backups!Ids \cup {None}],
         UNCHANGED <<validated, refused>>
  PROVE  BackupInv'
<1>1. b \notin validated
  BY DEF BackupInv, Backups!Running
<1>2. Backups!TypeOK'
  BY DEF BackupInv, Backups!TypeOK
<1>3. \A c \in Backups!Ids \ {b} : step'[c] = step[c] /\ dir'[c] = dir[c]
  BY DEF BackupInv, Backups!TypeOK
<1>4. step'[b] # "idle"
  BY DEF BackupInv, Backups!TypeOK
<1>5. validated \subseteq Backups!Ids
  BY DEF BackupInv, Backups!TypeOK
<1> QED  BY <1>1, <1>2, <1>3, <1>4, <1>5 DEF BackupInv

\* One part of a directory is written.
LEMMA PartWritten ==
  ASSUME BackupInv, NEW b \in Backups!Ids,
         NEW part0 \in {"mongodb", "redis"}, NEW made,
         part0 = "mongodb" => made \in Backups!Mongo,
         part0 = "redis" => made \in Backups!Redis,
         Backups!Left(b, part0, made)
  PROVE  \E d \in Backups!Dir : dir' = dir \/ dir' = [dir EXCEPT ![b] = d]
<1> DEFINE here == Backups!Here(b)
           new == [here EXCEPT ![part0] = made]
<1>1. here \in Backups!Dir
  BY HereTyped
<1>2. new \in Backups!Dir
  BY <1>1 DEF Backups!Dir
<1> HIDE DEF here
<1>3. dir' = dir \/ dir' = [dir EXCEPT ![b] = new]
  BY DEF Backups!Left, here
<1> QED  BY <1>2, <1>3

\* The steps of the backup that runs.
ToolStep(b) ==
    \/ Backups!createIncrementalBackup(b) \/ Backups!createMongoDBBackup(b)
    \/ Backups!createIncrementalMongoDBBackup(b) \/ Backups!createIncrementalRedisBackup(b)
    \/ Backups!createIncrementalConfigBackup(b)
    \/ Backups!createRedisBackup(b) \/ Backups!createConfigBackup(b)
    \/ Backups!createPartialBackup(b)

LEMMA ToolStepKeeps ==
  ASSUME BackupInv, NEW b \in Backups!Ids, ToolStep(b)
  PROVE  BackupInv'
<1> USE DEF Backups!Running, Backups!Step, Backups!Go, Backups!history
<1> DEFINE Goal ==
      /\ Backups!Running(b)
      /\ \E to \in Backups!Step \ {"idle"} : step' = [step EXCEPT ![b] = to]
      /\ \E d \in Backups!Dir : dir' = dir \/ dir' = [dir EXCEPT ![b] = d]
      /\ base' \in [Backups!Ids -> Backups!Ids \cup {None}]
      /\ UNCHANGED <<validated, refused>>
<1>1. Backups!Here(b) \in Backups!Dir
  BY HereTyped
<1>2. [Backups!Here(b) EXCEPT !.config = TRUE] \in Backups!Dir
  BY <1>1 DEF Backups!Dir
<1>3. base \in [Backups!Ids -> Backups!Ids \cup {None}]
  BY DEF BackupInv, Backups!TypeOK
<1>4. ASSUME Backups!createIncrementalBackup(b)  PROVE Goal
  <2>1. \A x \in Backups!findLastBackup(b) : x \in Backups!Ids
    BY DEF Backups!findLastBackup, Backups!Listed
  <2> QED  BY <1>1, <1>3, <1>4, <2>1 DEF Backups!createIncrementalBackup
<1>5. ASSUME Backups!createMongoDBBackup(b)  PROVE Goal
  <2>1. PICK made \in Backups!Mongo :
           Backups!Left(b, "mongodb", IF made = "empty" /\ Backups!Here(b).mongodb = "some"
                                      THEN "none" ELSE made)
    BY <1>5 DEF Backups!createMongoDBBackup
  <2>2. \E d \in Backups!Dir : dir' = dir \/ dir' = [dir EXCEPT ![b] = d]
    BY <2>1, PartWritten DEF Backups!Mongo
  <2> QED  BY <1>3, <1>5, <2>2 DEF Backups!createMongoDBBackup
<1>6. ASSUME Backups!createIncrementalMongoDBBackup(b)  PROVE Goal
  <2>2. \E d \in Backups!Dir : dir' = dir \/ dir' = [dir EXCEPT ![b] = d]
    BY <1>6, PartWritten DEF Backups!createIncrementalMongoDBBackup
  <2> QED  BY <1>3, <1>6, <2>2 DEF Backups!createIncrementalMongoDBBackup
<1>7. ASSUME Backups!createIncrementalRedisBackup(b)  PROVE Goal
  <2>2. \E d \in Backups!Dir : dir' = dir \/ dir' = [dir EXCEPT ![b] = d]
    BY <1>7, PartWritten DEF Backups!createIncrementalRedisBackup
  <2> QED  BY <1>3, <1>7, <2>2 DEF Backups!createIncrementalRedisBackup
<1>8. ASSUME Backups!createRedisBackup(b)  PROVE Goal
  <2>2. \E d \in Backups!Dir : dir' = dir \/ dir' = [dir EXCEPT ![b] = d]
    BY <1>8, PartWritten DEF Backups!createRedisBackup, Backups!Redis
  <2> QED  BY <1>3, <1>8, <2>2 DEF Backups!createRedisBackup
<1>9. ASSUME Backups!createIncrementalConfigBackup(b) \/ Backups!createConfigBackup(b)
      PROVE Goal
  BY <1>1, <1>2, <1>3, <1>9
  DEF Backups!createIncrementalConfigBackup, Backups!createConfigBackup
<1>10. ASSUME Backups!createPartialBackup(b)  PROVE Goal
  BY <1>1, <1>3, <1>10 DEF Backups!createPartialBackup
<1>11. Goal
  BY <1>4, <1>5, <1>6, <1>7, <1>8, <1>9, <1>10 DEF ToolStep
<1> QED  BY ONLY <1>11, WriteKeeps, BackupInv, b \in Backups!Ids

\* The operations on the directories, and the one that makes them.
LEMMA CreateKeeps ==
  ASSUME BackupInv, NEW b \in Backups!Ids, Backups!CreateBackup(b)
  PROVE  BackupInv'
<1>1. b \notin validated
  BY DEF BackupInv, Backups!CreateBackup, Backups!Go
<1>2. Backups!New \in Backups!Dir
  BY DEF Backups!New, Backups!Dir, Backups!Mongo, Backups!Redis
<1>3. Backups!TypeOK' /\ step'[b] # "idle"
  BY <1>2 DEF BackupInv, Backups!TypeOK, Backups!CreateBackup, Backups!Go, Backups!Step,
              Backups!history
<1>4. \A c \in Backups!Ids \ {b} : step'[c] = step[c] /\ dir'[c] = dir[c]
  BY DEF BackupInv, Backups!TypeOK, Backups!CreateBackup, Backups!Go
<1>5. UNCHANGED <<validated, refused>> /\ validated \subseteq Backups!Ids
  BY DEF BackupInv, Backups!TypeOK, Backups!CreateBackup, Backups!history
<1> QED  BY <1>1, <1>3, <1>4, <1>5 DEF BackupInv

LEMMA AgeKeeps ==
  ASSUME BackupInv, NEW b \in Backups!Ids, Backups!Age(b)
  PROVE  BackupInv'
<1> DEFINE here == dir[b]
           new == [here EXCEPT !.old = TRUE]
<1>1. here \in Backups!Dir /\ here # None /\ step[b] # "idle"
  BY DEF BackupInv, Backups!TypeOK, Backups!Age
<1>2. new \in Backups!Dir /\ new.mongodb = here.mongodb /\ new.redis = here.redis
  BY <1>1 DEF Backups!Dir
<1> HIDE DEF here
<1>3. dir' = [dir EXCEPT ![b] = new]
  BY DEF Backups!Age, here
<1>4. UNCHANGED <<step, base, validated, refused>>
  BY DEF Backups!Age, Backups!history
<1> HIDE DEF new
<1>5. dir'[b] = new /\ \A c \in Backups!Ids \ {b} : dir'[c] = dir[c]
  BY <1>3 DEF BackupInv, Backups!TypeOK
<1>6. Backups!TypeOK'
  BY <1>2, <1>3, <1>4 DEF BackupInv, Backups!TypeOK
<1>7. new # None
  BY <1>2, Parameters DEF Backups!BackupFilesAssumption
<1> QED  BY <1>1, <1>2, <1>4, <1>5, <1>6, <1>7 DEF BackupInv, here, Backups!TypeOK

LEMMA FilesStepKeeps ==
  ASSUME BackupInv, NEW b \in Backups!Ids,
         \/ Backups!DeleteBackup(b) \/ Backups!CleanupOldBackups(b)
         \/ Backups!ValidateBackup(b) \/ Backups!RestoreBackup(b)
  PROVE  BackupInv'
<1> USE DEF BackupInv, Backups!TypeOK
<1>1. ASSUME Backups!DeleteBackup(b)  PROVE BackupInv'
  BY <1>1 DEF Backups!DeleteBackup
<1>2. CASE Backups!ValidateBackup(b)
  BY <1>2 DEF Backups!ValidateBackup, Backups!Running
<1>3. CASE Backups!RestoreBackup(b)
  BY <1>3 DEF Backups!RestoreBackup, Backups!restoreFullBackup
<1> QED  BY <1>1, <1>2, <1>3 DEF Backups!CleanupOldBackups

LEMMA BackupKeeps ==
  ASSUME BackupInv, [Backups!Next]_(Backups!vars)
  PROVE  BackupInv'
<1>1. CASE Backups!Next
  <2>1. PICK b \in Backups!Ids :
           \/ ToolStep(b) \/ Backups!CreateBackup(b) \/ Backups!Age(b)
           \/ Backups!DeleteBackup(b) \/ Backups!CleanupOldBackups(b)
           \/ Backups!ValidateBackup(b) \/ Backups!RestoreBackup(b)
    BY <1>1 DEF Backups!Next, ToolStep
  <2> QED  BY <2>1, ToolStepKeeps, CreateKeeps, AgeKeeps, FilesStepKeeps
<1>2. CASE UNCHANGED Backups!vars
  BY <1>2 DEF BackupInv, Backups!TypeOK, Backups!vars, Backups!history
<1> QED  BY <1>1, <1>2

\* The service of backups, whichever part moves.
LEMMA BackupsOfAll == Spec => Backups!Spec
<1>1. Init => Backups!Init
  BY DEF Init
<1>2. [Next]_vars => [Backups!Next]_(Backups!vars)
  BY DEF Next, vars, backupVars, Backups!vars, Backups!history, BackupsStep, PagesStep,
         TemplatesStep, SmtpStep, WaitsStep, JobsStep
<1> QED  BY <1>1, <1>2, PTL DEF Spec, Backups!Spec

\* A backup that had ended when it was validated is never refused for a missing part when it
\* is restored: no tool of a backup that has ended writes into its directory, and an id is
\* asked once (ValidateBackup and restoreFullBackup of backup_service.go).
THEOREM ValidatedCanBeRestored == Spec => []ValidatedIsRestorable
<1>1. Backups!Init => BackupInv
  BY BackupInitially
<1>2. BackupInv /\ [Backups!Next]_(Backups!vars) => BackupInv'
  BY BackupKeeps
<1>3. BackupInv => ValidatedIsRestorable
  BY DEF BackupInv, ValidatedIsRestorable, Backups!ValidatedIsRestorable
<1> QED  BY BackupsOfAll, <1>1, <1>2, <1>3, PTL DEF Backups!Spec

-----------------------------------------------------------------------------
(* The jobs of the notification workers.                                   *)

\* A job that nobody has enqueued is on no key, none is on both, and one whose caller was
\* told it is enqueued is on one of them.
JobInv ==
    /\ Jobs!TypeOK
    /\ \A j \in Callers :
          /\ told[j] = "none" => j \notin pending.jobs /\ j \notin scheduled
          /\ ~(j \in pending.jobs /\ j \in scheduled)
          /\ told[j] = "ok" => j \in pending.jobs \/ j \in scheduled

LEMMA JobInitially ==
  ASSUME Jobs!Init
  PROVE  JobInv
<1>1. Jobs!TypeOK
  BY DEF Jobs!Init, Jobs!TypeOK, Jobs!Idle, Jobs!Processors, Jobs!Rest
<1> QED  BY <1>1 DEF Jobs!Init, JobInv

\* Whatever a caller is told is told once.
LEMMA ToldOnce ==
  ASSUME JobInv, NEW j \in Callers, NEW to \in {"ok", "failed"}, Jobs!Told(j, to)
  PROVE  /\ told[j] = "none" /\ told'[j] = to
         /\ \A i \in Callers \ {j} : told'[i] = told[i]
         /\ told' \in [Callers -> {"none", "ok", "failed"}]
BY DEF JobInv, Jobs!TypeOK, Jobs!Told

LEMMA EnqueueKeeps ==
  ASSUME JobInv, NEW j \in Callers,
         Jobs!EnqueueNotification(j) \/ Jobs!EnqueueScheduledNotification(j)
  PROVE  JobInv'
<1>1. PICK to \in {"ok", "failed"} :
         /\ Jobs!Told(j, to)
         /\ \/ Jobs!AddPending(j) /\ UNCHANGED scheduled
            \/ scheduled' = scheduled \cup {j} /\ UNCHANGED pending
            \/ to = "failed" /\ UNCHANGED <<pending, scheduled>>
  BY DEF Jobs!EnqueueNotification, Jobs!EnqueueScheduledNotification
<1>2. UNCHANGED <<due, run, closed, done, stop>>
  BY DEF Jobs!EnqueueNotification, Jobs!EnqueueScheduledNotification, Jobs!loops
<1>3. /\ told[j] = "none" /\ told'[j] = to
      /\ \A i \in Callers \ {j} : told'[i] = told[i]
      /\ told' \in [Callers -> {"none", "ok", "failed"}]
  BY <1>1, ToldOnce
<1>4. j \notin pending.jobs /\ j \notin scheduled
  BY <1>3 DEF JobInv
<1>5. Jobs!TypeOK'
  BY <1>1, <1>2, <1>3 DEF JobInv, Jobs!TypeOK, Jobs!AddPending
<1>6. CASE Jobs!AddPending(j) /\ UNCHANGED scheduled
  <2>1. pending'.jobs = pending.jobs \cup {j}
    BY <1>6 DEF Jobs!AddPending
  <2> QED  BY <1>3, <1>4, <1>5, <1>6, <2>1 DEF JobInv
<1>7. CASE scheduled' = scheduled \cup {j} /\ UNCHANGED pending
  BY <1>3, <1>4, <1>5, <1>7 DEF JobInv
<1>8. CASE to = "failed" /\ UNCHANGED <<pending, scheduled>>
  BY <1>3, <1>4, <1>5, <1>8 DEF JobInv
<1> QED  BY <1>1, <1>6, <1>7, <1>8

\* The script takes from one key what it puts on the other.
LEMMA MoveKeeps ==
  ASSUME JobInv, Jobs!MoveDue, told' = told,
         run' \in [Jobs!Workers -> [Jobs!Processors -> {"off", "select", "work"}]],
         UNCHANGED <<closed, done, stop>>
  PROVE  JobInv'
<1>1. PICK batch \in SUBSET due :
         \/ UNCHANGED <<pending, scheduled, due>>
         \/ /\ pending' = [kind |-> "list", jobs |-> pending.jobs \cup batch]
            /\ scheduled' = scheduled \ batch /\ due' = due \ batch
  BY DEF Jobs!MoveDue, Jobs!keys
<1>2. batch \subseteq scheduled /\ batch \subseteq Callers
  BY DEF JobInv, Jobs!TypeOK
<1>3. CASE UNCHANGED <<pending, scheduled, due>>
  BY <1>3 DEF JobInv, Jobs!TypeOK
<1>4. CASE /\ pending' = [kind |-> "list", jobs |-> pending.jobs \cup batch]
           /\ scheduled' = scheduled \ batch /\ due' = due \ batch
  <2>1. Jobs!TypeOK'
    BY <1>2, <1>4 DEF JobInv, Jobs!TypeOK
  <2>2. pending'.jobs = pending.jobs \cup batch
    BY <1>4
  <2> QED  BY <1>2, <1>4, <2>1, <2>2 DEF JobInv
<1> QED  BY <1>1, <1>3, <1>4

\* A processor that goes on is at one of its three places.
LEMMA ProcessorTyped ==
  ASSUME JobInv, NEW w \in Jobs!Workers, NEW p \in Jobs!Processors, NEW from,
         NEW to \in {"off", "select", "work"}, Jobs!Step(w, p, from, to)
  PROVE  /\ run' \in [Jobs!Workers -> [Jobs!Processors -> {"off", "select", "work"}]]
         /\ UNCHANGED <<told, closed, done, stop>>
BY DEF JobInv, Jobs!TypeOK, Jobs!Step

LEMMA ProcessorKeeps ==
  ASSUME JobInv, NEW w \in Jobs!Workers, NEW p \in Jobs!Processors,
         \/ Jobs!Tick(w, p) \/ Jobs!Return(w, p)
         \/ Jobs!processOther(w, p) \/ Jobs!processScheduledNotifications(w)
  PROVE  JobInv'
<1>1. "scheduled" \in Jobs!Processors
  BY DEF Jobs!Processors
<1>2. /\ run' \in [Jobs!Workers -> [Jobs!Processors -> {"off", "select", "work"}]]
      /\ UNCHANGED <<told, closed, done, stop>>
  BY <1>1, ProcessorTyped
  DEF Jobs!Tick, Jobs!Return, Jobs!processOther, Jobs!processScheduledNotifications
<1>3. Jobs!MoveDue \/ UNCHANGED <<pending, scheduled, due>>
  BY DEF Jobs!Tick, Jobs!Return, Jobs!processOther, Jobs!processScheduledNotifications,
         Jobs!keys
<1>4. CASE UNCHANGED <<pending, scheduled, due>>
  BY <1>2, <1>4 DEF JobInv, Jobs!TypeOK
<1> QED  BY <1>2, <1>3, <1>4, MoveKeeps

\* What starts and stops the workers leaves the jobs alone.
LEMMA StopTyped ==
  ASSUME JobInv, NEW w \in Jobs!Workers, Jobs!StopWorker(w)
  PROVE  /\ closed' \subseteq Jobs!Workers
         /\ stop' \in {Jobs!Rest, Jobs!Panic} \cup {Jobs!At(v) : v \in Jobs!Workers}
BY DEF JobInv, Jobs!TypeOK, Jobs!StopWorker

LEMMA NextWorker ==
  ASSUME JobInv, stop.state = "waits"
  PROVE  /\ stop.worker \in Jobs!Workers
         /\ stop.worker # NumWorkers => stop.worker + 1 \in Jobs!Workers
<1>1. PICK v \in Jobs!Workers : stop = Jobs!At(v)
  BY DEF JobInv, Jobs!TypeOK, Jobs!Rest, Jobs!Panic
<1>2. stop.worker = v /\ NumWorkers \in Nat
  BY <1>1, Parameters DEF Jobs!At, Jobs!NotificationWorkerAssumption
<1> QED  BY <1>2 DEF Jobs!Workers

LEMMA ManagerKeeps ==
  ASSUME JobInv, Jobs!StartAll \/ Jobs!Cancel \/ Jobs!StopAll \/ Jobs!Stopped
  PROVE  JobInv'
<1>1. UNCHANGED <<pending, scheduled, due, told>>
  BY DEF Jobs!StartAll, Jobs!Cancel, Jobs!StopAll, Jobs!Stopped, Jobs!keys
<1>2. Jobs!TypeOK'
  <2>1. CASE Jobs!StartAll
    BY <1>1, <2>1 DEF JobInv, Jobs!TypeOK, Jobs!StartAll
  <2>2. CASE Jobs!Cancel
    BY <1>1, <2>2 DEF JobInv, Jobs!TypeOK, Jobs!Cancel
  <2>3. CASE Jobs!StopAll
    <3>1. /\ closed' \subseteq Jobs!Workers
          /\ stop' \in {Jobs!Rest, Jobs!Panic} \cup {Jobs!At(v) : v \in Jobs!Workers}
      BY <2>3, StopTyped DEF Jobs!StopAll
    <3> QED  BY <1>1, <2>3, <3>1 DEF JobInv, Jobs!TypeOK, Jobs!StopAll
  <2>4. CASE Jobs!Stopped
    <3>1. /\ closed' \subseteq Jobs!Workers
          /\ stop' \in {Jobs!Rest, Jobs!Panic} \cup {Jobs!At(v) : v \in Jobs!Workers}
      <4>1. CASE stop.worker = NumWorkers
        BY <2>4, <4>1 DEF JobInv, Jobs!TypeOK, Jobs!Stopped
      <4>2. CASE stop.worker # NumWorkers
        BY <2>4, <4>2, NextWorker, StopTyped DEF Jobs!Stopped
      <4> QED  BY <4>1, <4>2
    <3> QED  BY <1>1, <2>4, <3>1 DEF JobInv, Jobs!TypeOK, Jobs!Stopped
  <2> QED  BY <2>1, <2>2, <2>3, <2>4
<1> QED  BY <1>1, <1>2 DEF JobInv

LEMMA PassKeeps ==
  ASSUME JobInv, NEW j \in Callers, Jobs!Pass(j)
  PROVE  JobInv'
BY DEF JobInv, Jobs!TypeOK, Jobs!Pass, Jobs!loops

LEMMA JobKeeps ==
  ASSUME JobInv, [Jobs!Next]_(Jobs!vars)
  PROVE  JobInv'
<1>1. CASE Jobs!Next
  <2>1. ASSUME NEW j \in Callers,
               Jobs!EnqueueNotification(j) \/ Jobs!EnqueueScheduledNotification(j)
        PROVE  JobInv'
    BY <2>1, EnqueueKeeps
  <2>2. ASSUME NEW j \in Callers, Jobs!Pass(j)  PROVE JobInv'
    BY <2>2, PassKeeps
  <2>3. ASSUME NEW w \in Jobs!Workers, Jobs!processScheduledNotifications(w)
        PROVE  JobInv'
    <3>1. "scheduled" \in Jobs!Processors
      BY DEF Jobs!Processors
    <3> QED  BY <2>3, <3>1, ProcessorKeeps
  <2>4. ASSUME NEW w \in Jobs!Workers, NEW p \in Jobs!Processors,
               Jobs!Tick(w, p) \/ Jobs!Return(w, p) \/ Jobs!processOther(w, p)
        PROVE  JobInv'
    BY <2>4, ProcessorKeeps
  <2> QED  BY <1>1, <2>1, <2>2, <2>3, <2>4, ManagerKeeps DEF Jobs!Next
<1>2. CASE UNCHANGED Jobs!vars
  BY <1>2 DEF JobInv, Jobs!TypeOK, Jobs!vars, Jobs!keys, Jobs!loops
<1> QED  BY <1>1, <1>2

LEMMA JobsOfAll == Spec => Jobs!Spec
<1>1. Init => Jobs!Init
  BY DEF Init
<1>2. [Next]_vars => [Jobs!Next]_(Jobs!vars)
  BY DEF Next, vars, jobVars, Jobs!vars, Jobs!keys, Jobs!loops, BackupsStep, PagesStep,
         TemplatesStep, SmtpStep, WaitsStep, JobsStep
<1> QED  BY <1>1, <1>2, PTL DEF Spec, Jobs!Spec

\* A job whose caller was told it is enqueued is on exactly one of the two keys, whatever the
\* script moves, wherever Redis refuses it, and however the workers start and stop
\* (EnqueueNotification and processScheduledNotifications of notification_worker.go).
THEOREM JobsStayOnAKey == Spec => []JobsAreKept
<1>1. Jobs!Init => JobInv
  BY JobInitially
<1>2. JobInv /\ [Jobs!Next]_(Jobs!vars) => JobInv'
  BY JobKeeps
<1>3. JobInv => JobsAreKept
  <2>1. ASSUME JobInv, NEW j \in Callers, told[j] = "ok"
        PROVE  (j \in pending.jobs) /= (j \in scheduled)
    BY <2>1 DEF JobInv
  <2> QED  BY <2>1 DEF JobInv, JobsAreKept, Jobs!JobsAreKept
<1> QED  BY JobsOfAll, <1>1, <1>2, <1>3, PTL DEF Jobs!Spec

-----------------------------------------------------------------------------
(* The cache of templates.                                                 *)

\* Of a set of templates one has the lowest and one the highest version.
LEMMA SomeLowest ==
  ASSUME NEW S \in SUBSET Nat, S # {}
  PROVE  \E n \in S : \A m \in S : n <= m
<1>1. IsWellFoundedOn(OpToRel(<, Nat), Nat)
  BY NatLessThanWellFounded
<1>2. PICK n \in S : \A m \in S : ~(<<m, n>> \in OpToRel(<, Nat))
  BY <1>1, WFMin
<1>3. \A m \in S : ~(m < n)
  BY <1>2 DEF OpToRel
<1> QED  BY <1>3

LEMMA SomeHighest ==
  ASSUME NEW N \in Nat, NEW S \in SUBSET (0..N), S # {}
  PROVE  \E n \in S : \A m \in S : m <= n
<1> DEFINE D == {N - n : n \in S}
<1>1. D \in SUBSET Nat /\ D # {}
  OBVIOUS
<1>2. PICK d \in D : \A k \in D : d <= k
  BY <1>1, SomeLowest
<1>3. PICK n \in S : d = N - n
  BY <1>2
<1>4. \A m \in S : N - m \in D
  OBVIOUS
<1> HIDE DEF D
<1>5. \A m \in S : m \in 0..N
  OBVIOUS
<1>6. \A m \in S : N - n <= N - m
  BY <1>2, <1>3, <1>4
<1> QED  BY <1>3, <1>5, <1>6

LEMMA LowestVersion ==
  ASSUME NEW T \in SUBSET Versions!Template, T # {}
  PROVE  \E t \in T : \A u \in T : t.version <= u.version
<1> DEFINE V == {t.version : t \in T}
<1>1. V \in SUBSET Nat /\ V # {}
  BY DEF Versions!Template
<1>2. PICK v \in V : \A w \in V : v <= w
  BY <1>1, SomeLowest
<1> QED  BY <1>2

LEMMA HighestVersion ==
  ASSUME NEW T \in SUBSET Versions!Template, T # {}
  PROVE  \E t \in T : \A u \in T : u.version <= t.version
<1> DEFINE V == {t.version : t \in T}
<1>1. V \in SUBSET (0..MaxVersion) /\ V # {} /\ MaxVersion \in Nat
  BY Parameters DEF Versions!Template, Versions!TemplatesAssumption
<1>2. PICK v \in V : \A w \in V : w <= v
  BY <1>1, SomeHighest
<1> QED  BY <1>2

\* What a caller or the warm-up has read and not yet put into the cache is stored and
\* active, unless a write overtook it; and so is what is in the cache.
HasCopy == {"insert", "again", "add", "write"}
VersionInv ==
    /\ Versions!TypeOK
    /\ templates \in [Records -> Versions!Template \cup {None}]
    /\ \A c \in Callers :
          /\ call[c].at \in HasCopy => call[c].copy \in Versions!Template
          /\ Versions!Filling(c) /\ c \notin late => call[c].copy \in Versions!Active
    /\ warm.at = "fill" /\ Versions!Warmer \notin late => warm.copies \subseteq Versions!Active
    /\ Versions!CacheIsCurrent

LEMMA VersionInitially ==
  ASSUME Versions!Init
  PROVE  VersionInv
<1>1. 0 \in 0..MaxEdits
  BY Parameters DEF Versions!TemplatesAssumption
<1>2. templates \in [Records -> Versions!Template \cup {None}]
  BY <1>1 DEF Versions!Init, Versions!Template
<1>3. call = [c \in Callers |-> Versions!Idle] /\ Versions!Idle \in Versions!Call
  BY DEF Versions!Init, Versions!Idle, Versions!Call
<1>4. \A c \in Callers : call[c].at = "idle" /\ call[c].op = "none"
  BY <1>3 DEF Versions!Idle
<1>5. Versions!TypeOK
  BY <1>2, <1>3 DEF Versions!Init, Versions!TypeOK
<1> QED
  BY <1>2, <1>4, <1>5
  DEF Versions!Init, VersionInv, HasCopy, Versions!Filling, Versions!CacheIsCurrent

LEMMA ActiveTyped ==
  ASSUME VersionInv
  PROVE  /\ Versions!Stored \subseteq Versions!Template
         /\ Versions!Active \subseteq Versions!Stored
         /\ Versions!Active \subseteq Versions!Template
         /\ None \notin Versions!Active
BY DEF VersionInv, Versions!Stored, Versions!Active

LEMMA GetByNameIsActive ==
  ASSUME VersionInv, Versions!GetByName # None
  PROVE  Versions!GetByName \in Versions!Active
<1>1. Versions!Active # {}
  BY DEF Versions!GetByName
<1>2. \E t \in Versions!Active : \A u \in Versions!Active : u.version <= t.version
  BY <1>1, ActiveTyped, HighestVersion
<1> QED  BY <1>1, <1>2 DEF Versions!GetByName

\* A step of a caller that touches neither the collection nor the cache.
LEMMA CallMoves ==
  ASSUME VersionInv, NEW c \in Callers, call[c].at # "clear",
         NEW x \in Versions!Call, call' = [call EXCEPT ![c] = x],
         x.at \in HasCopy => x.copy \in Versions!Template,
         x.op = "get" /\ x.at = "add" => x.copy \in Versions!Active,
         UNCHANGED <<templates, cache, warm, late>>
  PROVE  VersionInv'
<1>1. /\ call'[c] = x /\ \A d \in Callers \ {c} : call'[d] = call[d]
      /\ call' \in [Callers -> Versions!Call]
  BY DEF VersionInv, Versions!TypeOK
<1>2. Versions!TypeOK' /\ templates' \in [Records -> Versions!Template \cup {None}]
  BY <1>1 DEF VersionInv, Versions!TypeOK
<1>3. Versions!Active' = Versions!Active
  BY DEF Versions!Active, Versions!Stored
<1>4. Versions!Clearing => Versions!Clearing'
  BY <1>1 DEF Versions!Clearing
<1>5. Versions!CacheIsCurrent'
  BY <1>3, <1>4 DEF VersionInv, Versions!CacheIsCurrent
<1>6. \A d \in Callers :
         /\ call'[d].at \in HasCopy => call'[d].copy \in Versions!Template
         /\ Versions!Filling(d)' /\ d \notin late' => call'[d].copy \in Versions!Active'
  BY <1>1, <1>3 DEF VersionInv, Versions!Filling
<1>7. warm'.at = "fill" /\ Versions!Warmer \notin late' => warm'.copies \subseteq Versions!Active'
  BY <1>3 DEF VersionInv
<1> QED  BY <1>2, <1>5, <1>6, <1>7 DEF VersionInv

\* A write overtakes all who have read; it is followed by the invalidation, unless it only
\* adds a document.
LEMMA CallWrites ==
  ASSUME VersionInv, NEW c \in Callers, call[c].at # "clear",
         NEW x \in Versions!Call, call' = [call EXCEPT ![c] = x],
         NEW new \in [Records -> Versions!Template \cup {None}], Versions!Write(new),
         \/ x.at = "clear"
         \/ x.at = "idle" /\ \A i \in Records : templates[i] # None => new[i] = templates[i],
         UNCHANGED <<cache, warm>>
  PROVE  VersionInv'
<1>1. /\ call'[c] = x /\ \A d \in Callers \ {c} : call'[d] = call[d]
      /\ call' \in [Callers -> Versions!Call]
  BY DEF VersionInv, Versions!TypeOK
<1>2. templates' = new /\ late' = late \cup Versions!Overtaken
  BY DEF Versions!Write
<1>3. late' \subseteq Callers \cup {Versions!Warmer, "cache"}
  BY <1>2 DEF VersionInv, Versions!TypeOK, Versions!Overtaken
<1>4. Versions!TypeOK' /\ templates' \in [Records -> Versions!Template \cup {None}]
  BY <1>1, <1>2, <1>3 DEF VersionInv, Versions!TypeOK
<1>5. Versions!CacheIsCurrent'
  <2>1. CASE x.at = "clear"
    BY <1>1, <2>1 DEF Versions!CacheIsCurrent, Versions!Clearing
  <2>2. CASE x.at = "idle" /\ \A i \in Records : templates[i] # None => new[i] = templates[i]
    <3>1. Versions!Active \subseteq Versions!Active'
      BY <1>2, <2>2 DEF Versions!Active, Versions!Stored
    <3>2. Versions!Clearing => Versions!Clearing'
      BY <1>1 DEF Versions!Clearing
    <3>3. "cache" \notin late' => "cache" \notin late
      BY <1>2
    <3> QED  BY <3>1, <3>2, <3>3 DEF VersionInv, Versions!CacheIsCurrent
  <2> QED  BY <2>1, <2>2
<1>6. \A d \in Callers :
         /\ call'[d].at \in HasCopy => call'[d].copy \in Versions!Template
         /\ ~(Versions!Filling(d)' /\ d \notin late')
  BY <1>1, <1>2 DEF VersionInv, Versions!Filling, Versions!Overtaken, HasCopy
<1>7. ~(warm'.at = "fill" /\ Versions!Warmer \notin late')
  BY <1>2 DEF Versions!Overtaken
<1> QED  BY <1>4, <1>5, <1>6, <1>7 DEF VersionInv

\* Reads, and calls that end.
LEMMA ReadKeeps ==
  ASSUME VersionInv, NEW c \in Callers,
         \/ Versions!GetTemplateByName(c) \/ Versions!ReadByName(c)
         \/ Versions!CreateTemplate(c) \/ Versions!CreateDefaultTemplates(c)
         \/ Versions!SkipOrCreate(c) \/ Versions!Fail(c)
  PROVE  VersionInv'
<1> DEFINE Goal ==
      \E x \in Versions!Call :
          /\ call[c].at # "clear" /\ call' = [call EXCEPT ![c] = x]
          /\ x.at \notin HasCopy
          /\ x.op = "get" /\ x.at = "add" => x.copy \in Versions!Active
<1> DEFINE To(op, at, copy) == [op |-> op, at |-> at, copy |-> copy]
<1>1. Versions!Idle = To("none", "idle", None)
  BY DEF Versions!Idle
<1>2. UNCHANGED <<templates, cache, warm, late>>
  BY DEF Versions!GetTemplateByName, Versions!ReadByName, Versions!CreateTemplate,
         Versions!CreateDefaultTemplates, Versions!SkipOrCreate, Versions!Fail
<1>3. /\ To("none", "idle", None) \in Versions!Call
      /\ To("get", "read", None) \in Versions!Call
      /\ To("create", "find", None) \in Versions!Call
      /\ To("default", "default", None) \in Versions!Call
      /\ To("default", "find", None) \in Versions!Call
  BY DEF Versions!Call
<1>4. CASE Versions!GetTemplateByName(c) \/ Versions!CreateTemplate(c)
           \/ Versions!CreateDefaultTemplates(c)
  <2>1. Goal
    BY <1>1, <1>3, <1>4
    DEF Versions!GetTemplateByName, Versions!CreateTemplate, Versions!CreateDefaultTemplates,
        Versions!Goes, HasCopy
  <2> QED  BY <1>2, <2>1, CallMoves
<1>5. CASE Versions!ReadByName(c)
  <2>1. CASE Versions!GetByName = None
    <3>1. Goal
      BY <1>1, <1>3, <1>5, <2>1
      DEF Versions!ReadByName, Versions!At, Versions!Ends, HasCopy
    <3> QED  BY <1>2, <3>1, CallMoves
  <2>2. CASE Versions!GetByName # None
    <3> DEFINE copy == Versions!GetByName
               x == To("get", "add", copy)
    <3>1. copy \in Versions!Active /\ copy \in Versions!Template
      BY <2>2, GetByNameIsActive, ActiveTyped
    <3> HIDE DEF copy
    <3>2. x \in Versions!Call
      BY <3>1 DEF Versions!Call
    <3>3. call[c].at # "clear" /\ call' = [call EXCEPT ![c] = x]
      BY <1>5, <2>2 DEF Versions!ReadByName, Versions!At, Versions!Goes, copy
    <3>4. x.copy = copy
      OBVIOUS
    <3> QED  BY <1>2, <3>1, <3>2, <3>3, <3>4, CallMoves
  <2> QED  BY <2>1, <2>2
<1>6. CASE Versions!SkipOrCreate(c)
  <2>1. Goal
    BY <1>1, <1>3, <1>6
    DEF Versions!SkipOrCreate, Versions!At, Versions!Ends, Versions!Goes, HasCopy
  <2> QED  BY <1>2, <2>1, CallMoves
<1>7. CASE Versions!Fail(c)
  <2>1. Goal
    BY <1>1, <1>3, <1>7 DEF Versions!Fail, Versions!Ends, HasCopy
  <2> QED  BY <1>2, <2>1, CallMoves
<1> QED  BY <1>4, <1>5, <1>6, <1>7

\* What a call is about to write.
LEMMA PrepareKeeps ==
  ASSUME VersionInv, NEW c \in Callers, call[c].at # "clear",
         NEW op \in {"none", "get", "create", "default", "update", "delete"},
         NEW at \in HasCopy \ {"add"}, NEW t \in Versions!Template,
         Versions!Goes(c, op, at, t),
         UNCHANGED <<templates, cache, warm, late>>
  PROVE  VersionInv'
<1> DEFINE x == [op |-> op, at |-> at, copy |-> t]
<1>1. x \in Versions!Call /\ x.copy = t /\ x.at # "add"
  BY DEF Versions!Call, HasCopy
<1>2. call' = [call EXCEPT ![c] = x]
  BY DEF Versions!Goes
<1> HIDE DEF x
<1> QED  BY <1>1, <1>2, CallMoves

\* What is raised within the bounds is a template again.
LEMMA RaisedTyped ==
  ASSUME NEW t \in Versions!Template
  PROVE  /\ t.version < MaxVersion => [t EXCEPT !.version = @ + 1] \in Versions!Template
         /\ \A on \in BOOLEAN : t.edits < MaxEdits =>
               [t EXCEPT !.edits = @ + 1, !.active = on] \in Versions!Template
         /\ t.id \in Records
<1>1. MaxVersion \in Nat /\ MaxEdits \in Nat
  BY Parameters DEF Versions!TemplatesAssumption
<1>2. t.version < MaxVersion => [t EXCEPT !.version = @ + 1] \in Versions!Template
  <2> DEFINE n == t.version + 1
  <2>1. t.version < MaxVersion => n \in 1..MaxVersion
    BY <1>1 DEF Versions!Template
  <2> HIDE DEF n
  <2>2. t.version < MaxVersion => [t EXCEPT !.version = n] \in Versions!Template
    BY <2>1 DEF Versions!Template
  <2> QED  BY <2>2 DEF n
<1>3. \A on \in BOOLEAN : t.edits < MaxEdits =>
         [t EXCEPT !.edits = @ + 1, !.active = on] \in Versions!Template
  <2> DEFINE n == t.edits + 1
  <2>1. t.edits < MaxEdits => n \in 0..MaxEdits
    BY <1>1 DEF Versions!Template
  <2> HIDE DEF n
  <2>2. \A on \in BOOLEAN : t.edits < MaxEdits =>
           [t EXCEPT !.edits = n, !.active = on] \in Versions!Template
    BY <2>1 DEF Versions!Template
  <2> QED  BY <2>2 DEF n
<1> QED  BY <1>2, <1>3 DEF Versions!Template

LEMMA UpdateKeeps ==
  ASSUME VersionInv, NEW c \in Callers,
         Versions!UpdateTemplate(c) \/ Versions!DeleteTemplate(c)
  PROVE  VersionInv'
<1>1. call[c].at # "clear" /\ UNCHANGED <<templates, cache, warm, late>>
  <2>1. call[c] = Versions!Idle /\ UNCHANGED <<templates, cache, warm, late>>
    BY DEF Versions!UpdateTemplate, Versions!DeleteTemplate
  <2> QED  BY <2>1 DEF Versions!Idle
<1>2. CASE Versions!UpdateTemplate(c)
  <2>1. PICK t \in Versions!Stored, on \in BOOLEAN :
           /\ t.edits < MaxEdits
           /\ Versions!Goes(c, "update", "write",
                            [t EXCEPT !.edits = @ + 1, !.active = on])
    BY <1>2 DEF Versions!UpdateTemplate
  <2> DEFINE new == [t EXCEPT !.edits = @ + 1, !.active = on]
  <2>2. new \in Versions!Template
    BY <2>1, ActiveTyped, RaisedTyped
  <2>3. Versions!Goes(c, "update", "write", new)
    BY <2>1
  <2> HIDE DEF new
  <2> QED  BY <1>1, <2>2, <2>3, PrepareKeeps DEF HasCopy
<1>3. CASE Versions!DeleteTemplate(c)
  <2>1. PICK t \in Versions!Stored : Versions!Goes(c, "delete", "write", t)
    BY <1>3 DEF Versions!DeleteTemplate
  <2> QED  BY <1>1, <2>1, ActiveTyped, PrepareKeeps DEF HasCopy
<1> QED  BY <1>2, <1>3

LEMMA CallTyped ==
  ASSUME VersionInv, NEW c \in Callers
  PROVE  call[c].op \in {"none", "get", "create", "default", "update", "delete"}
BY DEF VersionInv, Versions!TypeOK, Versions!Call

LEMMA CreateTemplateKeeps ==
  ASSUME VersionInv, NEW c \in Callers, Versions!Create(c)
  PROVE  VersionInv'
<1> DEFINE version == IF Versions!GetByName = None THEN 1 ELSE Versions!GetByName.version + 1
           op == call[c].op
<1>1. PICK i \in Records :
         /\ version <= MaxVersion
         /\ Versions!Goes(c, op, "insert",
               [id |-> i, version |-> version, active |-> op = "default", edits |-> 0])
  BY DEF Versions!Create
<1>2. call[c].at = "find" /\ UNCHANGED <<templates, cache, warm, late>>
  BY DEF Versions!Create
<1>3. MaxVersion \in Nat \ {0} /\ MaxEdits \in Nat
  BY Parameters DEF Versions!TemplatesAssumption
<1>4. version \in Nat \ {0}
  <2>1. CASE Versions!GetByName = None
    BY <2>1
  <2>2. CASE Versions!GetByName # None
    <3>1. Versions!GetByName \in Versions!Template
      BY <2>2, GetByNameIsActive, ActiveTyped
    <3>2. Versions!GetByName.version \in Nat
      BY <3>1, <1>3 DEF Versions!Template
    <3> QED  BY <2>2, <3>2
  <2> QED  BY <2>1, <2>2
<1>5. op \in {"none", "get", "create", "default", "update", "delete"}
  BY CallTyped
<1> DEFINE on == op = "default"
           t == [id |-> i, version |-> version, active |-> on, edits |-> 0]
<1>6. on \in BOOLEAN
  OBVIOUS
<1>7. Versions!Goes(c, op, "insert", t)
  BY <1>1
<1> HIDE DEF version, on
<1>8. version \in 1..MaxVersion /\ 0 \in 0..MaxEdits
  BY <1>1, <1>3, <1>4
<1>9. t \in Versions!Template
  BY <1>6, <1>8 DEF Versions!Template
<1> HIDE DEF op, t
<1>10. call[c].at # "clear"
  BY <1>2
<1> QED  BY <1>2, <1>5, <1>7, <1>9, <1>10, PrepareKeeps DEF HasCopy

\* The insertion of a document that is not there.
LEMMA InsertedKeeps ==
  ASSUME VersionInv, NEW c \in Callers, call[c].at \in {"insert", "again"},
         NEW t \in Versions!Template, ~Versions!Duplicate(t),
         Versions!Write([templates EXCEPT ![t.id] = t]), Versions!Inserted(c),
         UNCHANGED <<cache, warm>>
  PROVE  VersionInv'
<1> DEFINE new == [templates EXCEPT ![t.id] = t]
           clear == [op |-> "create", at |-> "clear", copy |-> None]
<1>1. t.id \in Records /\ templates[t.id] = None
  BY RaisedTyped DEF Versions!Duplicate
<1>2. new \in [Records -> Versions!Template \cup {None}]
  BY <1>1 DEF VersionInv
<1>3. \A i \in Records : templates[i] # None => new[i] = templates[i]
  BY <1>1 DEF VersionInv
<1>4. Versions!Write(new)
  OBVIOUS
<1> HIDE DEF new
<1>5. \E x \in Versions!Call :
         /\ call' = [call EXCEPT ![c] = x]
         /\ x.at = "clear" \/ x.at = "idle"
  <2>1. clear \in Versions!Call /\ Versions!Idle \in Versions!Call
    BY DEF Versions!Call, Versions!Idle
  <2>2. call' = [call EXCEPT ![c] = clear] \/ call' = [call EXCEPT ![c] = Versions!Idle]
    BY DEF Versions!Inserted, Versions!Goes, Versions!Ends
  <2>3. clear.at = "clear" /\ Versions!Idle.at = "idle"
    BY DEF Versions!Idle
  <2> QED  BY <2>1, <2>2, <2>3
<1>6. call[c].at # "clear"
  OBVIOUS
<1> QED  BY <1>2, <1>3, <1>4, <1>5, <1>6, CallWrites

\* A call that ends without having written.
LEMMA EndKeeps ==
  ASSUME VersionInv, NEW c \in Callers, call[c].at # "clear", Versions!Ends(c),
         UNCHANGED <<templates, cache, warm, late>>
  PROVE  VersionInv'
<1>1. Versions!Idle \in Versions!Call /\ Versions!Idle.at \notin HasCopy
  BY DEF Versions!Call, Versions!Idle, HasCopy
<1>2. call' = [call EXCEPT ![c] = Versions!Idle] /\ Versions!Idle.op # "get"
  BY DEF Versions!Ends, Versions!Idle
<1> QED  BY <1>1, <1>2, CallMoves

LEMMA InsertKeeps ==
  ASSUME VersionInv, NEW c \in Callers,
         Versions!InsertOne(c) \/ Versions!InsertAgain(c)
  PROVE  VersionInv'
<1> DEFINE t == call[c].copy
           raised == [t EXCEPT !.version = @ + 1]
           op == call[c].op
<1>1. call[c].at \in {"insert", "again"} /\ UNCHANGED <<cache, warm>>
  BY DEF Versions!InsertOne, Versions!InsertAgain
<1>2. t \in Versions!Template
  BY <1>1 DEF VersionInv, HasCopy
<1>3. CASE ~Versions!Duplicate(t)
  <2>1. Versions!Write([templates EXCEPT ![t.id] = t]) /\ Versions!Inserted(c)
    BY <1>3 DEF Versions!InsertOne, Versions!InsertAgain
  <2> HIDE DEF t
  <2> QED  BY <1>1, <1>2, <1>3, <2>1, InsertedKeeps
<1>4. CASE Versions!Duplicate(t) /\ Versions!InsertOne(c)
  <2>1. /\ t.version < MaxVersion /\ Versions!Goes(c, op, "again", raised)
        /\ UNCHANGED <<templates, late>>
    BY <1>4 DEF Versions!InsertOne
  <2>2. raised \in Versions!Template
    BY <1>2, <2>1, RaisedTyped
  <2>3. op \in {"none", "get", "create", "default", "update", "delete"}
    BY CallTyped
  <2>4. call[c].at # "clear"
    BY <1>1
  <2> HIDE DEF t, raised, op
  <2> QED  BY <1>1, <2>1, <2>2, <2>3, <2>4, PrepareKeeps DEF HasCopy
<1>5. CASE Versions!Duplicate(t) /\ Versions!InsertAgain(c)
  <2>1. Versions!Ends(c) /\ UNCHANGED <<templates, late>>
    BY <1>5 DEF Versions!InsertAgain
  <2>2. call[c].at # "clear"
    BY <1>1
  <2> QED  BY <1>1, <2>1, <2>2, EndKeeps
<1> QED  BY <1>3, <1>4, <1>5

LEMMA CommitKeeps ==
  ASSUME VersionInv, NEW c \in Callers, Versions!Commit(c)
  PROVE  VersionInv'
<1> DEFINE t == call[c].copy
           put == IF call[c].op = "update" THEN t ELSE None
           op == call[c].op
           x == [op |-> op, at |-> "clear", copy |-> None]
           new == [templates EXCEPT ![t.id] = put]
<1>1. call[c].at = "write" /\ UNCHANGED <<cache, warm>>
  BY DEF Versions!Commit
<1>2. t \in Versions!Template
  BY <1>1 DEF VersionInv, HasCopy
<1>3. CASE templates[t.id] = None
  BY <1>1, <1>3, EndKeeps DEF Versions!Commit
<1>4. CASE templates[t.id] # None
  <2>1. Versions!Write(new) /\ Versions!Goes(c, op, "clear", None)
    BY <1>4 DEF Versions!Commit
  <2>2. new \in [Records -> Versions!Template \cup {None}]
    BY <1>2 DEF VersionInv
  <2>3. x \in Versions!Call /\ x.at = "clear"
    BY CallTyped DEF Versions!Call
  <2>4. call' = [call EXCEPT ![c] = x]
    BY <2>1 DEF Versions!Goes
  <2>5. call[c].at # "clear"
    BY <1>1
  <2> HIDE DEF new, x
  <2> QED  BY <1>1, <2>1, <2>2, <2>3, <2>4, <2>5, CallWrites
<1> QED  BY <1>3, <1>4

\* The names of the cache and of the warm-up are no callers.
LEMMA LateNames == \A c \in Callers : c # "cache" /\ c # Versions!Warmer
BY Parameters DEF Versions!TemplatesAssumption

\* What fills the cache without having been overtaken is stored and active.
LEMMA FillEffect ==
  ASSUME VersionInv, NEW who \in Callers \cup {Versions!Warmer},
         NEW copy \in Versions!Template, Versions!Fill(who, copy),
         who \notin late => copy \in Versions!Active, UNCHANGED templates
  PROVE  /\ cache' \in Versions!Template
         /\ late' \subseteq Callers \cup {Versions!Warmer, "cache"}
         /\ Versions!CacheIsCurrent'
         /\ \A d \in Callers \cup {Versions!Warmer} : d # who => (d \in late' <=> d \in late)
<1>1. who # "cache"
  BY LateNames DEF Versions!Warmer
<1>2. \A d \in Callers \cup {Versions!Warmer} : d # "cache"
  BY LateNames DEF Versions!Warmer
<1>3. Versions!Active' = Versions!Active
  BY DEF Versions!Active, Versions!Stored
<1>4. "cache" \notin late' => cache' \in Versions!Active'
  BY <1>1, <1>3 DEF Versions!Fill
<1> QED
  BY <1>1, <1>2, <1>4 DEF Versions!Fill, Versions!CacheIsCurrent, VersionInv, Versions!TypeOK

LEMMA AddKeeps ==
  ASSUME VersionInv, NEW c \in Callers, Versions!addTemplateToCache(c)
  PROVE  VersionInv'
<1> DEFINE copy == call[c].copy
<1>1. Versions!Filling(c) /\ Versions!Fill(c, copy) /\ UNCHANGED <<templates, warm>>
  BY DEF Versions!addTemplateToCache, Versions!At, Versions!Filling
<1>2. copy \in Versions!Template /\ (c \notin late => copy \in Versions!Active)
  BY <1>1 DEF VersionInv, Versions!Filling, HasCopy
<1> HIDE DEF copy
<1>3. /\ cache' \in Versions!Template
      /\ late' \subseteq Callers \cup {Versions!Warmer, "cache"}
      /\ Versions!CacheIsCurrent'
      /\ \A d \in Callers \cup {Versions!Warmer} : d # c => (d \in late' <=> d \in late)
  BY <1>1, <1>2, FillEffect
<1>4. Versions!Idle \in Versions!Call /\ Versions!Idle.at \notin HasCopy
      /\ Versions!Idle.op # "get"
  BY DEF Versions!Call, Versions!Idle, HasCopy
<1>5. /\ call'[c] = Versions!Idle /\ \A d \in Callers \ {c} : call'[d] = call[d]
      /\ call' \in [Callers -> Versions!Call]
  BY <1>4 DEF Versions!addTemplateToCache, Versions!Ends, VersionInv, Versions!TypeOK
<1>6. Versions!Active' = Versions!Active
  BY <1>1 DEF Versions!Active, Versions!Stored
<1>7. Versions!TypeOK' /\ templates' \in [Records -> Versions!Template \cup {None}]
  BY <1>1, <1>3, <1>5 DEF VersionInv, Versions!TypeOK
<1>8. \A d \in Callers :
         /\ call'[d].at \in HasCopy => call'[d].copy \in Versions!Template
         /\ Versions!Filling(d)' /\ d \notin late' => call'[d].copy \in Versions!Active'
  BY <1>3, <1>4, <1>5, <1>6 DEF VersionInv, Versions!Filling
<1>9. warm'.at = "fill" /\ Versions!Warmer \notin late'
      => warm'.copies \subseteq Versions!Active'
  BY <1>1, <1>3, <1>6, LateNames DEF VersionInv
<1> QED  BY <1>3, <1>7, <1>8, <1>9 DEF VersionInv

LEMMA InvalidateKeeps ==
  ASSUME VersionInv, NEW c \in Callers, Versions!Invalidate(c)
  PROVE  VersionInv'
<1>1. /\ cache' = None /\ late' = late \ {"cache"} /\ UNCHANGED <<templates, warm>>
  BY DEF Versions!Invalidate, Versions!invalidateTemplateCache
<1>2. Versions!Idle \in Versions!Call /\ Versions!Idle.at \notin HasCopy
      /\ Versions!Idle.op # "get"
  BY DEF Versions!Call, Versions!Idle, HasCopy
<1>3. /\ call'[c] = Versions!Idle /\ \A d \in Callers \ {c} : call'[d] = call[d]
      /\ call' \in [Callers -> Versions!Call]
  BY <1>2 DEF Versions!Invalidate, Versions!Ends, VersionInv, Versions!TypeOK
<1>4. Versions!Active' = Versions!Active
  BY <1>1 DEF Versions!Active, Versions!Stored
<1>5. Versions!TypeOK' /\ templates' \in [Records -> Versions!Template \cup {None}]
  BY <1>1, <1>3 DEF VersionInv, Versions!TypeOK
<1>6. Versions!CacheIsCurrent'
  BY <1>1 DEF Versions!CacheIsCurrent
<1>7. \A d \in Callers :
         /\ call'[d].at \in HasCopy => call'[d].copy \in Versions!Template
         /\ Versions!Filling(d)' /\ d \notin late' => call'[d].copy \in Versions!Active'
  BY <1>1, <1>2, <1>3, <1>4, LateNames DEF VersionInv, Versions!Filling
<1>8. warm'.at = "fill" /\ Versions!Warmer \notin late'
      => warm'.copies \subseteq Versions!Active'
  BY <1>1, <1>4 DEF VersionInv, Versions!Warmer
<1> QED  BY <1>5, <1>6, <1>7, <1>8 DEF VersionInv

\* The warm-up, which no caller waits for.
LEMMA LastListedIsOne ==
  ASSUME NEW T \in SUBSET Versions!Template, T # {}
  PROVE  Versions!LastListed(T) \in T
<1>1. \E t \in T : \A u \in T : t.version <= u.version
  BY LowestVersion
<1> QED  BY <1>1 DEF Versions!LastListed

LEMMA WarmKeeps ==
  ASSUME VersionInv, Versions!WarmUpRead \/ Versions!WarmUpFill
  PROVE  VersionInv'
<1>1. UNCHANGED <<templates, call>>
  BY DEF Versions!WarmUpRead, Versions!WarmUpFill
<1>2. Versions!Active' = Versions!Active
  BY <1>1 DEF Versions!Active, Versions!Stored
<1>3. CASE Versions!WarmUpRead
  <2>1. /\ UNCHANGED <<cache, late>>
        /\ warm' = [at |-> "fill", copies |-> Versions!Active]
           \/ warm' = [at |-> "done", copies |-> {}]
    BY <1>3 DEF Versions!WarmUpRead, Versions!GetActive
  <2>2. /\ warm'.at \in {"fill", "done"} /\ warm'.copies \subseteq Versions!Active
    BY <2>1
  <2>3. Versions!TypeOK'
    BY <1>1, <2>1, <2>2, ActiveTyped DEF VersionInv, Versions!TypeOK
  <2>4. Versions!CacheIsCurrent'
    BY <1>1, <1>2, <2>1 DEF VersionInv, Versions!CacheIsCurrent, Versions!Clearing
  <2> QED  BY <1>1, <1>2, <2>1, <2>2, <2>3, <2>4 DEF VersionInv, Versions!Filling
<1>4. CASE Versions!WarmUpFill
  <2>1. warm.at = "fill" /\ warm.copies \subseteq Versions!Template
    BY <1>4 DEF Versions!WarmUpFill, VersionInv, Versions!TypeOK
  <2>2. warm'.at = "done" /\ warm'.copies = {}
    BY <1>4 DEF Versions!WarmUpFill
  <2>3. /\ cache' \in Versions!Template \cup {None}
        /\ late' \subseteq Callers \cup {Versions!Warmer, "cache"}
        /\ Versions!CacheIsCurrent'
        /\ \A d \in Callers : d \in late' <=> d \in late
    <3>1. CASE warm.copies = {}
      <4>1. cache' = cache /\ late' = late \ {Versions!Warmer}
        BY <1>4, <3>1 DEF Versions!WarmUpFill
      <4>2. "cache" \notin late' => "cache" \notin late
        BY <4>1 DEF Versions!Warmer
      <4>3. Versions!CacheIsCurrent'
        BY <1>1, <1>2, <4>1, <4>2 DEF VersionInv, Versions!CacheIsCurrent, Versions!Clearing
      <4> QED  BY <4>1, <4>3, LateNames DEF VersionInv, Versions!TypeOK
    <3>2. CASE warm.copies # {}
      <4> DEFINE copy == Versions!LastListed(warm.copies)
      <4>1. Versions!Fill(Versions!Warmer, copy)
        BY <1>4, <3>2 DEF Versions!WarmUpFill
      <4>2. copy \in warm.copies
        BY <2>1, <3>2, LastListedIsOne
      <4>3. copy \in Versions!Template
            /\ (Versions!Warmer \notin late => copy \in Versions!Active)
        BY <2>1, <4>2 DEF VersionInv
      <4> HIDE DEF copy
      <4> QED  BY <1>1, <4>1, <4>3, FillEffect, LateNames
    <3> QED  BY <3>1, <3>2
  <2>4. Versions!TypeOK'
    BY <1>1, <2>2, <2>3 DEF VersionInv, Versions!TypeOK
  <2> QED  BY <1>1, <1>2, <2>2, <2>3, <2>4 DEF VersionInv, Versions!Filling
<1> QED  BY <1>3, <1>4

LEMMA VersionKeeps ==
  ASSUME VersionInv, [Versions!Next]_(Versions!vars)
  PROVE  VersionInv'
<1>1. CASE Versions!WarmUpRead \/ Versions!WarmUpFill
  BY <1>1, WarmKeeps
<1>2. ASSUME NEW c \in Callers, Versions!CallerStep(c)  PROVE VersionInv'
  BY <1>2, ReadKeeps, UpdateKeeps, CreateTemplateKeeps, InsertKeeps, CommitKeeps, AddKeeps,
     InvalidateKeeps DEF Versions!CallerStep
<1>3. CASE UNCHANGED Versions!vars
  BY <1>3
  DEF VersionInv, Versions!TypeOK, Versions!vars, Versions!CacheIsCurrent, Versions!Clearing,
      Versions!Active, Versions!Stored, Versions!Filling
<1> QED  BY <1>1, <1>2, <1>3 DEF Versions!Next

LEMMA VersionsOfAll == Spec => Versions!Spec
<1>1. Init => Versions!Init
  BY DEF Init
<1>2. [Next]_vars => [Versions!Next]_(Versions!vars)
  BY DEF Next, vars, versionVars, Versions!vars, BackupsStep, PagesStep,
         TemplatesStep, SmtpStep, WaitsStep, JobsStep
<1> QED  BY <1>1, <1>2, PTL DEF Spec, Versions!Spec

\* What an email is rendered from is stored and active, whatever edits, deactivations,
\* deletions, default templates and warm-ups overlap, unless a write overtook the read that
\* filled the cache (addTemplateToCache and invalidateTemplateCache of
\* notification_service.go).
THEOREM CachedIsStored == Spec => []CacheIsCurrent
<1>1. Versions!Init => VersionInv
  BY VersionInitially
<1>2. VersionInv /\ [Versions!Next]_(Versions!vars) => VersionInv'
  BY VersionKeeps
<1>3. VersionInv => CacheIsCurrent
  BY DEF VersionInv, CacheIsCurrent
<1> QED  BY VersionsOfAll, <1>1, <1>2, <1>3, PTL DEF Versions!Spec

-----------------------------------------------------------------------------
(* The connections that send emails.                                       *)

\* Where SendEmail is without a connection, and with one.  When the message was sent it
\* has it until it is released.
FreeAt == {"new", "get", "create", "retry", "failed", "told", "done"}
HeldAt == {"mail", "rcpt", "data", "message", "refused", "again"}
Sending ==
    [at : FreeAt \cup HeldAt \cup {"sent"}, conn : Records \cup {None}, attempt : 1..MaxTries]

SmtpTyped ==
    /\ server \in [Records -> {"closed", "ready", "open", "broken"}]
    /\ accepted \in [Callers -> Nat]
    /\ pool \subseteq Records /\ dialled \subseteq Records
    /\ cleaner \in [at : {"waiting", "draining", "returning", "ended"},
                    taken : SUBSET Records]
    /\ send \in [Callers -> Sending]
    /\ total \in [sent : Nat, failed : Nat]
    /\ dialing \in 0..MaxIdleConns
    /\ gone \in BOOLEAN /\ panicked \in BOOLEAN

\* An attempt that has not come to its message leaves room for one acceptance more.
EmailInv(e) ==
    /\ send[e].at \in FreeAt => send[e].conn = None
    /\ send[e].at \in HeldAt => send[e].conn # None
    /\ accepted[e] <= send[e].attempt
    /\ send[e].at \in {"new", "get", "create", "mail", "rcpt", "data", "message"}
       => accepted[e] < send[e].attempt
    /\ send[e].at \in {"sent", "told"} => accepted[e] > 0

Holding == {e \in Callers : send[e].conn # None}
Ended == {e \in Callers : send[e].at \in {"told", "done"}}
CountInv ==
    /\ active = Cardinality(Holding)
    /\ total.sent + total.failed = Cardinality(Ended)

\* A connection that is not closed is in one place: with one sender, in the pool, with
\* the goroutines of the start or with the cleanup.
OneHolder ==
    \A e, f \in Callers : send[e].conn = send[f].conn /\ send[e].conn # None => e = f
HeldApart ==
    \A e \in Callers : send[e].conn # None =>
        /\ send[e].conn \notin pool /\ send[e].conn \notin dialled
        /\ send[e].conn \notin cleaner.taken /\ server[send[e].conn] # "closed"
KeptApart ==
    \A c \in Records :
        /\ c \in pool => c \notin dialled /\ c \notin cleaner.taken
        /\ c \in dialled => c \notin cleaner.taken
        /\ c \in pool \/ c \in dialled \/ c \in cleaner.taken => server[c] # "closed"
NoneLost ==
    \A c \in Records : server[c] # "closed" =>
        \/ c \in pool \/ c \in dialled \/ c \in cleaner.taken
        \/ \E e \in Callers : send[e].conn = c
PlaceInv == OneHolder /\ HeldApart /\ KeptApart /\ NoneLost

SmtpInv ==
    /\ SmtpTyped
    /\ \A e \in Callers : EmailInv(e)
    /\ CountInv
    /\ ~panicked => PlaceInv

LEMMA SmtpConstants ==
  /\ MaxTries \in Nat \ {0} /\ MaxIdleConns \in Nat /\ MaxConnections \in Nat
  /\ IsFiniteSet(Callers) /\ None \notin Records
<1>1. Smtp!EmailAssumption
  BY Parameters
<1>2. IsFiniteSet(Callers)
  BY <1>1 DEF Smtp!EmailAssumption, Smtp!IsFiniteSet, IsFiniteSet
<1> QED  BY <1>1, <1>2 DEF Smtp!EmailAssumption

LEMMA SmtpInitially ==
  ASSUME Smtp!Init
  PROVE  SmtpInv
<1> USE SmtpConstants
<1>1. \A e \in Callers : send[e] = [at |-> "new", conn |-> None, attempt |-> 1]
  BY DEF Smtp!Init
<1>2. send \in [Callers -> Sending]
  BY DEF Smtp!Init, Sending, FreeAt
<1>3. SmtpTyped
  <2>1. cleaner \in [at : {"waiting", "draining", "returning", "ended"},
                   taken : SUBSET Records]
    BY DEF Smtp!Init, Smtp!Waiting
  <2>2. total \in [sent : Nat, failed : Nat]
    BY DEF Smtp!Init
  <2>3. dialing \in 0..MaxIdleConns
    BY DEF Smtp!Init
  <2> QED  BY <1>2, <2>1, <2>2, <2>3 DEF Smtp!Init, SmtpTyped
<1>4. \A e \in Callers : EmailInv(e)
  BY <1>1 DEF Smtp!Init, EmailInv, FreeAt, HeldAt
<1>5. Holding = {} /\ Ended = {}
  BY <1>1 DEF Holding, Ended
<1>6. CountInv
  BY <1>5, FS_EmptySet DEF Smtp!Init, CountInv
<1>7. PlaceInv
  BY <1>1 DEF Smtp!Init, PlaceInv, OneHolder, HeldApart, KeptApart, NoneLost, Smtp!Waiting
<1> QED  BY <1>3, <1>4, <1>6, <1>7 DEF SmtpInv

\* Where a step of one email leads.
Moves(e, at, conn, n) ==
    /\ send' \in [Callers -> Sending]
    /\ send'[e].at = at /\ send'[e].conn = conn /\ send'[e].attempt = n
    /\ \A d \in Callers \ {e} : send'[d] = send[d]

LEMMA SendingTyped ==
  ASSUME SmtpTyped, NEW e \in Callers
  PROVE  /\ send[e] \in Sending
         /\ send[e].conn \in Records \cup {None}
         /\ send[e].attempt \in 1..MaxTries
         /\ send[e].attempt \in Nat
         /\ accepted[e] \in Nat
BY SmtpConstants DEF SmtpTyped, Sending

LEMMA GoesMoves ==
  ASSUME SmtpTyped, NEW e \in Callers,
         NEW at \in FreeAt \cup HeldAt \cup {"sent"}, Smtp!Goes(e, at)
  PROVE  Moves(e, at, send[e].conn, send[e].attempt)
<1> DEFINE s == send[e]
           new == [s EXCEPT !.at = at]
<1>1. new \in Sending /\ new.at = at /\ new.conn = s.conn /\ new.attempt = s.attempt
  BY SendingTyped DEF Sending
<1>2. send' = [send EXCEPT ![e] = new]
  BY DEF Smtp!Goes
<1> HIDE DEF new, s
<1>3. Moves(e, at, s.conn, s.attempt)
  BY <1>1, <1>2 DEF Moves, SmtpTyped
<1> QED  BY <1>3 DEF s

LEMMA TakeMoves ==
  ASSUME SmtpTyped, NEW e \in Callers, NEW c \in Records, Smtp!Take(e, c)
  PROVE  Moves(e, "mail", c, send[e].attempt) /\ active' = active + 1
<1> DEFINE s == send[e]
           new == [s EXCEPT !.at = "mail", !.conn = c]
<1>1. new \in Sending /\ new.at = "mail" /\ new.conn = c /\ new.attempt = s.attempt
  BY SendingTyped DEF Sending, HeldAt
<1>2. send' = [send EXCEPT ![e] = new]
  BY DEF Smtp!Take
<1> HIDE DEF new, s
<1>3. Moves(e, "mail", c, s.attempt)
  BY <1>1, <1>2 DEF Moves, SmtpTyped
<1> QED  BY <1>3 DEF s, Smtp!Take

\* The counts of who holds a connection and of who has ended.
LEMMA Counted ==
  ASSUME SmtpTyped
  PROVE  /\ IsFiniteSet(Holding) /\ Cardinality(Holding) \in Nat
         /\ IsFiniteSet(Ended) /\ Cardinality(Ended) \in Nat
         /\ Cardinality(Holding) <= Cardinality(Callers)
         /\ Cardinality(Ended) <= Cardinality(Callers)
         /\ Cardinality(Callers) \in Nat
<1>1. Holding \subseteq Callers /\ Ended \subseteq Callers
  BY DEF Holding, Ended
<1> QED  BY <1>1, SmtpConstants, FS_Subset, FS_CardinalityType

LEMMA HoldingMoves ==
  ASSUME SmtpTyped, NEW e \in Callers, NEW at, NEW conn, NEW n, Moves(e, at, conn, n)
  PROVE  /\ (conn # None <=> send[e].conn # None) => Holding' = Holding
         /\ send[e].conn = None /\ conn # None
            => Cardinality(Holding') = Cardinality(Holding) + 1
         /\ send[e].conn # None /\ conn = None
            => Cardinality(Holding') = Cardinality(Holding) - 1
<1>1. \A d \in Callers : d # e => (d \in Holding' <=> d \in Holding)
  BY DEF Moves, Holding
<1>2. e \in Holding' <=> conn # None
  BY DEF Moves, Holding
<1>3. e \in Holding <=> send[e].conn # None
  BY DEF Holding
<1>4. Holding \subseteq Callers /\ Holding' \subseteq Callers
  BY DEF Holding
<1>5. IsFiniteSet(Holding)
  BY Counted
<1>6. ASSUME send[e].conn = None, conn # None
      PROVE  Cardinality(Holding') = Cardinality(Holding) + 1
  <2>1. Holding' = Holding \cup {e} /\ e \notin Holding
    BY <1>1, <1>2, <1>3, <1>4, <1>6
  <2> QED  BY <2>1, <1>5, FS_AddElement
<1>7. ASSUME send[e].conn # None, conn = None
      PROVE  Cardinality(Holding') = Cardinality(Holding) - 1
  <2>1. Holding' = Holding \ {e} /\ e \in Holding
    BY <1>1, <1>2, <1>3, <1>4, <1>7
  <2> QED  BY <2>1, <1>5, FS_RemoveElement
<1>8. (conn # None <=> send[e].conn # None) => Holding' = Holding
  BY <1>1, <1>2, <1>3, <1>4
<1> QED  BY <1>6, <1>7, <1>8

LEMMA EndedMoves ==
  ASSUME SmtpTyped, NEW e \in Callers, NEW at, NEW conn, NEW n, Moves(e, at, conn, n),
         send[e].at \notin {"told", "done"}
  PROVE  /\ at \notin {"told", "done"} => Ended' = Ended
         /\ at \in {"told", "done"} => Cardinality(Ended') = Cardinality(Ended) + 1
<1>1. \A d \in Callers : d # e => (d \in Ended' <=> d \in Ended)
  BY DEF Moves, Ended
<1>2. (e \in Ended' <=> at \in {"told", "done"}) /\ e \notin Ended
  BY DEF Moves, Ended
<1>3. Ended \subseteq Callers /\ Ended' \subseteq Callers
  BY DEF Ended
<1>4. IsFiniteSet(Ended)
  BY Counted
<1>5. ASSUME at \in {"told", "done"}
      PROVE  Cardinality(Ended') = Cardinality(Ended) + 1
  <2>1. Ended' = Ended \cup {e}
    BY <1>1, <1>2, <1>3, <1>5
  <2> QED  BY <2>1, <1>2, <1>4, FS_AddElement
<1>6. at \notin {"told", "done"} => Ended' = Ended
  BY <1>1, <1>2, <1>3
<1> QED  BY <1>5, <1>6

LEMMA EmailsMove ==
  ASSUME SmtpInv, NEW e \in Callers, NEW at, NEW conn, NEW n, Moves(e, at, conn, n),
         at \in FreeAt => conn = None, at \in HeldAt => conn # None,
         \A d \in Callers \ {e} : accepted'[d] = accepted[d],
         accepted'[e] <= n,
         at \in {"new", "get", "create", "mail", "rcpt", "data", "message"}
         => accepted'[e] < n,
         at \in {"sent", "told"} => accepted'[e] > 0
  PROVE  \A d \in Callers : EmailInv(d)'
BY DEF SmtpInv, EmailInv, Moves

LEMMA CountsMove ==
  ASSUME SmtpInv, NEW e \in Callers, NEW at, NEW conn, NEW n, Moves(e, at, conn, n),
         send[e].at \notin {"told", "done"},
         \/ (conn # None <=> send[e].conn # None) /\ active' = active
         \/ send[e].conn = None /\ conn # None /\ active' = active + 1
         \/ send[e].conn # None /\ conn = None /\ active' = active - 1,
         \/ at \notin {"told", "done"} /\ total' = total
         \/ /\ at \in {"told", "done"}
            /\ total'.sent + total'.failed = total.sent + total.failed + 1
  PROVE  CountInv'
<1> USE DEF SmtpInv
<1>1. active' = Cardinality(Holding')
  <2>1. Cardinality(Holding) \in Nat
    BY Counted
  <2> QED  BY <2>1, HoldingMoves DEF CountInv
<1>2. total'.sent + total'.failed = Cardinality(Ended')
  BY EndedMoves DEF CountInv
<1> QED  BY <1>1, <1>2 DEF CountInv, Holding, Ended

\* SendEmail takes the email, or refuses it.
LEMMA SendEmailKeeps ==
  ASSUME SmtpInv, NEW e \in Callers, Smtp!SendEmail(e)
  PROVE  SmtpInv'
<1> USE DEF SmtpInv
<1>1. /\ ~panicked /\ send[e].at = "new" /\ send[e].conn = None
      /\ accepted[e] < send[e].attempt /\ accepted[e] <= send[e].attempt
  BY DEF Smtp!SendEmail, Smtp!At, EmailInv, FreeAt
<1>2. /\ UNCHANGED <<server, accepted, pool, gone, active, dialing, dialled, cleaner, panicked>>
  BY DEF Smtp!SendEmail, Smtp!outside, Smtp!starting
<1>3. PICK at \in {"get", "done"} :
         /\ Smtp!Goes(e, at)
         /\ at = "get" => total' = total
         /\ at = "done" => total' = [total EXCEPT !.failed = @ + 1]
  BY DEF Smtp!SendEmail, Smtp!Count
<1>4. Moves(e, at, None, send[e].attempt)
  BY <1>1, <1>3, GoesMoves DEF FreeAt
<1>5. /\ total' \in [sent : Nat, failed : Nat]
      /\ at = "done" => total'.sent + total'.failed = total.sent + total.failed + 1
  BY <1>3 DEF SmtpTyped
<1>6. SmtpTyped'
  BY <1>2, <1>4, <1>5 DEF SmtpTyped, Moves
<1>7. \A d \in Callers : EmailInv(d)'
  BY <1>1, <1>2, <1>3, <1>4, EmailsMove DEF HeldAt
<1>8. CountInv'
  BY <1>1, <1>2, <1>3, <1>4, <1>5, CountsMove
<1>9. PlaceInv'
  BY <1>1, <1>2, <1>4 DEF PlaceInv, OneHolder, HeldApart, KeptApart, NoneLost, Moves
<1> QED  BY <1>6, <1>7, <1>8, <1>9

\* getConnection and createConnection, which leave the sender with a connection or
\* without.
LEMMA TakeKeeps ==
  ASSUME SmtpInv, NEW e \in Callers, NEW c \in Records, ~panicked,
         send[e].at \in {"get", "create"}, Smtp!Take(e, c),
         \/ c \in pool /\ pool' = pool \ {c} /\ UNCHANGED server
         \/ Smtp!Unused(c) /\ server' = [server EXCEPT ![c] = "ready"] /\ UNCHANGED pool,
         UNCHANGED <<accepted, gone, total, dialing, dialled, cleaner, panicked>>
  PROVE  SmtpInv'
<1> USE DEF SmtpInv
<1>1. /\ send[e].conn = None /\ c # None
      /\ accepted[e] < send[e].attempt /\ accepted[e] <= send[e].attempt
  BY SmtpConstants DEF EmailInv, FreeAt
<1>2. Moves(e, "mail", c, send[e].attempt) /\ active' = active + 1
  BY TakeMoves
<1>3. SmtpTyped'
  BY <1>2 DEF SmtpTyped, Moves
<1>4. \A d \in Callers : EmailInv(d)'
  BY <1>1, <1>2, EmailsMove DEF FreeAt, HeldAt
<1>5. CountInv'
  BY <1>1, <1>2, CountsMove
<1>6. PlaceInv'
  <2>1. /\ \A f \in Callers : send[f].conn # c
        /\ c \notin pool' /\ c \notin dialled /\ c \notin cleaner.taken
        /\ server'[c] # "closed"
        /\ \A d \in Records \ {c} : server'[d] = server[d] /\ (d \in pool' <=> d \in pool)
        /\ pool' \subseteq pool
    <3>1. CASE c \in pool /\ pool' = pool \ {c} /\ UNCHANGED server
      BY <1>1, <3>1 DEF PlaceInv, HeldApart, KeptApart
    <3>2. CASE Smtp!Unused(c) /\ server' = [server EXCEPT ![c] = "ready"] /\ UNCHANGED pool
      <4>1. /\ \A f \in Callers : send[f].conn # c
            /\ c \notin pool /\ c \notin dialled /\ server[c] = "closed"
        BY <3>2 DEF Smtp!Unused, Smtp!Held
      <4>2. c \notin cleaner.taken
        BY <4>1 DEF PlaceInv, KeptApart
      <4> QED  BY <3>2, <4>1, <4>2 DEF SmtpTyped
    <3> QED  BY <3>1, <3>2
  <2>2. \A f \in Callers : send[f].conn # None => send[f].conn \in Records \ {c}
    BY <2>1, SendingTyped
  <2>3. send'[e].conn = c /\ \A d \in Callers \ {e} : send'[d].conn = send[d].conn
    BY <1>2 DEF Moves
  <2>4. OneHolder'
    BY <2>1, <2>3 DEF PlaceInv, OneHolder
  <2>5. HeldApart'
    BY <2>1, <2>2, <2>3 DEF PlaceInv, HeldApart
  <2>6. KeptApart'
    BY <2>1 DEF PlaceInv, KeptApart
  <2>7. NoneLost'
    <3>1. ASSUME NEW d \in Records \ {c}, server'[d] # "closed"
          PROVE  \/ d \in pool' \/ d \in dialled' \/ d \in cleaner'.taken
                 \/ \E f \in Callers : send'[f].conn = d
      <4>1. \A f \in Callers : send[f].conn = d => f # e
        BY <1>1, SmtpConstants
      <4> QED  BY <2>1, <2>3, <3>1, <4>1 DEF PlaceInv, NoneLost
    <3> QED  BY <2>3, <3>1 DEF NoneLost
  <2> QED  BY <2>4, <2>5, <2>6, <2>7 DEF PlaceInv
<1> QED  BY <1>3, <1>4, <1>5, <1>6

LEMMA WithoutKeeps ==
  ASSUME SmtpInv, NEW e \in Callers, ~panicked,
         send[e].at \in {"get", "create"}, NEW at \in {"create", "retry"}, Smtp!Goes(e, at),
         \/ \E c \in pool : pool' = pool \ {c} /\ Smtp!CloseConn(c)
         \/ UNCHANGED <<server, pool>>,
         UNCHANGED <<accepted, gone, active, total, dialing, dialled, cleaner, panicked>>
  PROVE  SmtpInv'
<1> USE DEF SmtpInv
<1>1. /\ send[e].conn = None
      /\ accepted[e] < send[e].attempt /\ accepted[e] <= send[e].attempt
  BY DEF EmailInv, FreeAt
<1>2. Moves(e, at, None, send[e].attempt)
  BY <1>1, GoesMoves DEF FreeAt
<1>3. SmtpTyped'
  BY <1>2 DEF SmtpTyped, Moves, Smtp!CloseConn
<1>4. \A d \in Callers : EmailInv(d)'
  BY <1>1, <1>2, EmailsMove DEF HeldAt
<1>5. CountInv'
  BY <1>1, <1>2, CountsMove
<1>6. \A d \in Callers : send'[d].conn = send[d].conn
  BY <1>1, <1>2 DEF Moves
<1>7. PlaceInv'
  <2>1. CASE UNCHANGED <<server, pool>>
    BY <1>6, <2>1 DEF PlaceInv, OneHolder, HeldApart, KeptApart, NoneLost
  <2>2. ASSUME NEW c \in pool, pool' = pool \ {c}, Smtp!CloseConn(c)
        PROVE  PlaceInv'
    <3>1. /\ c \in Records /\ server'[c] = "closed"
          /\ \A d \in Records \ {c} : server'[d] = server[d]
      BY <2>2 DEF Smtp!CloseConn, SmtpTyped
    <3>2. \A f \in Callers : send[f].conn # c
      BY <2>2, <3>1, SmtpConstants DEF PlaceInv, HeldApart
    <3>3. OneHolder' /\ KeptApart' /\ NoneLost'
      BY <1>6, <2>2, <3>1 DEF PlaceInv, OneHolder, KeptApart, NoneLost
    <3>4. HeldApart'
      BY <1>6, <2>2, <3>1, <3>2, SendingTyped DEF PlaceInv, HeldApart
    <3> QED  BY <3>3, <3>4 DEF PlaceInv
  <2> QED  BY <2>1, <2>2
<1> QED  BY <1>3, <1>4, <1>5, <1>7

LEMMA GetKeeps ==
  ASSUME SmtpInv, NEW e \in Callers,
         Smtp!GetPooled(e) \/ Smtp!GetNone(e) \/ Smtp!CreateConnection(e)
  PROVE  SmtpInv'
<1>1. /\ ~panicked /\ send[e].at \in {"get", "create"}
      /\ UNCHANGED <<accepted, gone, total, dialing, dialled, cleaner, panicked>>
  BY DEF Smtp!GetPooled, Smtp!GetNone, Smtp!CreateConnection, Smtp!At, Smtp!outside,
         Smtp!starting
<1>2. pool \subseteq Records
  BY DEF SmtpInv, SmtpTyped
<1>3. CASE Smtp!GetPooled(e)
  <2>1. PICK c \in pool :
           /\ pool' = pool \ {c}
           /\ \/ Smtp!Take(e, c) /\ UNCHANGED server
              \/ Smtp!CloseConn(c) /\ Smtp!Goes(e, "create") /\ UNCHANGED active
    BY <1>3 DEF Smtp!GetPooled
  <2>2. CASE Smtp!Take(e, c) /\ UNCHANGED server
    BY <1>1, <1>2, <2>1, <2>2, TakeKeeps
  <2>3. CASE Smtp!CloseConn(c) /\ Smtp!Goes(e, "create") /\ UNCHANGED active
    BY <1>1, <2>1, <2>3, WithoutKeeps
  <2> QED  BY <2>1, <2>2, <2>3
<1>4. CASE Smtp!GetNone(e)
  BY <1>1, <1>4, WithoutKeeps DEF Smtp!GetNone, Smtp!outside
<1>5. CASE Smtp!CreateConnection(e)
  <2>1. CASE Smtp!Goes(e, "retry") /\ UNCHANGED <<server, active>>
    BY <1>1, <1>5, <2>1, WithoutKeeps DEF Smtp!CreateConnection
  <2>2. ASSUME NEW c \in Records, Smtp!Unused(c), server' = [server EXCEPT ![c] = "ready"],
               Smtp!Take(e, c)
        PROVE  SmtpInv'
    BY <1>1, <1>5, <2>2, TakeKeeps DEF Smtp!CreateConnection
  <2> QED  BY <1>5, <2>1, <2>2 DEF Smtp!CreateConnection
<1> QED  BY <1>3, <1>4, <1>5

\* A command on the sender's connection, which is not closed by it.
LEMMA CommandKeeps ==
  ASSUME SmtpInv, NEW e \in Callers, ~panicked,
         send[e].at \in {"mail", "rcpt", "data", "message"},
         NEW state \in {"ready", "open", "broken"},
         NEW at \in HeldAt \cup {"sent"}, Smtp!Command(e, state, at),
         \/ at # "sent" /\ UNCHANGED accepted
         \/ at \in {"sent", "again"} /\ Smtp!Accepts(e)
  PROVE  SmtpInv'
<1> USE DEF SmtpInv
<1> DEFINE c == send[e].conn
           n == send[e].attempt
<1>1. c \in Records /\ c # None /\ accepted[e] < n /\ accepted[e] \in Nat /\ n \in Nat
  BY SendingTyped DEF EmailInv, HeldAt
<1>2. server' = [server EXCEPT ![c] = state] /\ Smtp!Goes(e, at)
  BY DEF Smtp!Command, Smtp!Held
<1>3. UNCHANGED <<pool, gone, active, total, dialing, dialled, cleaner, panicked>>
  BY DEF Smtp!Command, Smtp!starting
<1> HIDE DEF c, n
<1>4. Moves(e, at, c, n)
  BY <1>2, GoesMoves DEF c, n
<1>5. /\ accepted' \in [Callers -> Nat]
      /\ \A d \in Callers \ {e} : accepted'[d] = accepted[d]
      /\ \/ at # "sent" /\ accepted'[e] = accepted[e]
         \/ at \in {"sent", "again"} /\ accepted'[e] = accepted[e] + 1
  BY DEF SmtpTyped, Smtp!Accepts
<1>6. SmtpTyped'
  BY <1>1, <1>2, <1>3, <1>4, <1>5 DEF SmtpTyped, Moves
<1>7. \A d \in Callers : EmailInv(d)'
  <2>1. accepted'[e] <= n
    BY <1>1, <1>5
  <2>2. at \in {"new", "get", "create", "mail", "rcpt", "data", "message"}
        => accepted'[e] < n
    BY <1>1, <1>5
  <2>3. at \in {"sent", "told"} => accepted'[e] > 0
    BY <1>1, <1>5 DEF HeldAt
  <2>4. at \in FreeAt => c = None
    BY DEF FreeAt, HeldAt
  <2> QED  BY <1>1, <1>4, <1>5, <2>1, <2>2, <2>3, <2>4, EmailsMove
<1>8. CountInv'
  BY <1>1, <1>3, <1>4, CountsMove DEF c, HeldAt
<1>9. \A d \in Callers : send'[d].conn = send[d].conn
  BY <1>4 DEF Moves, c
<1>10. \A d \in Records : server'[d] = "closed" <=> server[d] = "closed"
  <2>1. server[c] # "closed"
    BY <1>1 DEF PlaceInv, HeldApart, c
  <2> QED  BY <1>1, <1>2, <2>1 DEF SmtpTyped
<1>11. PlaceInv'
  <2>1. OneHolder' /\ KeptApart' /\ NoneLost'
    BY <1>3, <1>9, <1>10 DEF PlaceInv, OneHolder, KeptApart, NoneLost
  <2>2. HeldApart'
    BY <1>3, <1>9, <1>10, SendingTyped DEF PlaceInv, HeldApart
  <2> QED  BY <2>1, <2>2 DEF PlaceInv
<1> QED  BY <1>6, <1>7, <1>8, <1>11

LEMMA CommandsKeep ==
  ASSUME SmtpInv, NEW e \in Callers,
         Smtp!Mail(e) \/ Smtp!Rcpt(e) \/ Smtp!Data(e) \/ Smtp!Message(e)
  PROVE  SmtpInv'
<1> USE DEF HeldAt
<1>1. /\ ~panicked /\ send[e].at \in {"mail", "rcpt", "data", "message"}
  BY DEF Smtp!Mail, Smtp!Rcpt, Smtp!Data, Smtp!Message, Smtp!At
<1>2. CASE Smtp!Mail(e)
  <2>1. \E state \in {"ready", "open", "broken"}, at \in HeldAt \cup {"sent"} :
           Smtp!Command(e, state, at) /\ at # "sent" /\ UNCHANGED accepted
    <3>1. CASE Smtp!Command(e, "open", "rcpt") /\ UNCHANGED accepted
      BY <3>1
    <3>2. CASE Smtp!Breaks(e)
      BY <3>2 DEF Smtp!Breaks
    <3>3. ASSUME NEW at \in Smtp!Refusal, Smtp!Live(Smtp!Held(e)),
                 Smtp!Command(e, server[Smtp!Held(e)], at), UNCHANGED accepted
          PROVE  \E state \in {"ready", "open", "broken"} : Smtp!Command(e, state, at)
      <4> DEFINE state == server[Smtp!Held(e)]
      <4>1. Smtp!Held(e) \in Records
        BY <1>1, SendingTyped DEF SmtpInv, EmailInv, Smtp!Held
      <4>2. state \in {"ready", "open", "broken"}
        BY <3>3, <4>1 DEF SmtpInv, SmtpTyped, Smtp!Live
      <4>3. Smtp!Command(e, state, at)
        BY <3>3
      <4> HIDE DEF state
      <4> QED  BY <4>2, <4>3
    <3> QED  BY <1>2, <3>1, <3>2, <3>3 DEF Smtp!Mail, Smtp!Refusal
  <2> QED  BY <1>1, <2>1, CommandKeeps
<1>3. CASE Smtp!Rcpt(e) \/ Smtp!Data(e)
  <2>1. \E state \in {"ready", "open", "broken"}, at \in HeldAt \cup {"sent"} :
           Smtp!Command(e, state, at) /\ at # "sent" /\ UNCHANGED accepted
    BY <1>3 DEF Smtp!Rcpt, Smtp!Data, Smtp!Refusal, Smtp!Breaks
  <2> QED  BY <1>1, <2>1, CommandKeeps
<1>4. CASE Smtp!Message(e)
  <2>1. \E state \in {"ready", "open", "broken"}, at \in HeldAt \cup {"sent"} :
           /\ Smtp!Command(e, state, at)
           /\ \/ at # "sent" /\ UNCHANGED accepted
              \/ at \in {"sent", "again"} /\ Smtp!Accepts(e)
    BY <1>4 DEF Smtp!Message
  <2> QED  BY <1>1, <2>1, CommandKeeps
<1> QED  BY <1>2, <1>3, <1>4

\* A connection that leaves whoever had it for the pool, or is closed.
LEMMA LeftOrClosed ==
  ASSUME SmtpInv, ~panicked, NEW c \in Records, c \notin pool, server[c] # "closed",
         \/ pool' = pool \cup {c} /\ UNCHANGED server
         \/ Smtp!CloseConn(c) /\ UNCHANGED pool,
         \A f \in Callers :
            send'[f].conn = IF send[f].conn = c THEN None ELSE send[f].conn,
         dialled' = dialled \ {c}, cleaner'.taken = cleaner.taken \ {c}
  PROVE  PlaceInv'
<1> USE DEF SmtpInv
<1>1. /\ \A d \in Records \ {c} : server'[d] = server[d] /\ (d \in pool' <=> d \in pool)
      /\ server'[c] # "closed" <=> c \in pool'
  BY DEF SmtpTyped, Smtp!CloseConn
<1>2. \A f \in Callers : send'[f].conn # None =>
         send'[f].conn = send[f].conn /\ send[f].conn \in Records \ {c}
  BY SendingTyped
<1>3. OneHolder'
  BY <1>2 DEF PlaceInv, OneHolder
<1>4. HeldApart'
  BY <1>1, <1>2 DEF PlaceInv, HeldApart
<1>5. KeptApart'
  BY <1>1 DEF PlaceInv, KeptApart
<1>6. NoneLost'
  BY <1>1 DEF PlaceInv, NoneLost
<1> QED  BY <1>3, <1>4, <1>5, <1>6 DEF PlaceInv

\* A pooled connection that is closed.
LEMMA PooledClosed ==
  ASSUME SmtpInv, ~panicked, NEW c \in pool, pool' = pool \ {c}, Smtp!CloseConn(c),
         UNCHANGED <<send, dialled, cleaner>>
  PROVE  PlaceInv'
<1> USE DEF SmtpInv
<1>1. /\ c \in Records /\ server'[c] = "closed"
      /\ \A d \in Records \ {c} : server'[d] = server[d]
  BY DEF SmtpTyped, Smtp!CloseConn
<1>2. \A f \in Callers : send[f].conn # c
  BY <1>1, SmtpConstants DEF PlaceInv, HeldApart
<1>3. OneHolder' /\ KeptApart' /\ NoneLost'
  BY <1>1 DEF PlaceInv, OneHolder, KeptApart, NoneLost
<1>4. HeldApart'
  BY <1>1, <1>2, SendingTyped DEF PlaceInv, HeldApart
<1> QED  BY <1>3, <1>4 DEF PlaceInv

LEMMA PutBackEffect ==
  ASSUME NEW c, Smtp!PutBack(c)
  PROVE  \/ panicked' = TRUE /\ UNCHANGED <<server, pool>>
         \/ /\ panicked' = panicked
            /\ \/ pool' = pool \cup {c} /\ UNCHANGED server
               \/ Smtp!CloseConn(c) /\ UNCHANGED pool
BY DEF Smtp!PutBack

LEMMA KeptTyped ==
  ASSUME SmtpTyped, NEW c \in Records,
         \/ pool' = pool \cup {c} /\ UNCHANGED server
         \/ Smtp!CloseConn(c) /\ UNCHANGED pool
         \/ UNCHANGED <<server, pool>>
  PROVE  /\ server' \in [Records -> {"closed", "ready", "open", "broken"}]
         /\ pool' \subseteq Records
BY DEF SmtpTyped, Smtp!CloseConn

\* releaseConnection: the outcome of the attempt stays, the connection goes.
LEMMA ReleaseMoves ==
  ASSUME SmtpTyped, NEW e \in Callers, Smtp!Release(e)
  PROVE  \E at \in {"sent", "failed", "retry"} :
            /\ Moves(e, at, None, send[e].attempt)
            /\ at = "sent" => send[e].at = "sent"
            /\ send[e].at \in {"sent", "refused", "again"}
<1> DEFINE s == send[e]
           at == Smtp!After[s.at]
           new == [s EXCEPT !.at = at, !.conn = None]
<1>1. s \in Sending /\ s.at \in {"sent", "refused", "again"}
  BY SendingTyped DEF Smtp!Release, Smtp!After
<1>2. at \in {"sent", "failed", "retry"} /\ (at = "sent" => s.at = "sent")
  BY <1>1 DEF Smtp!After
<1>3. send' = [send EXCEPT ![e] = new]
  BY DEF Smtp!Release
<1> HIDE DEF s, at
<1>4. new \in Sending /\ new.at = at /\ new.conn = None /\ new.attempt = s.attempt
  BY <1>1, <1>2 DEF Sending, FreeAt
<1> HIDE DEF new
<1>5. Moves(e, at, None, s.attempt)
  BY <1>3, <1>4 DEF Moves, SmtpTyped
<1> QED  BY <1>1, <1>2, <1>5 DEF s

LEMMA ReleaseKeeps ==
  ASSUME SmtpInv, NEW e \in Callers, Smtp!Release(e)
  PROVE  SmtpInv'
<1> USE DEF SmtpInv
<1> DEFINE c == send[e].conn
           n == send[e].attempt
<1>1. PICK at \in {"sent", "failed", "retry"} :
         /\ Moves(e, at, None, n)
         /\ at = "sent" => send[e].at = "sent"
         /\ send[e].at \in {"sent", "refused", "again"}
  BY ReleaseMoves
<1>2. /\ ~panicked /\ c # None /\ c \in Records
      /\ UNCHANGED <<accepted, gone, total, dialing, dialled, cleaner>>
      /\ active' = active - 1
  BY SendingTyped DEF Smtp!Release, Smtp!Held, Smtp!starting
<1>3. \/ Smtp!PutBack(c)
      \/ Smtp!CloseConn(c) /\ UNCHANGED <<pool, panicked>>
  BY DEF Smtp!Release, Smtp!Held
<1> HIDE DEF c
<1>4. \/ panicked' = TRUE /\ UNCHANGED <<server, pool>>
      \/ /\ panicked' = panicked
         /\ \/ pool' = pool \cup {c} /\ UNCHANGED server
            \/ Smtp!CloseConn(c) /\ UNCHANGED pool
  BY <1>3, PutBackEffect
<1>5. SmtpTyped'
  <2>1. /\ server' \in [Records -> {"closed", "ready", "open", "broken"}]
        /\ pool' \subseteq Records
    BY <1>2, <1>4, KeptTyped
  <2> QED  BY <1>1, <1>2, <1>4, <2>1 DEF SmtpTyped, Moves
<1>6. \A d \in Callers : EmailInv(d)'
  <2>1. accepted[e] <= n /\ (at = "sent" => accepted[e] > 0)
    BY <1>1 DEF EmailInv
  <2> QED  BY <1>1, <1>2, <2>1, EmailsMove DEF HeldAt
<1>7. CountInv'
  BY <1>1, <1>2, CountsMove DEF c
<1>8. ~panicked' => PlaceInv'
  <2>1. /\ c \notin pool /\ server[c] # "closed" /\ c \notin dialled /\ c \notin cleaner.taken
        /\ \A f \in Callers \ {e} : send[f].conn # c
    BY <1>2 DEF PlaceInv, HeldApart, OneHolder, c
  <2>2. \A f \in Callers :
           send'[f].conn = IF send[f].conn = c THEN None ELSE send[f].conn
    BY <1>1, <2>1 DEF Moves, c
  <2>3. dialled' = dialled \ {c} /\ cleaner'.taken = cleaner.taken \ {c}
    BY <1>2, <2>1
  <2> QED  BY <1>2, <1>4, <2>1, <2>2, <2>3, LeftOrClosed
<1> QED  BY <1>5, <1>6, <1>7, <1>8

\* The next attempt, or the last answer.
LEMMA RetryMoves ==
  ASSUME SmtpTyped, NEW e \in Callers, Smtp!Retry(e)
  PROVE  \/ Moves(e, "failed", send[e].conn, send[e].attempt)
         \/ Moves(e, "get", send[e].conn, send[e].attempt + 1)
<1> DEFINE s == send[e]
           n == s.attempt + 1
           new == [s EXCEPT !.at = "get", !.attempt = n]
<1>1. CASE Smtp!Goes(e, "failed")
  BY <1>1, GoesMoves DEF FreeAt
<1>2. CASE s.attempt < MaxTries /\ send' = [send EXCEPT ![e] = new]
  <2>1. n \in 1..MaxTries /\ s \in Sending
    BY <1>2, SendingTyped, SmtpConstants
  <2> HIDE DEF n, s
  <2>2. new \in Sending /\ new.at = "get" /\ new.conn = s.conn /\ new.attempt = n
    BY <2>1 DEF Sending, FreeAt
  <2>3. send' = [send EXCEPT ![e] = new]
    BY <1>2
  <2> HIDE DEF new
  <2>4. Moves(e, "get", s.conn, n)
    BY <2>2, <2>3 DEF Moves, SmtpTyped
  <2> QED  BY <2>4 DEF s, n
<1> QED  BY <1>1, <1>2 DEF Smtp!Retry

LEMMA RetryKeeps ==
  ASSUME SmtpInv, NEW e \in Callers, Smtp!Retry(e)
  PROVE  SmtpInv'
<1> USE DEF SmtpInv
<1>1. /\ ~panicked /\ send[e].at = "retry" /\ send[e].conn = None
      /\ accepted[e] <= send[e].attempt
      /\ accepted[e] \in Nat /\ send[e].attempt \in Nat
  BY SendingTyped DEF Smtp!Retry, Smtp!At, EmailInv, FreeAt
<1>2. UNCHANGED <<server, accepted, pool, gone, active, total, dialing, dialled, cleaner,
                  panicked>>
  BY DEF Smtp!Retry, Smtp!outside, Smtp!starting
<1>3. PICK at \in {"failed", "get"}, n \in Nat :
         /\ Moves(e, at, None, n)
         /\ accepted[e] <= n /\ (at = "get" => accepted[e] < n)
  <2>1. /\ send[e].attempt + 1 \in Nat
        /\ accepted[e] < send[e].attempt + 1 /\ accepted[e] <= send[e].attempt + 1
    BY <1>1
  <2> QED  BY <1>1, <2>1, RetryMoves
<1>4. SmtpTyped'
  BY <1>2, <1>3 DEF SmtpTyped, Moves
<1>5. \A d \in Callers : EmailInv(d)'
  BY <1>2, <1>3, EmailsMove DEF HeldAt
<1>6. CountInv'
  BY <1>1, <1>2, <1>3, CountsMove
<1>7. PlaceInv'
  BY <1>1, <1>2, <1>3
  DEF PlaceInv, OneHolder, HeldApart, KeptApart, NoneLost, Moves
<1> QED  BY <1>4, <1>5, <1>6, <1>7

LEMMA FinishKeeps ==
  ASSUME SmtpInv, NEW e \in Callers, Smtp!Finish(e)
  PROVE  SmtpInv'
<1> USE DEF SmtpInv
<1> DEFINE s == send[e]
           how == s.at
           at == IF how = "sent" THEN "told" ELSE "done"
           new == [s EXCEPT !.at = at]
<1>1. /\ ~panicked /\ how \in {"sent", "failed"} /\ s.conn = None
      /\ accepted[e] <= s.attempt /\ (how = "sent" => accepted[e] > 0)
      /\ s \in Sending
  BY SendingTyped DEF Smtp!Finish, Smtp!Held, EmailInv
<1>2. UNCHANGED <<server, accepted, pool, gone, active, dialing, dialled, cleaner, panicked>>
  BY DEF Smtp!Finish, Smtp!outside, Smtp!starting
<1>3. send' = [send EXCEPT ![e] = new] /\ total' = [total EXCEPT ![how] = @ + 1]
  BY DEF Smtp!Finish, Smtp!Count
<1>4. at \in {"told", "done"} /\ (at = "told" => how = "sent") /\ send[e].at = how
  OBVIOUS
<1> HIDE DEF s, at, how
<1>5. new \in Sending /\ new.at = at /\ new.conn = None /\ new.attempt = s.attempt
  BY <1>1, <1>4 DEF Sending, FreeAt
<1> HIDE DEF new
<1>6. Moves(e, at, None, s.attempt)
  BY <1>3, <1>5 DEF Moves, SmtpTyped
<1>7. /\ total' \in [sent : Nat, failed : Nat]
      /\ total'.sent + total'.failed = total.sent + total.failed + 1
  BY <1>1, <1>3 DEF SmtpTyped
<1>8. SmtpTyped'
  BY <1>2, <1>6, <1>7 DEF SmtpTyped, Moves
<1>9. \A d \in Callers : EmailInv(d)'
  BY <1>1, <1>2, <1>4, <1>6, EmailsMove DEF HeldAt
<1>10. CountInv'
  BY <1>1, <1>2, <1>4, <1>6, <1>7, CountsMove DEF s
<1>11. PlaceInv'
  BY <1>1, <1>2, <1>6
  DEF PlaceInv, OneHolder, HeldApart, KeptApart, NoneLost, Moves, s
<1> QED  BY <1>8, <1>9, <1>10, <1>11

\* The goroutines of the start, the cleanup worker and Shutdown send nothing.
LEMMA StillCounts ==
  ASSUME SmtpInv, UNCHANGED <<send, accepted, active, total>>
  PROVE  (\A e \in Callers : EmailInv(e)') /\ CountInv'
<1>1. Holding' = Holding /\ Ended' = Ended
  BY DEF Holding, Ended
<1> QED  BY <1>1 DEF SmtpInv, EmailInv, CountInv

LEMMA DialKeeps ==
  ASSUME SmtpInv, Smtp!Dial
  PROVE  SmtpInv'
<1> USE DEF SmtpInv
<1>1. /\ ~panicked /\ dialing > 0 /\ dialing' = dialing - 1
      /\ UNCHANGED <<accepted, pool, gone, send, active, total, cleaner, panicked>>
  BY DEF Smtp!Dial, Smtp!sending
<1>2. dialing' \in 0..MaxIdleConns
  BY <1>1, SmtpConstants DEF SmtpTyped
<1>3. CASE UNCHANGED <<server, dialled>>
  <2>1. SmtpTyped'
    BY <1>1, <1>2, <1>3 DEF SmtpTyped
  <2>2. PlaceInv'
    BY <1>1, <1>3 DEF PlaceInv, OneHolder, HeldApart, KeptApart, NoneLost
  <2> QED  BY <1>1, <2>1, <2>2, StillCounts
<1>4. ASSUME NEW c \in Records, Smtp!Unused(c), server' = [server EXCEPT ![c] = "ready"],
             dialled' = dialled \cup {c}
      PROVE  SmtpInv'
  <2>1. /\ server' \in [Records -> {"closed", "ready", "open", "broken"}]
        /\ server'[c] = "ready" /\ \A d \in Records \ {c} : server'[d] = server[d]
    BY <1>4 DEF SmtpTyped
  <2>2. SmtpTyped'
    BY <1>1, <1>2, <1>4, <2>1 DEF SmtpTyped
  <2>3. /\ server[c] = "closed" /\ c \notin pool /\ c \notin dialled
        /\ \A e \in Callers : send[e].conn # c
    BY <1>4 DEF Smtp!Unused, Smtp!Held
  <2>4. c \notin cleaner.taken
    BY <1>1, <2>3 DEF PlaceInv, KeptApart
  <2>5. OneHolder' /\ NoneLost'
    BY <1>1, <1>4, <2>1 DEF PlaceInv, OneHolder, NoneLost
  <2>6. HeldApart'
    BY <1>1, <1>4, <2>1, <2>3, SendingTyped DEF PlaceInv, HeldApart
  <2>7. KeptApart'
    BY <1>1, <1>4, <2>1, <2>3, <2>4 DEF PlaceInv, KeptApart
  <2> QED  BY <1>1, <2>2, <2>5, <2>6, <2>7, StillCounts DEF PlaceInv
<1> QED  BY <1>3, <1>4 DEF Smtp!Dial

\* A connection from the start, or from the cleanup, is put into the pool.
LEMMA PutKeeps ==
  ASSUME SmtpInv, ~panicked, NEW c \in Records, Smtp!PutBack(c),
         c \in dialled \/ c \in cleaner.taken,
         dialled' = dialled \ {c},
         cleaner' = [cleaner EXCEPT !.taken = @ \ {c}],
         UNCHANGED <<accepted, gone, send, active, total, dialing>>
  PROVE  SmtpInv'
<1> USE DEF SmtpInv
<1>1. \/ panicked' = TRUE /\ UNCHANGED <<server, pool>>
      \/ /\ panicked' = panicked
         /\ \/ pool' = pool \cup {c} /\ UNCHANGED server
            \/ Smtp!CloseConn(c) /\ UNCHANGED pool
  BY PutBackEffect
<1>2. /\ server' \in [Records -> {"closed", "ready", "open", "broken"}]
      /\ pool' \subseteq Records
  BY <1>1, KeptTyped
<1>3. /\ cleaner' \in [at : {"waiting", "draining", "returning", "ended"},
                       taken : SUBSET Records]
      /\ cleaner'.taken = cleaner.taken \ {c}
  BY DEF SmtpTyped
<1>4. SmtpTyped'
  BY <1>1, <1>2, <1>3 DEF SmtpTyped
<1>5. ~panicked' => PlaceInv'
  <2>1. c \notin pool /\ server[c] # "closed"
    BY DEF PlaceInv, KeptApart
  <2>2. \A f \in Callers : send[f].conn # c
    BY SmtpConstants DEF PlaceInv, HeldApart
  <2>3. \A f \in Callers :
           send'[f].conn = IF send[f].conn = c THEN None ELSE send[f].conn
    BY <2>2
  <2> QED  BY <1>1, <1>3, <2>1, <2>3, LeftOrClosed
<1> QED  BY <1>4, <1>5, StillCounts

LEMMA PutsKeep ==
  ASSUME SmtpInv, Smtp!PutDialled \/ Smtp!Return
  PROVE  SmtpInv'
<1> USE DEF SmtpInv
<1>1. /\ ~panicked
      /\ UNCHANGED <<accepted, gone, send, active, total, dialing>>
  BY DEF Smtp!PutDialled, Smtp!Return, Smtp!sending, Smtp!starting
<1>2. CASE Smtp!PutDialled
  <2>1. PICK c \in dialled : Smtp!PutBack(c) /\ dialled' = dialled \ {c}
    BY <1>2 DEF Smtp!PutDialled
  <2>2. c \in Records /\ cleaner' = cleaner
    BY <1>2 DEF Smtp!PutDialled, SmtpTyped
  <2>3. cleaner' = [cleaner EXCEPT !.taken = @ \ {c}]
    <3>1. cleaner.taken \ {c} = cleaner.taken
      BY <1>1, <2>2 DEF PlaceInv, KeptApart
    <3> QED  BY <2>2, <3>1 DEF SmtpTyped
  <2> QED  BY <1>1, <2>1, <2>2, <2>3, PutKeeps
<1>3. CASE Smtp!Return /\ cleaner.taken # {}
  <2>1. PICK c \in cleaner.taken :
           Smtp!PutBack(c) /\ cleaner' = [cleaner EXCEPT !.taken = @ \ {c}]
    BY <1>3 DEF Smtp!Return
  <2>2. c \in Records /\ dialled' = dialled
    BY <1>3 DEF Smtp!Return, Smtp!starting, SmtpTyped
  <2>3. dialled' = dialled \ {c}
    BY <1>1, <2>2 DEF PlaceInv, KeptApart
  <2> QED  BY <1>1, <2>1, <2>2, <2>3, PutKeeps
<1>4. CASE Smtp!Return /\ cleaner.taken = {}
  <2>1. /\ cleaner' = [at |-> "waiting", taken |-> {}]
        /\ UNCHANGED <<server, pool, dialled, panicked>>
    BY <1>4 DEF Smtp!Return, Smtp!Waiting, Smtp!starting
  <2>2. cleaner'.taken = cleaner.taken
    BY <1>4, <2>1
  <2>3. SmtpTyped'
    BY <1>1, <2>1 DEF SmtpTyped
  <2>4. PlaceInv'
    BY <1>1, <2>1, <2>2 DEF PlaceInv, OneHolder, HeldApart, KeptApart, NoneLost
  <2> QED  BY <1>1, <2>3, <2>4, StillCounts
<1> QED  BY <1>2, <1>3, <1>4

LEMMA DrainKeeps ==
  ASSUME SmtpInv, Smtp!Drain \/ Smtp!closeConnectionPool
  PROVE  SmtpInv'
<1> USE DEF SmtpInv
<1>1. /\ ~panicked
      /\ UNCHANGED <<accepted, gone, send, active, total, dialing, dialled, panicked>>
  BY DEF Smtp!Drain, Smtp!closeConnectionPool, Smtp!sending, Smtp!starting
<1>2. ASSUME NEW c \in pool, pool' = pool \ {c}, Smtp!CloseConn(c), UNCHANGED cleaner
      PROVE  SmtpInv'
  <2>1. SmtpTyped'
    BY <1>1, <1>2 DEF SmtpTyped, Smtp!CloseConn
  <2> QED  BY <1>1, <1>2, <2>1, PooledClosed, StillCounts
<1>3. ASSUME NEW c \in pool, pool' = pool \ {c}, UNCHANGED server,
             cleaner' = [cleaner EXCEPT !.taken = @ \cup {c}]
      PROVE  SmtpInv'
  <2>1. /\ cleaner' \in [at : {"waiting", "draining", "returning", "ended"},
                         taken : SUBSET Records]
        /\ cleaner'.taken = cleaner.taken \cup {c} /\ c \in Records
    BY <1>3 DEF SmtpTyped
  <2>2. SmtpTyped'
    BY <1>1, <1>3, <2>1 DEF SmtpTyped
  <2>3. c \notin dialled /\ server[c] # "closed" /\ \A f \in Callers : send[f].conn # c
    BY <1>1, <1>3, <2>1, SmtpConstants DEF PlaceInv, KeptApart, HeldApart
  <2>4. PlaceInv'
    BY <1>1, <1>3, <2>1, <2>3
    DEF PlaceInv, OneHolder, HeldApart, KeptApart, NoneLost
  <2> QED  BY <1>1, <2>2, <2>4, StillCounts
<1>4. ASSUME UNCHANGED <<server, pool>>,
             \/ UNCHANGED cleaner
             \/ cleaner' = [cleaner EXCEPT !.at = "returning"]
      PROVE  SmtpInv'
  <2>1. /\ cleaner' \in [at : {"waiting", "draining", "returning", "ended"},
                         taken : SUBSET Records]
        /\ cleaner'.taken = cleaner.taken
    BY <1>4 DEF SmtpTyped
  <2>2. SmtpTyped'
    BY <1>1, <1>4, <2>1 DEF SmtpTyped
  <2>3. PlaceInv'
    BY <1>1, <1>4, <2>1 DEF PlaceInv, OneHolder, HeldApart, KeptApart, NoneLost
  <2> QED  BY <1>1, <2>2, <2>3, StillCounts
<1> QED  BY <1>2, <1>3, <1>4 DEF Smtp!Drain, Smtp!closeConnectionPool

LEMMA AroundKeeps ==
  ASSUME SmtpInv,
         \/ Smtp!Tick \/ Smtp!CleanerEnds \/ Smtp!Shutdown \/ Smtp!Waited
         \/ UNCHANGED Smtp!vars
  PROVE  SmtpInv'
<1> USE DEF SmtpInv
<1>1. UNCHANGED <<server, pool, accepted, send, active, total, dialing, dialled, panicked>>
  BY DEF Smtp!Tick, Smtp!CleanerEnds, Smtp!Shutdown, Smtp!Waited, Smtp!vars,
         Smtp!outside, Smtp!sending, Smtp!starting
<1>2. gone' \in BOOLEAN
  BY DEF Smtp!Tick, Smtp!CleanerEnds, Smtp!Shutdown, Smtp!Waited, Smtp!vars, SmtpTyped
<1>3. /\ cleaner' \in [at : {"waiting", "draining", "returning", "ended"},
                       taken : SUBSET Records]
      /\ cleaner'.taken = cleaner.taken
  <2>1. CASE Smtp!Tick \/ Smtp!CleanerEnds
    BY <2>1 DEF Smtp!Tick, Smtp!CleanerEnds, Smtp!Waiting
  <2>2. CASE Smtp!Shutdown \/ Smtp!Waited \/ UNCHANGED Smtp!vars
    BY <2>2 DEF Smtp!Shutdown, Smtp!Waited, Smtp!vars, SmtpTyped
  <2> QED  BY <2>1, <2>2
<1>4. SmtpTyped'
  BY <1>1, <1>2, <1>3 DEF SmtpTyped
<1>5. ~panicked' => PlaceInv'
  BY <1>1, <1>3 DEF PlaceInv, OneHolder, HeldApart, KeptApart, NoneLost
<1> QED  BY <1>1, <1>4, <1>5, StillCounts

LEMMA SmtpKeeps ==
  ASSUME SmtpInv, [Smtp!Next]_(Smtp!vars)
  PROVE  SmtpInv'
<1>1. ASSUME NEW e \in Callers, Smtp!Step(e)  PROVE SmtpInv'
  BY <1>1, SendEmailKeeps, GetKeeps, CommandsKeep, ReleaseKeeps, RetryKeeps, FinishKeeps
  DEF Smtp!Step
<1> QED
  BY <1>1, DialKeeps, PutsKeep, DrainKeeps, AroundKeeps DEF Smtp!Next

LEMMA SmtpOfAll == Spec => Smtp!Spec
<1>1. Init => Smtp!Init
  BY DEF Init
<1>2. [Next]_vars => [Smtp!Next]_(Smtp!vars)
  BY DEF Next, vars, smtpVars, Smtp!vars, Smtp!outside, Smtp!sending, Smtp!starting,
         BackupsStep, PagesStep, TemplatesStep, SmtpStep, WaitsStep, JobsStep
<1> QED  BY <1>1, <1>2, PTL DEF Spec, Smtp!Spec

LEMMA SameCount == \A S : Smtp!Cardinality(S) = Cardinality(S)
BY DEF Smtp!Cardinality, Cardinality

\* What is in a set of one connection at most.
LEMMA AtMostOne ==
  ASSUME NEW c, NEW S
  PROVE  Smtp!Cardinality({c} \cap S) = IF c \in S THEN 1 ELSE 0
<1>1. CASE c \in S
  <2>1. {c} \cap S = {c}
    BY <1>1
  <2> QED  BY <1>1, <2>1, FS_Singleton, SameCount
<1>2. CASE c \notin S
  <2>1. {c} \cap S = {}
    BY <1>2
  <2> QED  BY <1>2, <2>1, FS_EmptySet, SameCount
<1> QED  BY <1>1, <1>2

LEMMA HolderCount ==
  ASSUME OneHolder, NEW c \in Records
  PROVE  Smtp!Cardinality(Smtp!Holders(c))
         = IF \E e \in Callers : send[e].conn = c THEN 1 ELSE 0
<1>1. ASSUME NEW e \in Callers, send[e].conn = c
      PROVE  Smtp!Cardinality(Smtp!Holders(c)) = 1
  <2>1. Smtp!Holders(c) = {e}
    BY <1>1, SmtpConstants DEF OneHolder, Smtp!Holders, Smtp!Held
  <2> QED  BY <2>1, FS_Singleton, SameCount
<1>2. ASSUME \A e \in Callers : send[e].conn # c
      PROVE  Smtp!Cardinality(Smtp!Holders(c)) = 0
  <2>1. Smtp!Holders(c) = {}
    BY <1>2 DEF Smtp!Holders, Smtp!Held
  <2> QED  BY <2>1, FS_EmptySet, SameCount
<1> QED  BY <1>1, <1>2

\* While the process lives, a connection that is not closed is with one sender, in the pool,
\* with a goroutine of the start or with the cleanup worker, and with one of them only; the
\* count of active connections is that of the senders that hold one; and who is told that
\* the email was sent has had it accepted, at most MaxTries times (getConnection,
\* releaseConnection and sendEmailOnce of smtp_service.go).
THEOREM ConnectionsAreKept == Spec => []EmailsHold
<1>1. Smtp!Init => SmtpInv
  BY SmtpInitially
<1>2. SmtpInv /\ [Smtp!Next]_(Smtp!vars) => SmtpInv'
  BY SmtpKeeps
<1>3. SmtpInv => EmailsHold
  <2> SUFFICES ASSUME SmtpInv  PROVE EmailsHold
    OBVIOUS
  <2> USE DEF SmtpInv
  <2>1. \A e \in Callers : accepted[e] \in 0..MaxTries
    <3>1. ASSUME NEW e \in Callers  PROVE accepted[e] \in 0..MaxTries
      BY SendingTyped, SmtpConstants DEF EmailInv
    <3> QED  BY <3>1
  <2>2. /\ active \in 0..Smtp!Cardinality(Callers)
        /\ total.sent + total.failed <= Smtp!Cardinality(Callers)
    <3>1. Smtp!Cardinality(Callers) = Cardinality(Callers)
      BY SameCount
    <3> QED  BY <3>1, Counted DEF CountInv
  <2>3. Smtp!TypeOK
    BY <2>1, <2>2, SendingTyped DEF SmtpTyped, Smtp!TypeOK
  <2>4. Smtp!ToldIsAccepted
    BY <2>1, SmtpConstants DEF EmailInv, Smtp!ToldIsAccepted
  <2>5. ASSUME ~panicked, NEW c \in Records
        PROVE  Smtp!Cardinality(Smtp!Holders(c)) + Smtp!Cardinality({c} \cap pool)
                 + Smtp!Cardinality({c} \cap dialled)
                 + Smtp!Cardinality({c} \cap cleaner.taken)
               = IF server[c] = "closed" THEN 0 ELSE 1
    <3>1. OneHolder /\ HeldApart /\ KeptApart /\ NoneLost
      BY <2>5 DEF PlaceInv
    <3>2. \A e \in Callers : send[e].conn = c =>
             c \notin pool /\ c \notin dialled /\ c \notin cleaner.taken
             /\ server[c] # "closed"
      BY <3>1, SmtpConstants DEF HeldApart
    <3>3. /\ Smtp!Cardinality({c} \cap pool) = IF c \in pool THEN 1 ELSE 0
          /\ Smtp!Cardinality({c} \cap dialled) = IF c \in dialled THEN 1 ELSE 0
          /\ Smtp!Cardinality({c} \cap cleaner.taken)
             = IF c \in cleaner.taken THEN 1 ELSE 0
      BY AtMostOne
    <3>4. Smtp!Cardinality(Smtp!Holders(c))
          = IF \E e \in Callers : send[e].conn = c THEN 1 ELSE 0
      BY <3>1, HolderCount
    <3> QED  BY <3>1, <3>2, <3>3, <3>4 DEF KeptApart, NoneLost
  <2>6. active = Smtp!Cardinality({e \in Callers : Smtp!Held(e) # None})
    BY SameCount DEF CountInv, Holding, Smtp!Held
  <2>7. Smtp!ConnectionsAccounted
    BY <2>5, <2>6 DEF Smtp!ConnectionsAccounted
  <2> QED  BY <2>3, <2>4, <2>7 DEF EmailsHold
<1> QED  BY SmtpOfAll, <1>1, <1>2, <1>3, PTL DEF Smtp!Spec

-----------------------------------------------------------------------------
(* The listings page by page.                                              *)

\* The place of a document in a listing of numbers, the highest first.
Pl(F, d) == Cardinality({e \in F : e >= d})

LEMMA PageConstants ==
  /\ MaxDocs \in Nat /\ MaxSize \in Nat \ {0} /\ DefaultSize \in 1..MaxSize
  /\ Pages!Doc = 1..MaxDocs
BY Parameters DEF Pages!ListingsAssumption, Pages!Doc

LEMMA ListedTyped ==
  ASSUME NEW F \in SUBSET Pages!Doc
  PROVE  /\ IsFiniteSet(F) /\ Cardinality(F) \in 0..MaxDocs
         /\ \A d \in F : d \in Nat
<1>1. IsFiniteSet(Pages!Doc) /\ Cardinality(Pages!Doc) = MaxDocs
  <2>1. MaxDocs \in Int /\ 1 \in Int
    BY PageConstants
  <2>2. /\ IsFiniteSet(1..MaxDocs)
        /\ Cardinality(1..MaxDocs) = IF 1 > MaxDocs THEN 0 ELSE MaxDocs - 1 + 1
    BY <2>1, FS_Interval
  <2> QED  BY <2>2, PageConstants
<1>2. IsFiniteSet(F) /\ Cardinality(F) <= Cardinality(Pages!Doc) /\ Cardinality(F) \in Nat
  BY <1>1, FS_Subset, FS_CardinalityType
<1> QED  BY <1>1, <1>2, PageConstants

LEMMA PlaceTyped ==
  ASSUME NEW F \in SUBSET Pages!Doc, NEW d \in F
  PROVE  Pl(F, d) \in 1..Cardinality(F)
<1> DEFINE U == {e \in F : e >= d}
<1>1. IsFiniteSet(F) /\ Cardinality(F) \in Nat /\ d >= d
  BY ListedTyped
<1>2. U \in SUBSET F /\ d \in U
  BY <1>1
<1>3. IsFiniteSet(U) /\ Cardinality(U) <= Cardinality(F)
  BY <1>1, <1>2, FS_Subset
<1>4. Cardinality(U) \in Nat /\ Cardinality(U) # 0
  BY <1>2, <1>3, FS_CardinalityType, FS_EmptySet
<1> QED  BY <1>1, <1>3, <1>4 DEF Pl

\* No two documents have the same place.
LEMMA PlaceUnique ==
  ASSUME NEW F \in SUBSET Pages!Doc, NEW d \in F, NEW e \in F, d # e
  PROVE  Pl(F, d) # Pl(F, e)
<1>1. ASSUME NEW x \in F, NEW y \in F, x < y  PROVE Pl(F, x) # Pl(F, y)
  <2> DEFINE U == {z \in F : z >= x}
             V == {z \in F : z >= y}
  <2>1. x \in Nat /\ y \in Nat /\ \A z \in F : z \in Nat
    BY ListedTyped
  <2>2. V \in SUBSET U /\ x \in U /\ x \notin V
    <3>1. \A z \in F : z >= y => z >= x
      BY <1>1, <2>1
    <3>2. x >= x /\ ~(x >= y)
      BY <1>1, <2>1
    <3> QED  BY <3>1, <3>2
  <2>3. IsFiniteSet(F) /\ U \in SUBSET F
    BY ListedTyped
  <2>4. IsFiniteSet(U)
    BY <2>3, FS_Subset
  <2>5. Cardinality(U) # Cardinality(V)
    BY <2>2, <2>4, FS_Subset
  <2> QED  BY <2>5 DEF Pl
<1>2. d \in Nat /\ e \in Nat
  BY ListedTyped
<1> QED  BY <1>1, <1>2

\* What is stored pushes the others back.
LEMMA PlaceGrows ==
  ASSUME NEW F \in SUBSET Pages!Doc, NEW G \in SUBSET Pages!Doc, F \subseteq G,
         NEW d \in F
  PROVE  Pl(F, d) <= Pl(G, d)
<1> DEFINE U == {e \in F : e >= d}
           V == {e \in G : e >= d}
<1>1. U \in SUBSET V /\ V \in SUBSET G /\ IsFiniteSet(G)
  BY ListedTyped
<1>2. IsFiniteSet(V)
  BY <1>1, FS_Subset
<1>3. Cardinality(U) <= Cardinality(V)
  BY <1>1, <1>2, FS_Subset
<1> QED  BY <1>3 DEF Pl

\* A page has no more documents than places.
Between(F, lo, hi) == {d \in F : lo < Pl(F, d) /\ Pl(F, d) <= hi}

LEMMA PageBound ==
  ASSUME NEW F \in SUBSET Pages!Doc, NEW lo \in Nat, NEW hi \in Nat, lo <= hi,
         Between(F, lo, hi) # {}
  PROVE  /\ lo + Cardinality(Between(F, lo, hi)) <= hi
         /\ lo + Cardinality(Between(F, lo, hi)) <= Cardinality(F)
<1> DEFINE H == Between(F, lo, hi)
           n == Cardinality(F)
           most == IF hi <= n THEN hi ELSE n
           T == (lo + 1)..most
<1>1. n \in Nat /\ IsFiniteSet(F) /\ \A d \in F : Pl(F, d) \in 1..n
  BY ListedTyped, PlaceTyped
<1>2. H \in SUBSET F
  BY DEF Between
<1>3. IsFiniteSet(H) /\ Cardinality(H) \in Nat
  BY <1>1, <1>2, FS_Subset, FS_CardinalityType
<1>4. lo < most /\ most \in Nat
  <2>1. PICK d \in H : TRUE
    OBVIOUS
  <2>2. lo < Pl(F, d) /\ Pl(F, d) <= hi /\ Pl(F, d) <= n /\ Pl(F, d) \in Nat
    BY <1>1, <1>2, <2>1 DEF Between
  <2> QED  BY <1>1, <2>2
<1> HIDE DEF n
<1>5. IsFiniteSet(T) /\ Cardinality(T) = most - lo
  <2> HIDE DEF most
  <2>1. lo + 1 \in Int /\ most \in Int /\ ~(lo + 1 > most)
    BY <1>4
  <2>2. IsFiniteSet(T) /\ Cardinality(T) = most - (lo + 1) + 1
    BY <2>1, FS_Interval
  <2> QED  BY <1>4, <2>2
<1>6. Cardinality(H) <= Cardinality(T)
  <2> DEFINE f == [d \in H |-> Pl(F, d)]
  <2>1. f \in [H -> T]
    <3>1. ASSUME NEW d \in H  PROVE Pl(F, d) \in T
      BY <1>1, <1>2 DEF Between
    <3> QED  BY <3>1
  <2>2. \A x, y \in H : x # y => f[x] # f[y]
    BY <1>2, PlaceUnique
  <2>3. Cardinality(T) \in Nat
    BY <1>4, <1>5
  <2> HIDE DEF f, H, T
  <2> QED  BY <1>3, <1>5, <2>1, <2>2, <2>3, FS_PigeonHole
<1>7. lo + Cardinality(H) <= most
  <2> HIDE DEF H, T, most
  <2> QED  BY <1>3, <1>4, <1>5, <1>6
<1>8. most <= hi /\ most <= n
  BY <1>1
<1>9. lo + Cardinality(H) <= hi /\ lo + Cardinality(H) <= n
  <2> HIDE DEF H, most
  <2> QED  BY <1>1, <1>3, <1>4, <1>7, <1>8
<1> QED  BY <1>9 DEF n

\* Division, as the count of pages uses it.
LEMMA Quotient ==
  ASSUME NEW n \in Nat, NEW s \in Nat \ {0}
  PROVE  /\ n \div s \in Nat
         /\ (n \div s) * s <= n /\ n < (n \div s) * s + s
OBVIOUS

LEMMA TimesGrows ==
  ASSUME NEW p \in Nat, NEW q \in Nat, NEW s \in Nat, p <= q
  PROVE  p * s <= q * s /\ p * s \in Nat /\ q * s \in Nat
OBVIOUS

LEMMA PageTimes ==
  ASSUME NEW p \in Nat, p >= 1, NEW s \in Nat
  PROVE  (p - 1) * s + s = p * s /\ (p - 1) * s \in Nat /\ p * s \in Nat
OBVIOUS

LEMMA LastPage ==
  ASSUME NEW p \in Nat, NEW s \in Nat \ {0}, NEW t \in Nat,
         ~(p < Pages!TotalPages(t, s))
  PROVE  t <= p * s
<1> DEFINE q == (t + s - 1) \div s
<1>1. q \in Nat /\ q * s <= t + s - 1 /\ t + s - 1 < q * s + s
  BY Quotient
<1>2. q <= p
  BY <1>1 DEF Pages!TotalPages
<1> HIDE DEF q
<1>3. q * s <= p * s /\ q * s \in Nat /\ p * s \in Nat
  BY <1>1, <1>2, TimesGrows
<1> QED  BY <1>1, <1>3

LEMMA PageExists ==
  ASSUME NEW p \in Nat, NEW s \in Nat \ {0}, NEW t \in Nat,
         p < Pages!TotalPages(t, s)
  PROVE  p < t
<1> DEFINE q == (t + s - 1) \div s
<1>1. q \in Nat /\ q * s <= t + s - 1 /\ p < q
  BY Quotient DEF Pages!TotalPages
<1> HIDE DEF q
<1>2. ASSUME t + 1 <= q  PROVE FALSE
  <2>1. (t + 1) * s <= q * s
    BY <1>1, <1>2, TimesGrows
  <2>2. (t + 1) * s >= t + s
    OBVIOUS
  <2> QED  BY <1>1, <2>1, <2>2
<1> QED  BY <1>1, <1>2

\* Where the reader is: how many places the pages that were found cover.
Done ==
    IF reader.at = "turn" \/ (reader.at = "count" /\ reader.of.first = "find")
    THEN reader.page ELSE reader.page - 1
Covered == Done * reader.size
Shown == Pages!Found(reader.of)
IsCounted == reader.at = "turn" \/ (reader.at = "find" /\ reader.of.first = "count")

\* Of what was listed from the beginning the reader has seen all up to the places
\* covered, for the others are only pushed back; and what is left unseen is counted.
WalkInv ==
    ~left /\ ~raced =>
        /\ reader.start \subseteq Shown
        /\ \A d \in reader.start \ reader.seen : Covered < Pl(Shown, d)
        /\ reader.at = "find" /\ reader.of.first = "count"
           => Cardinality(Shown) <= reader.total
        /\ reader.at = "turn" /\ ~(reader.start \subseteq reader.seen)
           => Covered < reader.total

\* When nothing changes, what was seen is what the pages cover.
QuietInv ==
    quiet =>
        /\ ~left /\ ~raced
        /\ Shown = reader.start
        /\ reader.seen = Between(reader.start, 0, Covered)
        /\ reader.times = Cardinality(reader.seen)
        /\ IsCounted => reader.total = Cardinality(reader.start)

ReaderInv ==
    /\ reader.at = "both" => reader.of.first = "both"
    /\ reader.at \in {"count", "find"} => reader.of.first \in {"count", "find"}
    /\ reader.times <= Covered
    /\ WalkInv
    /\ QuietInv

PageInv == Pages!TypeOK /\ (reader # None => ReaderInv)

LEMMA ListingFirst == \A l \in Pages!Listing : l.first \in {"count", "find", "both"}
BY DEF Pages!Listing, Pages!CountFirst, Pages!FindFirst, Pages!AtOnce,
       Pages!WorkflowList, Pages!WorkflowListByUser, Pages!WorkflowListByStatus,
       Pages!WorkflowSearch, Pages!WorkflowSearchByUser, Pages!WorkflowListByTags,
       Pages!UserList, Pages!UserSearch, Pages!UserListByRole, Pages!LogSearch,
       Pages!LogQuery, Pages!LogList, Pages!LogListByWorkflow, Pages!LogListByUser,
       Pages!LogListByStatus, Pages!LogsByDateRange, Pages!SearchLogs,
       Pages!SearchLogsByWorkflow, Pages!NotificationList, Pages!NotificationSearch,
       Pages!GetActiveWorkflows, Pages!ListBackups

LEMMA SamePageCount == \A S : Pages!Cardinality(S) = Cardinality(S)
BY DEF Pages!Cardinality, Cardinality

LEMMA ReaderTyped ==
  ASSUME Pages!TypeOK, reader # None
  PROVE  /\ reader \in Pages!Reader
         /\ reader.of \in Pages!Listing
         /\ reader.of.first \in {"count", "find", "both"}
         /\ reader.size \in Nat \ {0} /\ reader.size \in 1..MaxSize
         /\ reader.page \in Nat /\ reader.page >= 1 /\ reader.page <= MaxDocs + 1
         /\ reader.at \in {"count", "find", "both", "turn"}
         /\ reader.total \in 0..MaxDocs /\ reader.total \in Nat
         /\ reader.start \subseteq Pages!Doc /\ reader.seen \subseteq Pages!Doc
         /\ reader.times \in 0..MaxDocs /\ reader.times \in Nat
         /\ Shown \subseteq Pages!Doc
         /\ Done \in Nat /\ Covered \in Nat
<1>1. reader \in Pages!Reader
  BY DEF Pages!TypeOK
<1>2. /\ reader.of \in Pages!Listing /\ reader.size \in 1..MaxSize
      /\ reader.page \in 1..MaxDocs + 1
      /\ reader.at \in {"count", "find", "both", "turn"}
      /\ reader.total \in 0..MaxDocs /\ reader.times \in 0..MaxDocs
      /\ reader.start \subseteq Pages!Doc /\ reader.seen \subseteq Pages!Doc
  BY <1>1 DEF Pages!Reader
<1>3. /\ reader.size \in Nat \ {0} /\ reader.page \in Nat /\ reader.page >= 1
      /\ reader.page <= MaxDocs + 1
      /\ reader.total \in Nat /\ reader.times \in Nat
  BY <1>2, PageConstants
<1>4. Shown \subseteq Pages!Doc
  BY DEF Shown, Pages!Found
<1>5. Done \in Nat
  BY <1>3 DEF Done
<1>6. Covered \in Nat
  BY <1>3, <1>5, TimesGrows DEF Covered
<1> QED  BY <1>1, <1>2, <1>3, <1>4, <1>5, <1>6, ListingFirst

\* The page that is found next, in the words of the lemmas above.
LEMMA HereIsBetween ==
  ASSUME PageInv, reader # None
  PROVE  Pages!Here = Between(Shown, (reader.page - 1) * reader.size,
                              reader.page * reader.size)
BY SamePageCount DEF Pages!Here, Pages!FindPage, Between, Pl, Shown

LEMMA FoundPage ==
  ASSUME PageInv, reader # None, reader.at \in {"find", "both"}
  PROVE  /\ Covered = (reader.page - 1) * reader.size
         /\ Covered <= reader.page * reader.size
         /\ reader.page * reader.size \in Nat
         /\ Pages!Here \subseteq Shown /\ Cardinality(Pages!Here) \in Nat
         /\ reader.times + Cardinality(Pages!Here) <= reader.page * reader.size
         /\ reader.times + Cardinality(Pages!Here) <= MaxDocs
         /\ ~left /\ ~raced => \A d \in reader.start \ (reader.seen \cup Pages!Here) :
               reader.page * reader.size < Pl(Shown, d)
         /\ quiet =>
               /\ reader.seen \cup Pages!Here
                  = Between(reader.start, 0, reader.page * reader.size)
               /\ reader.times + Cardinality(Pages!Here)
                  = Cardinality(reader.seen \cup Pages!Here)
<1> DEFINE lo == (reader.page - 1) * reader.size
           hi == reader.page * reader.size
           H == Pages!Here
<1>1. Covered = lo
  BY DEF Covered, Done
<1>2. lo \in Nat /\ hi \in Nat /\ lo <= hi
  <2>1. lo + reader.size = hi /\ lo \in Nat /\ hi \in Nat /\ reader.size \in Nat
    BY ReaderTyped, PageTimes DEF PageInv
  <2> HIDE DEF lo, hi
  <2> QED  BY <2>1
<1>3. Shown \in SUBSET Pages!Doc
  BY ReaderTyped DEF PageInv
<1>4. H = Between(Shown, lo, hi)
  BY HereIsBetween
<1> HIDE DEF lo, hi, H
<1>5. /\ IsFiniteSet(Shown) /\ Cardinality(Shown) \in 0..MaxDocs
      /\ \A d \in Shown : Pl(Shown, d) \in Nat /\ Pl(Shown, d) > 0
  BY <1>3, ListedTyped, PlaceTyped
<1>6. H \subseteq Shown
  BY <1>4 DEF Between
<1>7. IsFiniteSet(H) /\ Cardinality(H) \in Nat
  BY <1>5, <1>6, FS_Subset, FS_CardinalityType
<1>8. /\ reader.times \in Nat /\ reader.times <= MaxDocs /\ reader.times <= lo
      /\ MaxDocs \in Nat
  BY <1>1, ReaderTyped, PageConstants DEF PageInv, ReaderInv
<1>9. reader.times + Cardinality(H) <= hi /\ reader.times + Cardinality(H) <= MaxDocs
  <2>1. CASE H = {}
    BY <1>2, <1>8, <2>1, FS_EmptySet
  <2>2. CASE H # {}
    <3>1. lo + Cardinality(H) <= hi /\ lo + Cardinality(H) <= Cardinality(Shown)
      BY <1>2, <1>3, <1>4, <2>2, PageBound
    <3> QED  BY <1>2, <1>5, <1>7, <1>8, <3>1
  <2> QED  BY <2>1, <2>2
<1>10. ASSUME ~left, ~raced, NEW d \in reader.start \ (reader.seen \cup H)
       PROVE  hi < Pl(Shown, d)
  <2>1. lo < Pl(Shown, d) /\ d \in Shown
    BY <1>1, <1>10 DEF PageInv, ReaderInv, WalkInv
  <2>2. ~(Pl(Shown, d) <= hi)
    BY <1>4, <1>10, <2>1 DEF Between
  <2> QED  BY <1>2, <1>5, <2>1, <2>2
<1>11. ASSUME quiet
       PROVE  /\ reader.seen \cup H = Between(reader.start, 0, hi)
              /\ reader.times + Cardinality(H) = Cardinality(reader.seen \cup H)
  <2>1. /\ Shown = reader.start /\ reader.seen = Between(reader.start, 0, lo)
        /\ reader.times = Cardinality(reader.seen)
    BY <1>1, <1>11 DEF PageInv, ReaderInv, QuietInv
  <2>2. reader.seen \cup H = Between(reader.start, 0, hi)
    BY <1>2, <1>4, <1>5, <2>1 DEF Between
  <2>3. reader.seen \cap H = {}
    BY <1>2, <1>4, <1>5, <2>1 DEF Between
  <2>4. IsFiniteSet(reader.seen) /\ Cardinality(reader.seen) \in Nat
    <3>1. reader.seen \in SUBSET Shown
      BY <2>1 DEF Between
    <3> QED  BY <1>5, <3>1, FS_Subset, FS_CardinalityType
  <2>5. Cardinality(reader.seen \cup H) = Cardinality(reader.seen) + Cardinality(H) - 0
    BY <1>7, <2>3, <2>4, FS_Union, FS_EmptySet
  <2> QED  BY <1>7, <2>1, <2>2, <2>4, <2>5
<1> QED  BY <1>1, <1>2, <1>6, <1>7, <1>9, <1>10, <1>11 DEF lo, hi, H

\* What a step of the reader leaves: the listing, the size and where it began.
Continues ==
    /\ reader' \in Pages!Reader /\ UNCHANGED <<docs, quiet, left, raced>>
    /\ reader'.of = reader.of /\ reader'.size = reader.size /\ reader'.start = reader.start

LEMMA ContinuesShown ==
  ASSUME PageInv, reader # None, Continues
  PROVE  Shown' = Shown /\ Pages!TypeOK'
<1>1. \A l : Pages!Found(l)' = Pages!Found(l)
  BY DEF Continues, Pages!Found, Pages!Matches
<1>2. Shown' = Shown
  BY DEF Continues, Shown, Pages!Found, Pages!Matches
<1> QED  BY <1>2 DEF Continues, PageInv, Pages!TypeOK

LEMMA ShownCounted ==
  ASSUME PageInv, reader # None
  PROVE  /\ Cardinality(Shown) \in 0..MaxDocs /\ Cardinality(Shown) \in Nat
         /\ \A d \in Shown : Pl(Shown, d) \in 1..Cardinality(Shown)
<1>1. Shown \in SUBSET Pages!Doc
  BY ReaderTyped DEF PageInv
<1>2. Cardinality(Shown) \in 0..MaxDocs
  BY <1>1, ListedTyped
<1>3. \A d \in Shown : Pl(Shown, d) \in 1..Cardinality(Shown)
  BY <1>1, PlaceTyped
<1> QED  BY <1>2, <1>3, PageConstants

LEMMA CountKeeps ==
  ASSUME PageInv, Pages!CountDocuments
  PROVE  PageInv'
<1> DEFINE n == Cardinality(Shown)
           at == IF reader.of.first = "count" THEN "find" ELSE "turn"
           new == [reader EXCEPT !.total = n, !.at = at]
<1>1. reader # None /\ reader.at = "count" /\ ReaderInv
  BY DEF Pages!CountDocuments, Pages!Reading, PageInv
<1>2. reader' = new /\ UNCHANGED <<docs, quiet, left, raced>>
  BY SamePageCount DEF Pages!CountDocuments, Shown, Pages!history
<1>3. n \in 0..MaxDocs /\ n \in Nat /\ \A d \in Shown : Pl(Shown, d) \in 1..n
  BY <1>1, ShownCounted
<1>4. reader \in Pages!Reader /\ reader.of.first \in {"count", "find"}
  BY <1>1, ReaderTyped DEF PageInv, ReaderInv
<1>5. at \in {"find", "turn"} /\ (at = "find" <=> reader.of.first = "count")
  OBVIOUS
<1> HIDE DEF n, at
<1>6. /\ Continues /\ reader'.at = at /\ reader'.total = n /\ reader'.page = reader.page
      /\ reader'.seen = reader.seen /\ reader'.times = reader.times
  BY <1>2, <1>3, <1>4, <1>5 DEF Continues, Pages!Reader
<1>7. Shown' = Shown /\ Pages!TypeOK'
  BY <1>1, <1>6, ContinuesShown
<1>8. Covered' = Covered /\ Covered \in Nat
  <2>1. Done' = Done
    BY <1>1, <1>4, <1>5, <1>6 DEF Done, Continues
  <2> QED  BY <1>1, <1>6, <2>1, ReaderTyped DEF Covered, Continues, PageInv
<1>9. WalkInv'
  <2>1. ASSUME ~left, ~raced, ~(reader.start \subseteq reader.seen)
        PROVE  Covered < n
    <3>1. PICK d \in reader.start \ reader.seen : TRUE
      BY <2>1
    <3>2. d \in Shown /\ Covered < Pl(Shown, d)
      BY <1>1, <2>1, <3>1 DEF ReaderInv, WalkInv
    <3> QED  BY <1>3, <1>8, <3>2
  <2>2. n <= n
    BY <1>3
  <2> QED
    BY <1>1, <1>6, <1>7, <1>8, <2>1, <2>2 DEF WalkInv, ReaderInv, Continues, n
<1>10. QuietInv'
  BY <1>1, <1>6, <1>7, <1>8 DEF QuietInv, ReaderInv, Continues, n
<1> QED  BY <1>1, <1>4, <1>5, <1>6, <1>7, <1>8, <1>9, <1>10 DEF PageInv, ReaderInv, Continues

\* A page is found, and counted at once in a slice.
LEMMA FindKeeps ==
  ASSUME PageInv, reader # None, reader.at \in {"find", "both"}, Continues,
         NEW at \in {"count", "turn"}, reader'.at = at,
         reader'.page = reader.page, reader'.seen = reader.seen \cup Pages!Here,
         reader'.times = reader.times + Cardinality(Pages!Here),
         at = "count" <=> reader.of.first = "find",
         \/ reader.at = "find" /\ reader'.total = reader.total
         \/ reader.at = "both" /\ reader'.total = Cardinality(Shown)
  PROVE  PageInv'
<1> DEFINE hi == reader.page * reader.size
<1>1. Shown' = Shown /\ Pages!TypeOK'
  BY ContinuesShown
<1>2. Covered' = hi
  <2>1. Done' = reader.page
    BY DEF Done, Continues
  <2> QED  BY <2>1 DEF Covered, Continues
<1>3. /\ hi \in Nat
      /\ reader'.times <= hi
      /\ ~left /\ ~raced => \A d \in reader.start \ reader'.seen : hi < Pl(Shown, d)
      /\ quiet =>
            /\ reader'.seen = Between(reader.start, 0, hi)
            /\ reader'.times = Cardinality(reader'.seen)
  BY FoundPage
<1> HIDE DEF hi
<1>4. /\ Cardinality(Shown) \in Nat /\ reader.total \in Nat
      /\ \A d \in Shown : Pl(Shown, d) \in 1..Cardinality(Shown)
  BY ShownCounted, ReaderTyped DEF PageInv
<1>5. ReaderInv
  BY DEF PageInv
<1>6. reader.of.first \in {"count", "find", "both"}
      /\ (reader.at = "find" => reader.of.first \in {"count", "find"})
      /\ (reader.at = "both" => reader.of.first = "both")
  BY <1>5, ReaderTyped DEF ReaderInv, PageInv
<1>7. WalkInv'
  <2>1. ASSUME ~left, ~raced, at = "turn"  PROVE Cardinality(Shown) <= reader'.total
    BY <1>4, <1>5, <1>6, <2>1 DEF ReaderInv, WalkInv
  <2>2. ASSUME ~left, ~raced, at = "turn", ~(reader.start \subseteq reader'.seen)
        PROVE  hi < reader'.total
    <3>1. PICK d \in reader.start \ reader'.seen : TRUE
      BY <2>2
    <3>2. d \in Shown /\ hi < Pl(Shown, d)
      BY <1>3, <1>5, <2>2, <3>1 DEF ReaderInv, WalkInv
    <3>3. reader'.total \in Nat
      BY <1>4
    <3> QED  BY <1>3, <1>4, <2>1, <2>2, <3>2, <3>3
  <2> QED  BY <1>1, <1>2, <1>3, <1>5, <2>2 DEF WalkInv, ReaderInv, Continues
<1>8. QuietInv'
  <2>1. ASSUME quiet, at = "turn"  PROVE reader'.total = Cardinality(reader.start)
    BY <1>5, <1>6, <2>1 DEF ReaderInv, QuietInv, IsCounted
  <2> QED  BY <1>1, <1>2, <1>3, <1>5, <2>1 DEF QuietInv, ReaderInv, Continues, IsCounted
<1> QED  BY <1>1, <1>2, <1>3, <1>6, <1>7, <1>8 DEF PageInv, ReaderInv, Continues

LEMMA FindsKeep ==
  ASSUME PageInv, Pages!Find \/ Pages!Slice
  PROVE  PageInv'
<1> DEFINE H == Pages!Here
           seen == reader.seen \cup H
           times == reader.times + Cardinality(H)
           n == Cardinality(Shown)
           at == IF reader.of.first = "find" THEN "count" ELSE "turn"
<1>1. reader # None /\ reader.at \in {"find", "both"} /\ ReaderInv
      /\ UNCHANGED <<docs, quiet, left, raced>>
  BY DEF Pages!Find, Pages!Slice, Pages!Reading, PageInv, Pages!history
<1>2. /\ reader \in Pages!Reader
      /\ reader.seen \subseteq Pages!Doc /\ Shown \subseteq Pages!Doc
      /\ n \in 0..MaxDocs /\ times \in 0..MaxDocs /\ seen \in SUBSET Pages!Doc
  <2>1. reader.times \in Nat /\ reader.seen \subseteq Pages!Doc /\ Shown \subseteq Pages!Doc
        /\ reader \in Pages!Reader
    BY <1>1, ReaderTyped DEF PageInv
  <2>2. Cardinality(H) \in Nat /\ times <= MaxDocs /\ H \subseteq Shown
    BY <1>1, FoundPage
  <2>3. times \in 0..MaxDocs
    <3> HIDE DEF H
    <3> QED  BY <2>1, <2>2, PageConstants
  <2> QED  BY <2>1, <2>2, <2>3, ListedTyped
<1>3. at \in {"count", "turn"} /\ (at = "count" <=> reader.of.first = "find")
  OBVIOUS
<1>4. CASE Pages!Find
  <2>1. /\ reader.at = "find"
        /\ reader' = [reader EXCEPT !.seen = seen, !.times = times, !.at = at]
    BY <1>4, SamePageCount DEF Pages!Find, Pages!Reading
  <2> HIDE DEF seen, times, at
  <2>2. /\ Continues /\ reader'.at = at /\ reader'.total = reader.total
        /\ reader'.page = reader.page /\ reader'.seen = seen /\ reader'.times = times
    BY <1>1, <1>2, <1>3, <2>1 DEF Continues, Pages!Reader
  <2> QED  BY <1>1, <1>3, <2>1, <2>2, FindKeeps DEF seen, times
<1>5. CASE Pages!Slice
  <2>1. /\ reader.at = "both"
        /\ reader' = [reader EXCEPT !.total = n, !.at = "turn", !.seen = seen,
                                    !.times = times]
    BY <1>5, SamePageCount DEF Pages!Slice, Pages!Reading, Shown
  <2>2. reader.of.first # "find"
    BY <1>1, <2>1 DEF ReaderInv
  <2> HIDE DEF seen, times, n
  <2>3. /\ Continues /\ reader'.at = "turn" /\ reader'.total = n
        /\ reader'.page = reader.page /\ reader'.seen = seen /\ reader'.times = times
    BY <1>1, <1>2, <2>1 DEF Continues, Pages!Reader
  <2> QED  BY <1>1, <2>1, <2>2, <2>3, FindKeeps DEF seen, times, n
<1> QED  BY <1>4, <1>5

\* The first page of a listing, and the next.
LEMMA OpenKeeps ==
  ASSUME PageInv, Pages!Open
  PROVE  PageInv'
<1>1. PICK l \in Pages!Listing, page \in 0..1, size \in 0..MaxSize + 1 :
         reader' = [of |-> l, size |-> Pages!PageSize(size), page |-> Pages!Page(page),
                    at |-> l.first, total |-> 0, start |-> Pages!Found(l), seen |-> {},
                    times |-> 0]
  BY DEF Pages!Open
<1>2. quiet' = TRUE /\ left' = FALSE /\ raced' = FALSE /\ docs' = docs
  BY DEF Pages!Open
<1> DEFINE s == Pages!PageSize(size)
           p == Pages!Page(page)
           F == Pages!Found(l)
<1>3. s \in 1..MaxSize /\ p = 1 /\ 1 \in 1..MaxDocs + 1 /\ 0 \in 0..MaxDocs /\ s \in Nat
  BY PageConstants DEF Pages!PageSize, Pages!Page
<1>4. F \in SUBSET Pages!Doc /\ l.first \in {"count", "find", "both"}
  BY ListingFirst DEF Pages!Found
<1>5. reader' = [of |-> l, size |-> s, page |-> p, at |-> l.first, total |-> 0,
                 start |-> F, seen |-> {}, times |-> 0]
  BY <1>1
<1>6. Shown' = F
  BY <1>2, <1>5 DEF Shown, Pages!Found, Pages!Matches
<1> HIDE DEF s, p, F
<1>7. reader' \in Pages!Reader
  BY <1>3, <1>4, <1>5 DEF Pages!Reader
<1>8. /\ reader'.of = l /\ reader'.size = s /\ reader'.page = 1 /\ reader'.at = l.first
      /\ reader'.total = 0 /\ reader'.start = F /\ reader'.seen = {} /\ reader'.times = 0
  BY <1>3, <1>5
<1>9. Pages!TypeOK'
  BY <1>2, <1>7 DEF PageInv, Pages!TypeOK
<1>11. Covered' = 0
  <2>1. Done' = 0
    BY <1>4, <1>8 DEF Done
  <2> QED  BY <1>3, <1>8, <2>1 DEF Covered
<1>12. \A d \in F : Pl(F, d) \in Nat /\ Pl(F, d) > 0
  <2>1. \A d \in F : Pl(F, d) \in 1..Cardinality(F) /\ Cardinality(F) \in 0..MaxDocs
    BY <1>4, PlaceTyped, ListedTyped
  <2> QED  BY <2>1, PageConstants
<1>13. Between(F, 0, 0) = {}
  BY <1>12 DEF Between
<1>14. WalkInv'
  BY <1>4, <1>8, <1>6, <1>11, <1>12 DEF WalkInv
<1>15. QuietInv'
  BY <1>2, <1>4, <1>8, <1>6, <1>11, <1>13, FS_EmptySet DEF QuietInv, IsCounted
<1> QED  BY <1>4, <1>8, <1>9, <1>11, <1>14, <1>15 DEF PageInv, ReaderInv

LEMMA TurnKeeps ==
  ASSUME PageInv, Pages!TurnPage
  PROVE  PageInv'
<1> DEFINE p == reader.page + 1
           at == reader.of.first
           new == [reader EXCEPT !.page = p, !.at = at]
<1>1. /\ reader # None /\ reader.at = "turn" /\ ReaderInv /\ Pages!HasNext
      /\ reader' = new /\ UNCHANGED <<docs, quiet, left, raced>>
  BY DEF Pages!TurnPage, Pages!Reading, PageInv, Pages!history
<1>2. /\ reader \in Pages!Reader /\ at \in {"count", "find", "both"}
      /\ reader.page \in Nat /\ reader.size \in Nat \ {0} /\ reader.total \in 0..MaxDocs
      /\ reader.page >= 1
  BY <1>1, ReaderTyped DEF PageInv
<1>3. p \in 1..MaxDocs + 1 /\ p - 1 = reader.page
  <2>1. reader.total \in Nat /\ reader.total <= MaxDocs
    BY <1>2, PageConstants
  <2>2. reader.page < reader.total
    BY <1>1, <1>2, <2>1, PageExists DEF Pages!HasNext
  <2> QED  BY <1>2, <2>1, <2>2, PageConstants
<1> HIDE DEF p, at
<1>4. /\ Continues /\ reader'.at = at /\ reader'.total = reader.total /\ reader'.page = p
      /\ reader'.seen = reader.seen /\ reader'.times = reader.times
  BY <1>1, <1>2, <1>3 DEF Continues, Pages!Reader
<1>5. Shown' = Shown /\ Pages!TypeOK'
  BY <1>1, <1>4, ContinuesShown
<1>6. Covered' = Covered
  <2>1. Done' = Done
    BY <1>1, <1>2, <1>3, <1>4 DEF Done, Continues, at
  <2> QED  BY <1>4, <2>1 DEF Covered, Continues
<1>7. WalkInv'
  BY <1>1, <1>2, <1>4, <1>5, <1>6 DEF WalkInv, ReaderInv, Continues, at
<1>8. QuietInv'
  BY <1>1, <1>2, <1>4, <1>5, <1>6 DEF QuietInv, ReaderInv, Continues, IsCounted, at
<1> QED  BY <1>1, <1>2, <1>4, <1>5, <1>6, <1>7, <1>8 DEF PageInv, ReaderInv, Continues, at

\* A document is stored or changed under the reader.
LEMMA WriteListing ==
  ASSUME PageInv, NEW d \in Pages!Doc, NEW marks \in SUBSET Pages!Mark,
         Pages!Write(d, marks)
  PROVE  PageInv'
<1> DEFINE in == marks # None /\ reader.of.needs \subseteq marks
           was == Pages!Matches(d, reader.of)
<1>1. /\ reader # None /\ ~left /\ ~raced /\ ReaderInv /\ reader' = reader
      /\ docs' = [docs EXCEPT ![d] = marks]
  BY DEF Pages!Write, PageInv
<1>2. /\ quiet' = (quiet /\ was = in) /\ left' = (was /\ ~in)
      /\ raced' = (in /\ ~was /\ reader.at = "find" /\ reader.of.first = "count")
  BY <1>1 DEF Pages!Write, Pages!Reading
<1>3. was \in BOOLEAN /\ in \in BOOLEAN
  BY DEF Pages!Matches
<1>3a. quiet' => quiet /\ (was <=> in) /\ ~left' /\ ~raced'
  BY <1>2, <1>3
<1>4. docs' \in [Pages!Doc -> {None} \cup SUBSET Pages!Mark] /\ quiet \in BOOLEAN
  BY <1>1 DEF PageInv, Pages!TypeOK
<1>5. /\ docs'[d] = marks /\ \A e \in Pages!Doc \ {d} : docs'[e] = docs[e]
  BY <1>1 DEF PageInv, Pages!TypeOK
<1>6. /\ \A e \in Pages!Doc \ {d} : e \in Shown' <=> e \in Shown
      /\ d \in Shown' <=> in
      /\ d \in Shown <=> was
      /\ Shown \in SUBSET Pages!Doc /\ Shown' \in SUBSET Pages!Doc
  BY <1>1, <1>5 DEF Shown, Pages!Found, Pages!Matches
<1> HIDE DEF in, was
<1>7. Pages!TypeOK'
  <2>1. quiet' \in BOOLEAN /\ left' \in BOOLEAN /\ raced' \in BOOLEAN
    BY <1>2, <1>3, <1>4
  <2> QED  BY <1>1, <1>4, <2>1 DEF PageInv, Pages!TypeOK
<1>8. Done' = Done /\ Covered' = Covered /\ IsCounted' = IsCounted /\ Covered \in Nat
  BY <1>1, ReaderTyped DEF Done, Covered, IsCounted, PageInv
<1>9. ~left' => Shown \subseteq Shown'
  BY <1>2, <1>3, <1>6
<1>10. WalkInv'
  <2> SUFFICES ASSUME ~left', ~raced'  PROVE WalkInv'
    BY DEF WalkInv
  <2>1. reader.start \subseteq Shown'
    BY <1>1, <1>9 DEF ReaderInv, WalkInv
  <2>2. ASSUME NEW x \in reader.start \ reader.seen  PROVE Covered < Pl(Shown', x)
    <3>1. x \in Shown /\ Covered < Pl(Shown, x)
      BY <1>1 DEF ReaderInv, WalkInv
    <3>2. Pl(Shown, x) <= Pl(Shown', x)
      BY <1>6, <1>9, <3>1, PlaceGrows
    <3>3. Pl(Shown, x) \in 1..Cardinality(Shown) /\ Pl(Shown', x) \in 1..Cardinality(Shown')
      BY <1>6, <1>9, <3>1, PlaceTyped
    <3>4. Pl(Shown, x) \in Nat /\ Pl(Shown', x) \in Nat
      BY <1>6, <3>3, ListedTyped, PageConstants
    <3> QED  BY <1>8, <3>1, <3>2, <3>4
  <2>3. ASSUME reader.at = "find", reader.of.first = "count"
        PROVE  Cardinality(Shown') <= reader.total
    <3>1. Shown' = Shown
      BY <1>2, <1>3, <1>6, <1>9, <2>3
    <3> QED  BY <1>1, <2>3, <3>1 DEF ReaderInv, WalkInv
  <2> QED  BY <1>1, <1>8, <2>1, <2>2, <2>3 DEF WalkInv, ReaderInv
<1>11. QuietInv'
  <2> SUFFICES ASSUME quiet'  PROVE QuietInv'
    BY DEF QuietInv
  <2>1. Shown' = Shown /\ quiet /\ ~left' /\ ~raced'
    BY <1>6, <1>3a
  <2> QED  BY <1>1, <1>8, <2>1 DEF QuietInv, ReaderInv
<1> QED  BY <1>1, <1>7, <1>8, <1>10, <1>11 DEF PageInv, ReaderInv

LEMMA WritesKeep ==
  ASSUME PageInv, Pages!Store \/ Pages!Change
  PROVE  PageInv'
<1>1. CASE Pages!Store
  BY <1>1, WriteListing DEF Pages!Store
<1>2. CASE Pages!Change
  <2>1. PICK d \in Pages!Doc, mark \in {"live", "asked"} :
           /\ docs[d] # None
           /\ Pages!Write(d, IF mark \in docs[d] THEN docs[d] \ {mark} ELSE docs[d] \cup {mark})
    BY <1>2 DEF Pages!Change
  <2> DEFINE marks == IF mark \in docs[d] THEN docs[d] \ {mark} ELSE docs[d] \cup {mark}
  <2>2. docs[d] \in SUBSET Pages!Mark
    BY <2>1 DEF PageInv, Pages!TypeOK
  <2>3. marks \in SUBSET Pages!Mark
    BY <2>2 DEF Pages!Mark
  <2>4. Pages!Write(d, marks)
    BY <2>1
  <2> HIDE DEF marks
  <2> QED  BY <2>3, <2>4, WriteListing
<1> QED  BY <1>1, <1>2

LEMMA PageKeeps ==
  ASSUME PageInv, [Pages!Next]_(Pages!vars)
  PROVE  PageInv'
<1>1. CASE Pages!Close
  BY <1>1 DEF Pages!Close, PageInv, Pages!TypeOK, Pages!history
<1>2. CASE UNCHANGED Pages!vars
  <2>1. UNCHANGED <<docs, reader, quiet, left, raced>>
    BY <1>2 DEF Pages!vars, Pages!history
  <2>2. Shown' = Shown /\ Done' = Done /\ Covered' = Covered /\ IsCounted' = IsCounted
    BY <2>1 DEF Shown, Done, Covered, IsCounted, Pages!Found, Pages!Matches
  <2> QED
    BY <2>1, <2>2 DEF PageInv, Pages!TypeOK, ReaderInv, WalkInv, QuietInv
<1> QED
  BY <1>1, <1>2, OpenKeeps, CountKeeps, FindsKeep, TurnKeeps, WritesKeep DEF Pages!Next

LEMMA PagesOfAll == Spec => Pages!Spec
<1>1. Init => Pages!Init
  BY DEF Init
<1>2. [Next]_vars => [Pages!Next]_(Pages!vars)
  BY DEF Next, vars, pageVars, Pages!vars, Pages!history, BackupsStep, PagesStep,
         TemplatesStep, SmtpStep, WaitsStep, JobsStep
<1> QED  BY <1>1, <1>2, PTL DEF Spec, Pages!Spec

\* Whoever turns the pages of any listing to the last one has seen all that was listed from
\* the beginning, although documents are stored meanwhile, unless one left the listing or
\* came between a count and its find; when nothing changes the pages divide the listing and
\* the answer counts it (the List, ListBy... and Search operations of the repositories).
THEOREM PagesCover == Spec => []PagesHold
<1>1. Pages!Init => PageInv
  BY DEF Pages!Init, PageInv, Pages!TypeOK
<1>2. PageInv /\ [Pages!Next]_(Pages!vars) => PageInv'
  BY PageKeeps
<1>3. PageInv => PagesHold
  <2> SUFFICES ASSUME PageInv, Pages!AtLastPage
               PROVE  /\ ~left /\ ~raced => reader.start \subseteq reader.seen
                      /\ quiet => /\ reader.seen = reader.start
                                  /\ reader.times = Cardinality(reader.start)
                                  /\ reader.total = Cardinality(reader.start)
    BY SamePageCount
    DEF PageInv, PagesHold, Pages!WalkCovers, Pages!PagesPartition, Pages!AtLastPage
  <2>1. reader # None /\ reader.at = "turn" /\ ~Pages!HasNext /\ ReaderInv
    BY DEF Pages!AtLastPage, PageInv
  <2>2. reader.total <= reader.page * reader.size
    BY <2>1, ReaderTyped, LastPage DEF PageInv, Pages!HasNext
  <2>3. Covered = reader.page * reader.size
    BY <2>1 DEF Covered, Done
  <2>4. Covered \in Nat /\ reader.total \in Nat
    BY <2>1, ReaderTyped DEF PageInv
  <2>5. ASSUME ~left, ~raced  PROVE reader.start \subseteq reader.seen
    BY <2>1, <2>2, <2>3, <2>4, <2>5 DEF ReaderInv, WalkInv
  <2>6. ASSUME quiet
        PROVE  /\ reader.seen = reader.start
               /\ reader.times = Cardinality(reader.start)
               /\ reader.total = Cardinality(reader.start)
    <3>1. /\ reader.start \subseteq reader.seen
          /\ reader.seen = Between(reader.start, 0, Covered)
          /\ reader.times = Cardinality(reader.seen)
          /\ reader.total = Cardinality(reader.start)
      BY <2>1, <2>5, <2>6 DEF ReaderInv, QuietInv, IsCounted
    <3>2. reader.seen = reader.start
      BY <3>1 DEF Between
    <3> QED  BY <3>1, <3>2
  <2> QED  BY <2>5, <2>6
<1> QED  BY PagesOfAll, <1>1, <1>2, <1>3, PTL DEF Pages!Spec

-----------------------------------------------------------------------------
(* The waits between retries.  Backoff computes them by recursive          *)
(* functions, so what they return is proved by induction on the number of  *)
(* the retry, which is stated over sets of numbers.  Leaves about numbers  *)
(* of seven digits name SMT, since Zenon writes numbers in unary.          *)

\* Induction, over a set instead of a predicate.
LEMMA SetInduction ==
  ASSUME NEW S, 0 \in S, \A n \in Nat : n \in S => n + 1 \in S
  PROVE  \A n \in Nat : n \in S
<1> SUFFICES ASSUME Nat \ S # {} PROVE FALSE
  OBVIOUS
<1>1. PICK n \in Nat \ S : \A m \in Nat \ S : n <= m
  BY SomeLowest
<1>2. n # 0 /\ n - 1 \in Nat /\ n - 1 \in S
  BY <1>1
<1> QED  BY <1>1, <1>2

\* A sequence that begins like this and goes on by this rule.
Follows(f, first, rule) == f[0] = first /\ \A n \in Nat : f[n + 1] = rule[f[n]]

\* A function is defined by its first value and by how a value follows from the one before.
LEMMA RecursionExists ==
  ASSUME NEW S, NEW first \in S, NEW rule \in [S -> S]
  PROVE  \E f \in [Nat -> S] : Follows(f, first, rule)
<1> DEFINE Upto(n, f) == /\ f \in [0..n -> S] /\ f[0] = first
                         /\ \A i \in 0..(n - 1) : f[i + 1] = rule[f[i]]
           D == {n \in Nat : \E f : Upto(n, f)}
<1>1. \A n \in Nat : n \in D
  <2>1. 0 \in D
    <3>1. Upto(0, [i \in 0..0 |-> first])
      OBVIOUS
    <3> QED  BY <3>1
  <2>2. ASSUME NEW n \in Nat, n \in D PROVE n + 1 \in D
    <3>1. PICK f : Upto(n, f)
      BY <2>2
    <3> DEFINE g == [i \in 0..(n + 1) |-> IF i = n + 1 THEN rule[f[n]] ELSE f[i]]
    <3>2. g[0] = first /\ g[n + 1] = rule[f[n]] /\ f[n] \in S /\ \A i \in 0..n : g[i] = f[i]
      BY <3>1
    <3>3. g \in [0..(n + 1) -> S]
      BY <3>1
    <3>4. ASSUME NEW i \in 0..n PROVE g[i + 1] = rule[g[i]]
      <4>1. CASE i = n
        BY <3>2, <4>1
      <4>2. CASE i # n
        <5>1. i \in 0..(n - 1) /\ i + 1 \in 0..n
          BY <4>2
        <5> HIDE DEF g
        <5> QED  BY <3>1, <3>2, <5>1
      <4> QED  BY <4>1, <4>2
    <3> HIDE DEF g
    <3>5. Upto(n + 1, g)
      BY <3>2, <3>3, <3>4
    <3> QED  BY <3>5
  <2> HIDE DEF D
  <2> QED  BY <2>1, <2>2, SetInduction
<1>2. ASSUME NEW n \in Nat, NEW f, NEW m \in Nat, NEW g, Upto(n, f), Upto(m, g), n <= m
      PROVE  f[n] = g[n]
  <2> DEFINE E == {i \in Nat : i <= n => f[i] = g[i]}
  <2>1. 0 \in E
    BY <1>2
  <2>2. ASSUME NEW i \in Nat, i \in E PROVE i + 1 \in E
    <3> SUFFICES ASSUME i + 1 <= n PROVE f[i + 1] = g[i + 1]
      OBVIOUS
    <3>1. i \in 0..(n - 1) /\ i \in 0..(m - 1) /\ f[i] = g[i]
      BY <1>2, <2>2
    <3> QED  BY <1>2, <3>1
  <2>3. \A i \in Nat : i \in E
    <3> HIDE DEF E
    <3> QED  BY <2>1, <2>2, SetInduction
  <2> QED  BY <2>3
<1> DEFINE F == [n \in Nat |-> CHOOSE f : Upto(n, f)]
           h == [n \in Nat |-> F[n][n]]
<1>3. \A n \in Nat : Upto(n, F[n])
  BY <1>1
<1> HIDE DEF F, D
<1>4. h \in [Nat -> S] /\ h[0] = first
  BY <1>3
<1>5. ASSUME NEW n \in Nat PROVE h[n + 1] = rule[h[n]]
  <2>1. Upto(n, F[n]) /\ Upto(n + 1, F[n + 1])
    BY <1>3
  <2>2. F[n + 1][n + 1] = rule[F[n + 1][n]]
    <3>1. n \in 0..((n + 1) - 1)
      OBVIOUS
    <3> QED  BY <2>1, <3>1
  <2>3. F[n + 1][n] = F[n][n]
    <3>1. n + 1 \in Nat /\ n <= n + 1
      OBVIOUS
    <3> HIDE DEF Upto
    <3> QED  BY <1>2, <2>1, <3>1
  <2> QED  BY <2>2, <2>3
<1> QED  BY <1>4, <1>5 DEF Follows

LEMMA PowersOfTwo ==
  /\ Waits!PowerOfTwo[0] = 1
  /\ \A n \in Nat : Waits!PowerOfTwo[n + 1] = 2 * Waits!PowerOfTwo[n]
  /\ \A n \in Nat : Waits!PowerOfTwo[n] \in Nat \ {0}
<1> DEFINE P == Waits!PowerOfTwo
           rule == [x \in Nat |-> 2 * x]
<1>1. PICK f \in [Nat -> Nat] : Follows(f, 1, rule)
  <2>1. rule \in [Nat -> Nat] /\ 1 \in Nat
    OBVIOUS
  <2> HIDE DEF rule
  <2> QED  BY <2>1, RecursionExists
<1> USE DEF Follows
<1>2. f = [n \in Nat |-> IF n = 0 THEN 1 ELSE 2 * f[n - 1]]
  <2>1. ASSUME NEW n \in Nat \ {0} PROVE f[n] = 2 * f[n - 1]
    <3>1. n - 1 \in Nat /\ (n - 1) + 1 = n /\ f[n - 1] \in Nat
      BY <1>1
    <3> QED  BY <1>1, <3>1
  <2> QED  BY <1>1, <2>1
<1>3. P = CHOOSE g : g = [n \in Nat |-> IF n = 0 THEN 1 ELSE 2 * g[n - 1]]
  BY DEF Waits!PowerOfTwo
<1> HIDE DEF P, rule
<1>4. P = [n \in Nat |-> IF n = 0 THEN 1 ELSE 2 * P[n - 1]]
  BY <1>2, <1>3, Zenon
<1>5. P[0] = 1 /\ \A n \in Nat : P[n + 1] = 2 * P[n]
  <2>1. \A n \in Nat : n + 1 \in Nat /\ n + 1 # 0 /\ (n + 1) - 1 = n
    OBVIOUS
  <2> QED  BY <1>4, <2>1
<1>6. \A n \in Nat : n \in {k \in Nat : P[k] \in Nat \ {0}}
  <2> DEFINE S == {k \in Nat : P[k] \in Nat \ {0}}
  <2>1. 0 \in S /\ \A n \in Nat : n \in S => n + 1 \in S
    BY <1>5
  <2> HIDE DEF S
  <2>2. \A n \in Nat : n \in S
    BY <2>1, SetInduction
  <2> QED  BY <2>2 DEF S
<1> USE DEF P
<1> QED  BY <1>5, <1>6

\* The numbers of customBackoffCalculation grow.
LEMMA FibonacciGrows ==
  \A n \in Nat : /\ Waits!Fibonacci[n] \in Nat \ {0}
                 /\ Waits!Fibonacci[n] <= Waits!Fibonacci[n + 1]
<1> DEFINE F == Waits!Fibonacci
           rule == [p \in Nat \X Nat |-> <<p[2], p[1] + p[2]>>]
<1>1. PICK f \in [Nat -> Nat \X Nat] : Follows(f, <<1, 2>>, rule)
  <2>1. rule \in [Nat \X Nat -> Nat \X Nat] /\ <<1, 2>> \in Nat \X Nat
    OBVIOUS
  <2> HIDE DEF rule
  <2> QED  BY <2>1, RecursionExists
<1> USE DEF Follows
<1> DEFINE h == [n \in Nat |-> f[n][1]]
<1>2. \A n \in Nat : f[n] \in Nat \X Nat /\ f[n + 1] = <<f[n][2], f[n][1] + f[n][2]>>
  BY <1>1
<1>3. h[0] = 1 /\ h[1] = 2 /\ \A n \in Nat : h[n + 2] = h[n + 1] + h[n]
  <2>1. h[0] = 1 /\ h[1] = 2
    <3>1. f[0 + 1] = <<f[0][2], f[0][1] + f[0][2]>>
      BY <1>2
    <3> QED  BY <1>1, <3>1
  <2>2. ASSUME NEW n \in Nat PROVE h[n + 2] = h[n + 1] + h[n]
    <3>1. /\ f[n + 1] = <<f[n][2], f[n][1] + f[n][2]>>
          /\ f[(n + 1) + 1] = <<f[n + 1][2], f[n + 1][1] + f[n + 1][2]>>
          /\ (n + 1) + 1 = n + 2 /\ n + 1 \in Nat /\ n + 2 \in Nat
      <4>1. n + 1 \in Nat /\ n + 2 \in Nat /\ (n + 1) + 1 = n + 2
        OBVIOUS
      <4> QED  BY ONLY <1>2, <4>1, n \in Nat, Zenon
    <3>2. f[n + 2][1] = f[n + 1][2] /\ f[n + 1][2] = f[n][1] + f[n][2] /\ f[n + 1][1] = f[n][2]
      BY <3>1
    <3> QED  BY <1>2, <3>1, <3>2
  <2> QED  BY <2>1, <2>2
<1>4. h = [n \in Nat |-> IF n < 2 THEN n + 1 ELSE h[n - 1] + h[n - 2]]
  <2>1. ASSUME NEW n \in Nat, n >= 2 PROVE h[n] = h[n - 1] + h[n - 2]
    <3>1. n - 2 \in Nat /\ (n - 2) + 2 = n /\ (n - 2) + 1 = n - 1
      BY <2>1
    <3> HIDE DEF h
    <3>2. h[(n - 2) + 2] = h[(n - 2) + 1] + h[n - 2]
      BY <1>3, <3>1
    <3> QED  BY <3>1, <3>2
  <2>2. \A n \in Nat : n < 2 => n = 0 \/ n = 1
    OBVIOUS
  <2>3. h = [n \in Nat |-> h[n]]
    OBVIOUS
  <2> HIDE DEF h
  <2>4. \A n \in Nat : h[n] = IF n < 2 THEN n + 1 ELSE h[n - 1] + h[n - 2]
    <3>1. ASSUME NEW n \in Nat, n < 2 PROVE h[n] = n + 1
      <4>1. CASE n = 0
        BY <1>3, <4>1
      <4>2. CASE n = 1
        BY <1>3, <4>2
      <4> QED  BY <2>2, <3>1, <4>1, <4>2
    <3>2. ASSUME NEW n \in Nat, ~(n < 2) PROVE h[n] = h[n - 1] + h[n - 2]
      BY <2>1, <3>2
    <3> QED  BY <3>1, <3>2
  <2> QED  BY <2>3, <2>4
<1>5. F = CHOOSE g : g = [n \in Nat |-> IF n < 2 THEN n + 1 ELSE g[n - 1] + g[n - 2]]
  BY DEF Waits!Fibonacci
<1> HIDE DEF F, rule, h
<1>6. F = [n \in Nat |-> IF n < 2 THEN n + 1 ELSE F[n - 1] + F[n - 2]]
  BY <1>4, <1>5, Zenon
<1>7. F[0] = 1 /\ F[1] = 2 /\ \A n \in Nat : F[n + 2] = F[n + 1] + F[n]
  <2>1. \A n \in Nat : n + 2 \in Nat /\ ~(n + 2 < 2) /\ (n + 2) - 1 = n + 1 /\ (n + 2) - 2 = n
    OBVIOUS
  <2> QED  BY <1>6, <2>1
<1>8. \A n \in Nat : n \in {k \in Nat : F[k] \in Nat \ {0} /\ F[k + 1] \in Nat /\ F[k] <= F[k + 1]}
  <2> DEFINE S == {k \in Nat : F[k] \in Nat \ {0} /\ F[k + 1] \in Nat /\ F[k] <= F[k + 1]}
  <2>1. 0 \in S
    <3>1. 0 \in Nat /\ F[0] = 1 /\ F[0 + 1] = 2
      BY <1>7
    <3>2. 1 \in Nat \ {0} /\ 2 \in Nat /\ 1 <= 2
      OBVIOUS
    <3> QED  BY <3>1, <3>2, Zenon
  <2>2. ASSUME NEW n \in Nat, n \in S PROVE n + 1 \in S
    <3>1. (n + 1) + 1 = n + 2 /\ F[n + 2] = F[n + 1] + F[n] /\ n + 1 \in Nat
      BY <1>7
    <3>2. F[n] \in Nat \ {0} /\ F[n + 1] \in Nat /\ F[n] <= F[n + 1]
      BY <2>2
    <3> QED  BY <3>1, <3>2
  <2> HIDE DEF S
  <2>3. \A n \in Nat : n \in S
    BY <2>1, <2>2, SetInduction
  <2> QED  BY <2>3 DEF S
<1> USE DEF F
<1> QED  BY <1>8

\* These waits grow up to a limit, and these are what Doubled returns.
Climbs(d, most) == \A n \in Nat : d[n] \in Nat \ {0} /\ d[n] <= d[n + 1] /\ d[n] <= most
DoublesAs(d, first, most) == \A n \in Nat : Waits!Doubled(first, most, n) = Waits!Seconds(d[n])

\* A wait that doubles up to a limit.
LEMMA DoublesUp ==
  ASSUME NEW first \in Nat \ {0}, NEW most \in Nat, first <= most
  PROVE  \E d : DoublesAs(d, first, most) /\ Climbs(d, most)
<1> DEFINE rule == [x \in Nat |-> IF 2 * x > most THEN most ELSE 2 * x]
<1>1. PICK f \in [Nat -> Nat] : Follows(f, first, rule)
  <2>1. rule \in [Nat -> Nat] /\ first \in Nat
    OBVIOUS
  <2> HIDE DEF rule
  <2> QED  BY <2>1, RecursionExists
<1> USE DEF Follows
<1> DEFINE h == [i \in Nat |-> IF i <= 1 THEN first ELSE f[i - 1]]
           d == CHOOSE g :
                   g = [i \in Nat |-> IF i <= 1 THEN first
                                      ELSE IF 2 * g[i - 1] > most THEN most ELSE 2 * g[i - 1]]
<1>2. h = [i \in Nat |-> IF i <= 1 THEN first
                         ELSE IF 2 * h[i - 1] > most THEN most ELSE 2 * h[i - 1]]
  <2>1. ASSUME NEW i \in Nat, i > 1
        PROVE  h[i] = IF 2 * h[i - 1] > most THEN most ELSE 2 * h[i - 1]
    <3>1. i - 2 \in Nat /\ (i - 2) + 1 = i - 1 /\ i - 1 \in Nat /\ (i - 1) - 1 = i - 2
      BY <2>1
    <3>2. f[i - 2] \in Nat /\ f[i - 1] = rule[f[i - 2]]
      BY <1>1, <3>1
    <3>3. h[i - 1] = f[i - 2]
      <4>1. CASE i - 1 <= 1
        <5>1. i - 2 = 0
          BY <3>1, <4>1
        <5> QED  BY <1>1, <3>1, <4>1, <5>1
      <4>2. CASE ~(i - 1 <= 1)
        BY <3>1, <4>2
      <4> QED  BY <4>1, <4>2
    <3>4. h[i] = f[i - 1]
      BY <2>1
    <3> HIDE DEF h
    <3> QED  BY <3>2, <3>3, <3>4
  <2>2. h = [i \in Nat |-> h[i]] /\ \A i \in Nat : i <= 1 => h[i] = first
    OBVIOUS
  <2> DEFINE next(i) == IF i <= 1 THEN first
                        ELSE IF 2 * h[i - 1] > most THEN most ELSE 2 * h[i - 1]
  <2> HIDE DEF h
  <2>3. ASSUME NEW i \in Nat PROVE h[i] = next(i)
    <3>1. CASE i <= 1
      BY <2>2, <3>1
    <3>2. CASE ~(i <= 1)
      <4>1. i > 1
        BY <3>2
      <4>2. h[i] = IF 2 * h[i - 1] > most THEN most ELSE 2 * h[i - 1]
        BY <2>1, <4>1
      <4> QED  BY <3>2, <4>2
    <3> QED  BY <3>1, <3>2
  <2> HIDE DEF next
  <2>4. h = [i \in Nat |-> next(i)]
    BY <2>2, <2>3
  <2> QED  BY <2>4 DEF next
<1> HIDE DEF h, rule
<1>3. d = [i \in Nat |-> IF i <= 1 THEN first
                         ELSE IF 2 * d[i - 1] > most THEN most ELSE 2 * d[i - 1]]
  BY <1>2, Zenon
<1>4. \A n \in Nat : Waits!Doubled(first, most, n) = Waits!Seconds(d[n])
  BY DEF Waits!Doubled
<1> HIDE DEF d
<1>5. /\ d[0] = first /\ d[1] = first
      /\ \A n \in Nat \ {0} : d[n + 1] = IF 2 * d[n] > most THEN most ELSE 2 * d[n]
  <2>1. \A n \in Nat \ {0} : n + 1 \in Nat /\ ~(n + 1 <= 1) /\ (n + 1) - 1 = n
    OBVIOUS
  <2> QED  BY <1>3, <2>1
<1>6. \A n \in Nat : n \in {k \in Nat : d[k] \in Nat \ {0} /\ d[k] <= d[k + 1] /\ d[k] <= most}
  <2> DEFINE S == {k \in Nat : d[k] \in Nat \ {0} /\ d[k] <= d[k + 1] /\ d[k] <= most}
  <2>1. 0 \in S
    BY <1>5
  <2>2. ASSUME NEW n \in Nat, n \in S PROVE n + 1 \in S
    <3>1. d[n + 1] \in Nat \ {0} /\ d[n + 1] <= most
      <4>1. CASE n = 0
        BY <1>5, <4>1
      <4>2. CASE n # 0
        BY <1>5, <2>2, <4>2
      <4> QED  BY <4>1, <4>2
    <3>2. d[(n + 1) + 1] = IF 2 * d[n + 1] > most THEN most ELSE 2 * d[n + 1]
      BY <1>5
    <3> QED  BY <3>1, <3>2
  <2> HIDE DEF S
  <2>3. \A n \in Nat : n \in S
    BY <2>1, <2>2, SetInduction
  <2> QED  BY <2>3 DEF S
<1> QED  BY <1>4, <1>6 DEF Climbs, DoublesAs

\* Of two durations with one exponent the mantissa decides.
LEMMA SameUnit ==
  ASSUME NEW m \in Int, NEW n \in Int, m <= n, NEW e \in Nat
  PROVE  Waits!AtMost([m |-> m, e |-> e], [m |-> n, e |-> e])
<1>1. e - e = 0 /\ 2^0 = 1 /\ n \div 1 = n
  OBVIOUS
<1> QED  BY <1>1 DEF Waits!AtMost

\* The schedules of the manager, of the notifications and of the emails, in seconds.
LEMMA PlainGrows ==
  ASSUME schedule \in Waits!Schedules \ {"exponential", "linear", "fixed"}
  PROVE  \E x, most : /\ most \in Nat /\ Waits!Most = Waits!Seconds(most)
                      /\ \A n \in Nat \ {0} : /\ Waits!Delay(n) = Waits!Seconds(x[n])
                                              /\ x[n] \in Nat \ {0}
                                              /\ x[n] <= x[n + 1] /\ x[n] <= most
<1> DEFINE Goal(x, most) ==
      /\ most \in Nat /\ Waits!Most = Waits!Seconds(most)
      /\ \A n \in Nat \ {0} : /\ Waits!Delay(n) = Waits!Seconds(x[n])
                              /\ x[n] \in Nat \ {0}
                              /\ x[n] <= x[n + 1] /\ x[n] <= most
<1>1. CASE schedule = "notification"
  <2>1. PICK d : DoublesAs(d, 300, 86400) /\ Climbs(d, 86400)
    <3>1. 300 \in Nat \ {0} /\ 86400 \in Nat /\ 300 <= 86400
      OBVIOUS
    <3> QED  BY ONLY <3>1, DoublesUp
  <2>2. Goal(d, 86400)
    BY <1>1, <2>1 DEF DoublesAs, Climbs, Waits!Most, Waits!Delay, Waits!CalculateNextRetry
  <2> QED  BY <2>2
<1>2. CASE schedule = "smtp"
  <2>1. PICK d : DoublesAs(d, 5, 3600) /\ Climbs(d, 3600)
    <3>1. 5 \in Nat \ {0} /\ 3600 \in Nat /\ 5 <= 3600
      OBVIOUS
    <3> QED  BY ONLY <3>1, DoublesUp
  <2>2. Goal(d, 3600)
    BY <1>2, <2>1 DEF DoublesAs, Climbs, Waits!Most, Waits!Delay, Waits!smtpDelay
  <2> QED  BY <2>2
<1>3. CASE schedule \in {"manager", "managerLinear", "managerCustom"}
  <2> DEFINE grows == [n \in Nat |-> IF schedule = "managerLinear" THEN 30 * (n + 1)
                                     ELSE IF schedule = "managerCustom" THEN 30 * Waits!Fibonacci[n]
                                     ELSE 30 * Waits!PowerOfTwo[n]]
             x == [n \in Nat |-> IF grows[n - 1] > 600 THEN 600 ELSE grows[n - 1]]
  <2>1. ASSUME NEW n \in Nat PROVE grows[n] \in Nat \ {0} /\ grows[n] <= grows[n + 1]
    <3>0. n + 1 \in Nat
      OBVIOUS
    <3>1. CASE schedule = "managerLinear"
      <4>1. grows[n] = 30 * (n + 1) /\ grows[n + 1] = 30 * ((n + 1) + 1)
        BY <3>0, <3>1
      <4> HIDE DEF grows
      <4> QED  BY <4>1
    <3>2. CASE schedule = "managerCustom"
      <4>1. /\ Waits!Fibonacci[n] \in Nat \ {0} /\ Waits!Fibonacci[n + 1] \in Nat \ {0}
            /\ Waits!Fibonacci[n] <= Waits!Fibonacci[n + 1]
        BY <3>0, FibonacciGrows
      <4>2. grows[n] = 30 * Waits!Fibonacci[n] /\ grows[n + 1] = 30 * Waits!Fibonacci[n + 1]
        BY <3>0, <3>2
      <4> HIDE DEF grows
      <4> QED  BY <4>1, <4>2
    <3>3. CASE schedule = "manager"
      <4>1. /\ Waits!PowerOfTwo[n] \in Nat \ {0}
            /\ Waits!PowerOfTwo[n + 1] = 2 * Waits!PowerOfTwo[n]
        BY PowersOfTwo
      <4>2. grows[n] = 30 * Waits!PowerOfTwo[n] /\ grows[n + 1] = 30 * Waits!PowerOfTwo[n + 1]
        BY <3>0, <3>3
      <4> HIDE DEF grows
      <4> QED  BY <4>1, <4>2
    <3> HIDE DEF grows
    <3> QED  BY <1>3, <3>1, <3>2, <3>3
  <2>0. /\ schedule \notin {"exponential", "linear", "fixed"}
        /\ schedule # "notification" /\ schedule # "smtp"
        /\ schedule # "exponential" /\ schedule \notin {"linear", "fixed"}
    BY <1>3
  <2>2. Waits!Most = Waits!Seconds(600)
    BY ONLY <2>0 DEF Waits!Most
  <2>3. ASSUME NEW n \in Nat \ {0}
        PROVE  Waits!Delay(n) = Waits!Seconds(x[n])
    <3>1. Waits!Delay(n) = Waits!managerDelay(schedule, n - 1)
      BY ONLY <2>0 DEF Waits!Delay
    <3>2. n - 1 \in Nat
      OBVIOUS
    <3> QED  BY <3>1, <3>2 DEF Waits!managerDelay
  <2>4. ASSUME NEW n \in Nat \ {0}
        PROVE  x[n] \in Nat \ {0} /\ x[n] <= x[n + 1] /\ x[n] <= 600
    <3>1. n - 1 \in Nat /\ (n - 1) + 1 = n /\ (n + 1) - 1 = n /\ n + 1 \in Nat
      OBVIOUS
    <3> HIDE DEF grows
    <3>2. grows[n - 1] \in Nat \ {0} /\ grows[n] \in Nat \ {0} /\ grows[n - 1] <= grows[n]
      BY <2>1, <3>1
    <3>3. /\ x[n] = IF grows[n - 1] > 600 THEN 600 ELSE grows[n - 1]
          /\ x[n + 1] = IF grows[n] > 600 THEN 600 ELSE grows[n]
      BY <3>1
    <3> HIDE DEF x
    <3> QED  BY <3>2, <3>3
  <2> HIDE DEF x
  <2>5. Goal(x, 600)
    BY <2>2, <2>3, <2>4
  <2> QED  BY <2>5
<1> QED  BY <1>1, <1>2, <1>3 DEF Waits!Schedules

\* The powers of two that the shifts below take.
Power(k) == 2^k

LEMMA Powers ==
  \A k \in 1..28 :
     Power(k) \in Nat \ {0} /\ (k >= 4 => Power(k) >= 16) /\ (k >= 25 => Power(k) >= Power(25))
<1> DEFINE Good(k) == /\ Power(k) \in Nat \ {0} /\ (k >= 4 => Power(k) >= 16)
                      /\ (k >= 25 => Power(k) >= Power(25))
<1>1. /\ Power(1) = 2 /\ Power(2) = 4 /\ Power(3) = 8 /\ Power(4) = 16
      /\ Power(5) = 32 /\ Power(6) = 64 /\ Power(7) = 128 /\ Power(8) = 256
      /\ Power(9) = 512 /\ Power(10) = 1024 /\ Power(11) = 2048 /\ Power(12) = 4096
      /\ Power(13) = 8192 /\ Power(14) = 16384 /\ Power(15) = 32768 /\ Power(16) = 65536
      /\ Power(17) = 131072 /\ Power(18) = 262144 /\ Power(19) = 524288 /\ Power(20) = 1048576
      /\ Power(21) = 2097152 /\ Power(22) = 4194304 /\ Power(23) = 8388608 /\ Power(24) = 16777216
      /\ Power(25) = 33554432 /\ Power(26) = 67108864
      /\ Power(27) = 134217728 /\ Power(28) = 268435456
  BY SMT DEF Power
<1>2. ASSUME NEW k \in 1..28 PROVE Good(k)
  <2>1. CASE k = 1 \/ k = 2 \/ k = 3 \/ k = 4 \/ k = 5 \/ k = 6 \/ k = 7
    BY <1>1, <2>1, SMT
  <2>2. CASE k = 8 \/ k = 9 \/ k = 10 \/ k = 11 \/ k = 12 \/ k = 13 \/ k = 14
    BY <1>1, <2>2, SMT
  <2>3. CASE k = 15 \/ k = 16 \/ k = 17 \/ k = 18 \/ k = 19 \/ k = 20 \/ k = 21
    BY <1>1, <2>3, SMT
  <2>4. CASE k = 22 \/ k = 23 \/ k = 24 \/ k = 25 \/ k = 26 \/ k = 27 \/ k = 28
    BY <1>1, <2>4, SMT
  <2> HIDE DEF Good
  <2> QED  BY <2>1, <2>2, <2>3, <2>4, SMT
<1>3. \A k \in 1..28 : Good(k)
  BY ONLY <1>2, Zenon
<1> QED  BY <1>3, Zenon

\* Five seconds shifted to the exponent e: positive up to 39, negative at 40.
LEMMA ShiftedUp ==
  ASSUME NEW d, NEW n \in Nat, d.m = 9765625, d.e \in Nat
  PROVE  LET s == Waits!Shifted(d, n) IN
         /\ s.m \in Int /\ s.e \in Nat
         /\ d.e + n <= 39 => s = [m |-> 9765625, e |-> d.e + n]
         /\ d.e + n = 40 => s.m < 0
<1> DEFINE e == d.e + n
           room == 63 - e
<1>1. e \in Nat /\ 9765625 \in Int /\ 9765625 < 33554432
  BY SMT
<1>2. CASE e >= 64
  BY <1>1, <1>2, SMT DEF Waits!Shifted
<1>3. CASE ~(e >= 64) /\ room >= 28
  <2>1. Waits!Shifted(d, n) = [m |-> 9765625, e |-> e]
    BY <1>1, <1>3, SMT DEF Waits!Shifted
  <2>2. e <= 35
    BY <1>1, <1>3, SMT
  <2> QED  BY <1>1, <2>1, <2>2, SMT
<1>4. CASE ~(e >= 64) /\ ~(room >= 28)
  <2> DEFINE all == Power(room + 1)
             half == Power(room)
             m == 9765625 % all
  <2> HIDE DEF m
  <2>1. room \in 0..27 /\ room + 1 \in 1..28 /\ e \in 36..63 /\ room = 63 - e
    BY <1>1, <1>4, SMT
  <2>2. Waits!Shifted(d, n) = [m |-> IF m >= half THEN m - all ELSE m, e |-> e]
    BY <1>4, SMT DEF Waits!Shifted, m, Power
  <2> HIDE DEF room, e
  <2>3. all \in Nat \ {0} /\ m \in Int /\ half \in Nat
    <3>1. all \in Nat \ {0}
      BY ONLY <2>1, Powers
    <3>2. half \in Nat
      <4>1. CASE room = 0
        BY <4>1, SMT DEF Power
      <4>2. CASE room # 0
        <5>1. room \in 1..28
          BY <2>1, <4>2, SMT
        <5> QED  BY ONLY <5>1, Powers
      <4> QED  BY <4>1, <4>2, SMT
    <3> HIDE DEF all
    <3> QED  BY <3>1, <3>2, SMT DEF m
  <2>4. ASSUME e <= 39 PROVE m = 9765625 /\ m < half
    <3>1. room + 1 \in 25..28 /\ room \in {24, 25, 26, 27}
      BY <2>1, <2>4, SMT
    <3>2. all >= 33554432
      <4>1. room + 1 \in 1..28 /\ room + 1 >= 25 /\ Power(25) = 33554432
        BY <3>1, SMT DEF Power
      <4>2. all >= Power(25)
        BY ONLY <4>1, Powers, SMT
      <4> QED  BY <4>1, <4>2, SMT
    <3>3. /\ Power(24) = 16777216 /\ Power(25) = 33554432
          /\ Power(26) = 67108864 /\ Power(27) = 134217728
      BY SMT DEF Power
    <3>4. half > 9765625
      BY <3>1, <3>3, SMT
    <3>5. m = 9765625
      <4> HIDE DEF all
      <4> QED  BY <2>3, <3>2, SMT DEF m
    <3> QED  BY <3>4, <3>5, SMT
  <2>5. ASSUME e = 40 PROVE m >= half /\ m - all < 0
    <3>1. room = 23 /\ room + 1 = 24
      BY <2>1, <2>5, SMT
    <3>2. Power(24) = 16777216 /\ Power(23) = 8388608
      BY SMT DEF Power
    <3>3. half = 8388608 /\ all = 16777216
      BY <3>1, <3>2, SMT
    <3> HIDE DEF half, all
    <3>4. m = 9765625
      BY <3>3, SMT DEF m
    <3> QED  BY <3>3, <3>4, SMT
  <2> USE DEF e
  <2> HIDE DEF half, all
  <2> QED  BY <2>1, <2>2, <2>3, <2>4, <2>5, SMT
<1> QED  BY <1>2, <1>3, <1>4, SMT

\* Five seconds times a power of two that fits, and five minutes.
Five(e) == [m |-> 9765625, e |-> e]

\* Up to the exponent 14 that is at most five minutes, from 15 on it is more.
LEMMA FiveMinutesBetween ==
  ASSUME NEW e \in 9..39
  PROVE  Waits!AtMost(Five(e), Waits!FiveMinutes) <=> e <= 14
<1> DEFINE p == Power(e - 11)
           q == Power(11 - e)
           big == Power(28)
<1>0. Waits!AtMost(Five(e), Waits!FiveMinutes)
      <=> \/ 9765625 <= 0
          \/ e >= 11 /\ e - 11 <= 30 /\ 9765625 <= 146484375 \div p
          \/ e < 11 /\ \/ 11 - e >= 28
                       \/ 146484375 >= big \div q
                       \/ 9765625 <= 146484375 * q
  BY SMT DEF Five, Power, Waits!FiveMinutes, Waits!AtMost
<1>1. CASE e <= 10
  <2>1. q = 2 \/ q = 4
    <3>1. 11 - e = 1 \/ 11 - e = 2
      BY <1>1, SMT
    <3>2. Power(1) = 2 /\ Power(2) = 4
      BY SMT DEF Power
    <3> QED  BY ONLY <3>1, <3>2, SMT
  <2> HIDE DEF p, q, big
  <2> QED  BY <1>0, <1>1, <2>1, SMT
<1>2. CASE e \in 11..14
  <2>1. p = 1 \/ p = 2 \/ p = 4 \/ p = 8
    <3>1. e - 11 = 0 \/ e - 11 = 1 \/ e - 11 = 2 \/ e - 11 = 3
      BY <1>2, SMT
    <3>2. Power(0) = 1 /\ Power(1) = 2 /\ Power(2) = 4 /\ Power(3) = 8
      BY SMT DEF Power
    <3> QED  BY ONLY <3>1, <3>2, SMT
  <2>2. /\ 146484375 \div 1 = 146484375 /\ 146484375 \div 2 = 73242187
        /\ 146484375 \div 4 = 36621093 /\ 146484375 \div 8 = 18310546
    BY SMT
  <2> HIDE DEF p, q, big
  <2> QED  BY <1>0, <1>2, <2>1, <2>2, SMT
<1>3. CASE e >= 15
  <2>1. e - 11 \in 1..28 /\ e - 11 >= 4
    BY <1>3, SMT
  <2>2. p \in Nat /\ p >= 16
    BY ONLY <2>1, Powers, SMT
  <2> HIDE DEF p, q, big
  <2>3. 146484375 \div p \in Nat /\ 146484375 \div p < 9765625
    <3> DEFINE x == 146484375 \div p
    <3>1. x \in Nat /\ x * p <= 146484375
      <4>1. 146484375 \in Nat /\ p \in Nat \ {0}
        BY <2>2, SMT
      <4> QED  BY ONLY <4>1, Quotient, SMT
    <3> HIDE DEF x
    <3>2. 16 * x <= p * x
      BY ONLY <2>2, <3>1, TimesGrows, SMT
    <3>3. p * x = x * p
      BY <2>2, <3>1, SMT
    <3>4. x < 9765625
      BY <2>2, <3>1, <3>2, <3>3, SMT
    <3> QED  BY <3>1, <3>4, SMT DEF x
  <2>4. ~(e <= 14) /\ ~(e < 11) /\ ~(9765625 <= 0) /\ ~(9765625 <= 146484375 \div p)
    BY <1>3, <2>3, SMT
  <2> QED  BY ONLY <1>0, <2>4, SMT
<1> QED  BY <1>1, <1>2, <1>3, SMT

\* The delay of the executor's n-th retry that doubles: it is typed, and as long as it fits it
\* is five seconds times a power of two or five minutes.
LEMMA ExponentialIs ==
  ASSUME NEW d, NEW n \in Nat \ {0}, d.m = 9765625, d.e \in Nat, d.e >= 9
  PROVE  LET w == Waits!calculateRetryDelay("exponential", d, n) IN
         /\ w.m \in Int /\ w.e \in Nat
         /\ d.e + n <= 14 => w = Five(d.e + n)
         /\ d.e + n \in 15..39 => w = Waits!FiveMinutes
         /\ d.e + n = 40 => w.m < 0
<1> DEFINE s == Waits!Shifted(d, n)
           w == Waits!calculateRetryDelay("exponential", d, n)
<1>1. /\ s.m \in Int /\ s.e \in Nat
      /\ d.e + n <= 39 => s = Five(d.e + n)
      /\ d.e + n = 40 => s.m < 0
  BY ShiftedUp, SMT DEF Five
<1>2. w = IF Waits!AtMost(s, Waits!FiveMinutes) THEN s ELSE Waits!FiveMinutes
  BY SMT DEF Waits!calculateRetryDelay, Waits!Least
<1> HIDE DEF s, w
<1>3. Waits!FiveMinutes.m \in Int /\ Waits!FiveMinutes.e \in Nat
  BY SMT DEF Waits!FiveMinutes
<1>4. ASSUME d.e + n <= 39 PROVE Waits!AtMost(s, Waits!FiveMinutes) <=> d.e + n <= 14
  <2>1. d.e + n \in 9..39
    BY <1>4, SMT
  <2> QED  BY ONLY <1>1, <1>4, <2>1, FiveMinutesBetween, Zenon
<1>5. ASSUME d.e + n = 40 PROVE Waits!AtMost(s, Waits!FiveMinutes)
  BY <1>1, <1>5, SMT DEF Waits!AtMost
<1>6. /\ d.e + n \in Nat /\ (d.e + n <= 14 => d.e + n <= 39)
      /\ d.e + n \in 15..39 => ~(d.e + n <= 14) /\ d.e + n <= 39
  BY SMT
<1> QED  BY <1>1, <1>2, <1>3, <1>4, <1>5, <1>6, SMT DEF w

\* The base delay: five seconds times a power of two.
Based ==
    /\ schedule \in Waits!Schedules
    /\ delay = [m |-> 9765625, e |-> delay.e] /\ delay.e \in 9..39

\* The n-th retry is one that the schedule makes.
Made(n) == schedule = "exponential" \/ n <= FewAttempts

\* What is promised of the wait of the n-th retry.
Promised(n) ==
    /\ Waits!Delay(n).m \in Int /\ Waits!Delay(n).e \in Nat
    /\ (schedule = "exponential" => delay.e + n <= 39) =>
          /\ Waits!Delay(n).m > 0 /\ Waits!AtMost(Waits!Delay(n), Waits!Most)
          /\ n > 1 => Waits!AtMost(Waits!Delay(n - 1), Waits!Delay(n))
    /\ schedule = "exponential" /\ delay.e + n = 40 => Waits!Delay(n).m < 0

LEMMA ExponentialPromised ==
  ASSUME Based, schedule = "exponential", NEW n \in Nat \ {0}
  PROVE  Promised(n)
<1> DEFINE w(k) == Waits!calculateRetryDelay("exponential", delay, k)
           e == delay.e + n
<1>1. \A k : Waits!Delay(k) = w(k)
  BY SMT DEF Waits!Delay
<1>2. Waits!Most = Waits!FiveMinutes
  BY SMT DEF Waits!Most
<1>3. delay.m = 9765625 /\ delay.e \in Nat /\ delay.e >= 9 /\ e \in Nat /\ e >= 10
  BY SMT DEF Based
<1>4. /\ w(n).m \in Int /\ w(n).e \in Nat
      /\ e <= 14 => w(n) = Five(e)
      /\ e \in 15..39 => w(n) = Waits!FiveMinutes
      /\ e = 40 => w(n).m < 0
  BY <1>3, ExponentialIs, SMT
<1>5. ASSUME n > 1
      PROVE  /\ e - 1 <= 14 => w(n - 1) = Five(e - 1)
             /\ e - 1 \in 15..39 => w(n - 1) = Waits!FiveMinutes
  <2>1. n - 1 \in Nat \ {0} /\ delay.e + (n - 1) = e - 1
    BY <1>3, <1>5, SMT
  <2>2. /\ delay.e + (n - 1) <= 14 => w(n - 1) = Five(delay.e + (n - 1))
        /\ delay.e + (n - 1) \in 15..39 => w(n - 1) = Waits!FiveMinutes
    BY ONLY <1>3, <2>1, ExponentialIs, SMT
  <2> HIDE DEF e
  <2> QED  BY <2>1, <2>2, SMT
<1>6. Waits!FiveMinutes = [m |-> 146484375, e |-> 11]
  BY SMT DEF Waits!FiveMinutes
<1>7. Waits!AtMost(Waits!FiveMinutes, Waits!FiveMinutes)
  BY ONLY <1>6, SameUnit, SMT
<1>8. ASSUME e <= 14, n > 1 PROVE Waits!AtMost(Five(e - 1), Five(e))
  <2> DEFINE p == Power(e - (e - 1))
  <2>1. e - (e - 1) = 1 /\ e - 1 < e /\ e \in Nat
    BY <1>3, SMT
  <2>2. p = 2
    <3>1. Power(1) = 2
      BY SMT DEF Power
    <3> QED  BY ONLY <2>1, <3>1, SMT
  <2> HIDE DEF e, p
  <2>3. 9765625 <= 9765625 * p
    BY <2>2, SMT
  <2> QED  BY <2>1, <2>3, SMT DEF p, Power, Five, Waits!AtMost
<1>9. e <= 14 => Waits!AtMost(Five(e), Waits!FiveMinutes)
  <2>1. e <= 14 => e \in 9..39
    BY <1>3, SMT
  <2> QED  BY ONLY <2>1, FiveMinutesBetween, Zenon
<1>10. Waits!AtMost(Five(14), Waits!FiveMinutes)
  <2>1. 14 \in 9..39 /\ 14 <= 14
    BY SMT
  <2> QED  BY ONLY <2>1, FiveMinutesBetween, SMT
<1>11. Waits!FiveMinutes.m > 0 /\ Five(e).m > 0
  BY SMT DEF Five, Waits!FiveMinutes
<1> HIDE DEF w, e
<1>12. ASSUME e <= 39
       PROVE  /\ w(n).m > 0 /\ Waits!AtMost(w(n), Waits!FiveMinutes)
              /\ n > 1 => Waits!AtMost(w(n - 1), w(n))
  <2>1. CASE e <= 14
    <3>1. e - 1 <= 14
      BY <1>3, <2>1, SMT
    <3>2. w(n).m > 0 /\ Waits!AtMost(w(n), Waits!FiveMinutes)
      BY ONLY <1>4, <1>9, <1>11, <2>1, Zenon
    <3>3. ASSUME n > 1 PROVE Waits!AtMost(w(n - 1), w(n))
      BY ONLY <1>4, <1>5, <1>8, <2>1, <3>1, <3>3, Zenon
    <3> QED  BY ONLY <3>2, <3>3, Zenon
  <2>2. CASE e = 15
    <3>1. e - 1 = 14 /\ 14 <= 14 /\ e \in 15..39
      BY <2>2, SMT
    <3>2. w(n).m > 0 /\ Waits!AtMost(w(n), Waits!FiveMinutes)
      BY ONLY <1>4, <1>7, <1>11, <3>1, Zenon
    <3>3. ASSUME n > 1 PROVE Waits!AtMost(w(n - 1), w(n))
      BY ONLY <1>4, <1>5, <1>10, <3>1, <3>3, Zenon
    <3> QED  BY ONLY <3>2, <3>3, Zenon
  <2>3. CASE e > 15
    <3>1. e - 1 \in 15..39 /\ e \in 15..39
      BY <1>3, <1>12, <2>3, SMT
    <3>2. w(n).m > 0 /\ Waits!AtMost(w(n), Waits!FiveMinutes)
      BY ONLY <1>4, <1>7, <1>11, <3>1, Zenon
    <3>3. ASSUME n > 1 PROVE Waits!AtMost(w(n - 1), w(n))
      BY ONLY <1>4, <1>5, <1>7, <3>1, <3>3, Zenon
    <3> QED  BY ONLY <3>2, <3>3, Zenon
  <2>4. e <= 14 \/ e = 15 \/ e > 15
    BY <1>3, SMT
  <2> QED  BY <2>1, <2>2, <2>3, <2>4, SMT
<1> QED  BY ONLY <1>1, <1>2, <1>4, <1>12, schedule = "exponential", SMT DEF Promised, e

LEMMA LinearPromised ==
  ASSUME Based, schedule \in {"linear", "fixed"}, FewAttempts \in Nat,
         NEW n \in Nat \ {0}, n <= FewAttempts
  PROVE  Promised(n)
<1> DEFINE f(k) == IF schedule = "linear" THEN 9765625 * k ELSE 9765625
           W(m) == [m |-> m, e |-> delay.e]
<1>1. schedule # "exponential" /\ delay = W(9765625) /\ delay.e \in Nat
  BY SMT DEF Based
<1>2. \A k \in Nat : Waits!Delay(k) = W(f(k))
  BY <1>1, SMT DEF Waits!Delay, Waits!calculateRetryDelay
<1>3. Waits!Most = W(9765625 * FewAttempts)
  BY <1>1, SMT DEF Waits!Most
<1>4. /\ f(n) \in Nat /\ f(n) > 0 /\ 9765625 * FewAttempts \in Int /\ f(n) <= 9765625 * FewAttempts
      /\ n > 1 => f(n - 1) \in Int /\ f(n - 1) <= f(n)
  BY SMT
<1> HIDE DEF f
<1>5. Waits!AtMost(W(f(n)), W(9765625 * FewAttempts))
  <2> DEFINE g == 9765625 * FewAttempts
  <2>1. f(n) \in Int /\ g \in Int /\ f(n) <= g
    BY <1>4, SMT
  <2> HIDE DEF g
  <2>2. Waits!AtMost([m |-> f(n), e |-> delay.e], [m |-> g, e |-> delay.e])
    <3>1. delay.e \in Nat
      BY <1>1, SMT
    <3> QED  BY ONLY <2>1, <3>1, SameUnit, Zenon
  <2> QED  BY <2>2, SMT DEF g
<1>6. ASSUME n > 1 PROVE Waits!AtMost(W(f(n - 1)), W(f(n)))
  <2>1. f(n) \in Int /\ f(n - 1) \in Int /\ f(n - 1) <= f(n)
    BY <1>4, <1>6, SMT
  <2> QED  BY <1>1, <2>1, SameUnit, SMT
<1>7. n \in Nat /\ (n > 1 => n - 1 \in Nat)
  BY SMT
<1>8. W(f(n)).m = f(n) /\ W(f(n)).e = delay.e
  BY SMT
<1> HIDE DEF W
<1> QED  BY ONLY <1>1, <1>2, <1>3, <1>4, <1>5, <1>6, <1>7, <1>8, SMT DEF Promised

LEMMA PlainPromised ==
  ASSUME schedule \in Waits!Schedules \ {"exponential", "linear", "fixed"},
         NEW n \in Nat \ {0}
  PROVE  Promised(n)
<1>1. PICK x, most : /\ most \in Nat /\ Waits!Most = Waits!Seconds(most)
                     /\ \A k \in Nat \ {0} : /\ Waits!Delay(k) = Waits!Seconds(x[k])
                                             /\ x[k] \in Nat \ {0}
                                             /\ x[k] <= x[k + 1] /\ x[k] <= most
  BY PlainGrows
<1>2. \A a \in Nat, b \in Nat : a <= b => Waits!AtMost(Waits!Seconds(a), Waits!Seconds(b))
  <2>1. ASSUME NEW a \in Nat, NEW b \in Nat, a <= b
        PROVE  Waits!AtMost(Waits!Seconds(a), Waits!Seconds(b))
    <3>1. 0 \in Nat /\ a \in Int /\ b \in Int
      OBVIOUS
    <3> QED  BY ONLY <2>1, <3>1, SameUnit DEF Waits!Seconds
  <2> QED  BY <2>1
<1>3. n > 1 => n - 1 \in Nat \ {0} /\ (n - 1) + 1 = n
  OBVIOUS
<1>4. \A a : Waits!Seconds(a).m = a /\ Waits!Seconds(a).e = 0
  BY DEF Waits!Seconds
<1>5. /\ Waits!Delay(n) = Waits!Seconds(x[n]) /\ x[n] \in Nat \ {0} /\ x[n] <= most
      /\ n > 1 => /\ Waits!Delay(n - 1) = Waits!Seconds(x[n - 1])
                  /\ x[n - 1] \in Nat /\ x[n - 1] <= x[n]
  BY <1>1, <1>3
<1>6. schedule # "exponential"
  OBVIOUS
<1>7. 0 \in Nat /\ x[n] \in Int /\ x[n] > 0
  BY <1>5
<1> QED  BY ONLY <1>1, <1>2, <1>4, <1>5, <1>6, <1>7 DEF Promised

\* The two waits are those of the latest retry and of the one before it.
WaitInv ==
    /\ Based /\ attempt \in 0..MaxAttempts /\ Made(attempt)
    /\ wait = IF attempt = 0 THEN Waits!Seconds(0) ELSE Waits!Delay(attempt)
    /\ last = IF attempt <= 1 THEN Waits!Seconds(0) ELSE Waits!Delay(attempt - 1)

LEMMA WaitConstants ==
  /\ FewAttempts \in Nat /\ MaxAttempts \in Nat /\ FewAttempts <= MaxAttempts
  /\ Longer \subseteq 0..30
BY Parameters DEF Waits!BackoffAssumption

LEMMA AllPromised ==
  ASSUME Based, NEW n \in Nat \ {0}, Made(n)
  PROVE  Promised(n)
<1>1. CASE schedule = "exponential"
  BY ONLY Based, n \in Nat \ {0}, <1>1, ExponentialPromised, Zenon
<1>2. CASE schedule \in {"linear", "fixed"}
  <2>1. n <= FewAttempts /\ FewAttempts \in Nat
    BY <1>2, WaitConstants DEF Made
  <2> QED  BY ONLY Based, n \in Nat \ {0}, <1>2, <2>1, LinearPromised, Zenon
<1>3. CASE schedule \notin {"exponential", "linear", "fixed"}
  <2>1. schedule \in Waits!Schedules \ {"exponential", "linear", "fixed"}
    BY <1>3, SMT DEF Based
  <2> QED  BY ONLY <2>1, n \in Nat \ {0}, PlainPromised, Zenon
<1> QED  BY <1>1, <1>2, <1>3

LEMMA WaitInitially ==
  ASSUME Waits!Init
  PROVE  WaitInv
<1>1. PICK b \in Longer : delay = [Waits!FiveSeconds EXCEPT !.e = @ + b]
  BY DEF Waits!Init
<1>2. b \in 0..30
  BY <1>1, WaitConstants
<1>3. delay = [m |-> 9765625, e |-> 9 + b]
  BY <1>1, SMT DEF Waits!FiveSeconds
<1>4. Based
  BY <1>2, <1>3, SMT DEF Waits!Init, Based
<1> HIDE DEF Based
<1> QED  BY ONLY <1>4, Waits!Init, WaitConstants, SMT DEF Waits!Init, WaitInv, Made

LEMMA WaitKeeps ==
  ASSUME WaitInv, [Waits!Next]_(Waits!vars)
  PROVE  WaitInv'
<1>1. CASE Waits!Retry
  <2>1. schedule' = schedule /\ delay' = delay /\ attempt' = attempt + 1
    BY <1>1 DEF Waits!Retry
  <2>2. Based'
    BY <2>1 DEF WaitInv, Based
  <2>3. attempt \in Nat /\ attempt + 1 \in 0..MaxAttempts /\ Made(attempt + 1)
    <3>1. attempt < IF schedule = "exponential" THEN MaxAttempts ELSE FewAttempts
      BY <1>1 DEF Waits!Retry
    <3> QED  BY <3>1, WaitConstants DEF WaitInv, Made
  <2>4. Made(attempt)'
    BY <2>1, <2>3 DEF Made
  <2>5. wait' = Waits!Delay(attempt + 1) /\ last' = wait
    BY <1>1 DEF Waits!Retry
  <2>6. attempt' # 0 /\ (attempt' <= 1 <=> attempt = 0) /\ attempt' - 1 = attempt
    BY <2>1, <2>3
  <2>7. Waits!Delay(attempt)' = Waits!Delay(attempt + 1)
    BY ONLY <2>1 DEF Waits!Delay
  <2>8. Waits!Delay(attempt - 1)' = Waits!Delay(attempt)
    BY ONLY <2>1, <2>6 DEF Waits!Delay
  <2>9. wait' = (IF attempt = 0 THEN Waits!Seconds(0) ELSE Waits!Delay(attempt))'
    BY ONLY <2>5, <2>6, <2>7
  <2>10. last' = (IF attempt <= 1 THEN Waits!Seconds(0) ELSE Waits!Delay(attempt - 1))'
    BY ONLY <2>5, <2>6, <2>8, WaitInv DEF WaitInv, Waits!Seconds
  <2> QED  BY ONLY <2>1, <2>2, <2>3, <2>4, <2>9, <2>10 DEF WaitInv
<1>2. CASE UNCHANGED Waits!vars
  BY <1>2 DEF WaitInv, Based, Made, Waits!vars, Waits!Delay, Waits!Seconds
<1> QED  BY <1>1, <1>2 DEF Waits!Next

LEMMA WaitsOfAll == Spec => Waits!Spec
<1>1. Init => Waits!Init
  BY DEF Init
<1>2. [Next]_vars => [Waits!Next]_(Waits!vars)
  BY DEF Next, vars, waitVars, Waits!vars, BackupsStep, PagesStep, TemplatesStep, SmtpStep,
         WaitsStep, JobsStep
<1> QED  BY <1>1, <1>2, PTL DEF Spec, Waits!Spec

\* Whatever the schedule and the base delay, a retry waits at least as long as the one before
\* it and at most as long as the schedule allows, for any number of retries, up to the one at
\* which the shifted delay overflows; that one is negative (calculateRetryDelay of executor.go
\* and of retry.go, CalculateNextRetry, and the loop of pkg/email).
THEOREM WaitsOnlyGrow == Spec => []WaitsGrow
<1>1. Waits!Init => WaitInv
  BY WaitInitially
<1>2. WaitInv /\ [Waits!Next]_(Waits!vars) => WaitInv'
  BY WaitKeeps
<1>3. WaitInv => WaitsGrow
  <2> SUFFICES ASSUME WaitInv PROVE WaitsGrow
    OBVIOUS
  <2>1. Waits!Seconds(0).m = 0 /\ Waits!Seconds(0).e = 0
    BY DEF Waits!Seconds
  <2>2. \A d : Waits!AtMost(Waits!Seconds(0), d)
    BY <2>1 DEF Waits!AtMost
  <2>3. ASSUME attempt # 0 PROVE Promised(attempt)
    <3>1. attempt \in Nat \ {0} /\ Based /\ Made(attempt)
      BY <2>3, WaitConstants DEF WaitInv
    <3> QED  BY <3>1, AllPromised
  <2>4. ASSUME attempt > 1 PROVE Promised(attempt - 1)
    <3>1. attempt - 1 \in Nat \ {0} /\ Based /\ Made(attempt - 1)
      BY <2>4, WaitConstants DEF WaitInv, Made
    <3> QED  BY <3>1, AllPromised
  <2>5. Waits!TypeOK
    <3>1. schedule \in Waits!Schedules /\ attempt \in 0..MaxAttempts
      BY DEF WaitInv, Based
    <3>2. delay.m \in Int /\ delay.e \in Nat
      BY SMT DEF WaitInv, Based
    <3>3. wait.m \in Int /\ wait.e \in Nat
      BY <2>1, <2>3 DEF WaitInv, Promised
    <3>4. last.m \in Int /\ last.e \in Nat
      <4>1. CASE attempt <= 1
        BY <2>1, <4>1 DEF WaitInv
      <4>2. CASE ~(attempt <= 1)
        <5>1. attempt > 1
          BY <3>1, <4>2, WaitConstants
        <5> QED  BY <2>4, <4>2, <5>1 DEF WaitInv, Promised
      <4> QED  BY <4>1, <4>2
    <3> QED  BY ONLY <3>1, <3>2, <3>3, <3>4, Zenon DEF Waits!TypeOK
  <2>6. Waits!WaitsGrow
    <3>0. /\ wait = IF attempt = 0 THEN Waits!Seconds(0) ELSE Waits!Delay(attempt)
          /\ last = IF attempt <= 1 THEN Waits!Seconds(0) ELSE Waits!Delay(attempt - 1)
          /\ attempt \in Nat /\ delay.e \in 9..39
      BY WaitConstants DEF WaitInv, Based
    <3>1. CASE attempt = 0
      BY ONLY <3>0, <3>1 DEF Waits!WaitsGrow
    <3>2. CASE attempt = 1
      <4>1. last = Waits!Seconds(0) /\ wait = Waits!Delay(attempt) /\ Promised(attempt)
        BY ONLY <2>3, <3>0, <3>2
      <4> QED  BY ONLY <2>2, <3>2, <4>1 DEF Promised, Waits!WaitsGrow, Waits!Fits
    <3>3. CASE attempt > 1
      <4>1. /\ last = Waits!Delay(attempt - 1) /\ wait = Waits!Delay(attempt)
            /\ Promised(attempt)
        BY ONLY <2>3, <3>0, <3>3
      <4> QED  BY ONLY <3>3, <4>1 DEF Promised, Waits!WaitsGrow, Waits!Fits
    <3> QED  BY <3>0, <3>1, <3>2, <3>3
  <2> QED  BY <2>5, <2>6 DEF WaitsGrow
<1> QED  BY WaitsOfAll, <1>1, <1>2, <1>3, PTL DEF Waits!Spec
=============================================================================
