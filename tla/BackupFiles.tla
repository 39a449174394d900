----------------------------- MODULE BackupFiles ----------------------------
(***************************************************************************)
(* The backups on disk: services/backup_service.go under                   *)
(* handlers/backup_handler.go.                                             *)
(*                                                                         *)
(* A backup is a directory of the storage path; nothing else is recorded.  *)
(* CreateBackup makes it and then runs one tool after the other, each of   *)
(* which may fail; requests, the automated loop and the cleanups meet on   *)
(* the same directories.  Of the parts it is kept what the listing, the    *)
(* validation and the restoration look at.  The zip that compressBackup    *)
(* writes beside the directory, the simulated upload, sizes and the status *)
(* are left out; two backups of one type in one second, which share a      *)
(* directory, are not considered.                                          *)
(***************************************************************************)
EXTENDS Naturals, FiniteSets

CONSTANTS
    Full,         \* bound: ids of backups, by the type they are asked with
    Incremental,
    Partial,      \* of type mongodb, redis or config, written without subdirectories
    None

Ids == Full \cup Incremental \cup Partial

VARIABLES
    dir,          \* dir[b]: the directory of backup b, or None
    step,         \* step[b]: where CreateBackup of b is
    base,         \* history: base[b], the backup an incremental one is based on
    validated,    \* history: ended backups that ValidateBackup accepted
    refused       \* history: accepted backups whose restoration missed a part

history == <<base, validated, refused>>
vars == <<dir, step, history>>

\* "some": the tool failed halfway; the database directory is there.
Mongo == {"none", "empty", "some", "whole"}
Redis == {"none", "empty", "dump", "gz"}
Dir == [mongodb : Mongo, redis : Redis, config : BOOLEAN, old : BOOLEAN]

BackupFilesAssumption == None \notin Ids \cup Dir

Step == {"idle", "base", "new mongodb", "mongodb", "new redis", "redis", "new config",
         "config", "completed", "failed"}

New == [mongodb |-> "none", redis |-> "none", config |-> FALSE, old |-> FALSE]

Init ==
    /\ dir = [b \in Ids |-> None]
    /\ step = [b \in Ids |-> "idle"]
    /\ base = [b \in Ids |-> None]
    /\ validated = {}
    /\ refused = {}

Listed == {b \in Ids : dir[b] # None}
Running(b) == step[b] \notin {"idle", "completed", "failed"}

\* The directory, made again by MkdirAll when it was deleted under way.
Here(b) == IF dir[b] = None THEN New ELSE dir[b]

-----------------------------------------------------------------------------
(* CreateBackup.                                                           *)

Go(b, from, to) == step[b] = from /\ step' = [step EXCEPT ![b] = to]

\* The id is new, the directory is made, and then the type decides.
CreateBackup(b) ==
    /\ dir[b] = None
    /\ Go(b, "idle", IF b \in Incremental THEN "base" ELSE "mongodb")
    /\ dir' = [dir EXCEPT ![b] = New]
    /\ UNCHANGED history

\* The newest directory that is not of a partial type.  What is listed counts as
\* completed, and the one made last, which is touched when it is made, is newest; of
\* the others any may be.
findLastBackup(b) ==
    IF b \in Listed THEN {b} ELSE {x \in Listed : x \notin Partial}

\* Without a base everything is saved as for a full backup.
createIncrementalBackup(b) ==
    /\ step[b] = "base"
    /\ \/ /\ \E x \in findLastBackup(b) : base' = [base EXCEPT ![b] = x]
          /\ step' = [step EXCEPT ![b] = "new mongodb"]
       \/ /\ findLastBackup(b) = {} /\ UNCHANGED base
          /\ step' = [step EXCEPT ![b] = "mongodb"]
    /\ UNCHANGED <<dir, validated, refused>>

\* What a tool leaves in its part of the directory, which it never empties.
Left(b, part, made) ==
    dir' = IF made = "none" THEN dir ELSE [dir EXCEPT ![b] = [Here(b) EXCEPT ![part] = made]]

\* mongodump with a query, then without; when both fail a full one is tried.
createIncrementalMongoDBBackup(b) ==
    \E made \in Mongo :
        /\ Go(b, "new mongodb", IF made = "whole" THEN "new redis" ELSE "mongodb")
        /\ Left(b, "mongodb", made)
        /\ UNCHANGED history

\* mongodump; its failure ends the backup.
createMongoDBBackup(b) ==
    \E made \in Mongo :
        /\ Go(b, "mongodb", IF made # "whole" THEN "failed"
                            ELSE IF base[b] # None THEN "new redis" ELSE "redis")
        /\ Left(b, "mongodb", IF made = "empty" /\ Here(b).mongodb = "some" THEN "none" ELSE made)
        /\ UNCHANGED history

\* redis-cli --rdb; a large dump is compressed and the dump removed.
createIncrementalRedisBackup(b) ==
    \E made \in Redis :
        /\ Go(b, "new redis", IF made \in {"dump", "gz"} THEN "new config" ELSE "redis")
        /\ Left(b, "redis", made)
        /\ UNCHANGED history

\* redis-cli --rdb; its failure ends the backup.
createRedisBackup(b) ==
    \E made \in {"none", "empty", "dump"} :
        /\ Go(b, "redis", IF made # "dump" THEN "failed"
                          ELSE IF base[b] # None THEN "new config" ELSE "config")
        /\ Left(b, "redis", made)
        /\ UNCHANGED history

\* Of the configuration and of the logs only the files written since the base; neither
\* fails the backup.
createIncrementalConfigBackup(b) ==
    /\ Go(b, "new config", "completed")
    /\ \/ dir' = [dir EXCEPT ![b] = [Here(b) EXCEPT !.config = TRUE]]
       \/ UNCHANGED dir
    /\ UNCHANGED history

\* A full backup fails when the directory cannot be made; the logs fail none.
createConfigBackup(b) ==
    /\ \/ /\ Go(b, "config", "completed")
          /\ dir' = [dir EXCEPT ![b] = [Here(b) EXCEPT !.config = TRUE]]
       \/ Go(b, "config", "failed") /\ UNCHANGED dir
    /\ UNCHANGED history

\* A backup of one part is a single tool; it makes no subdirectory.
createPartialBackup(b) ==
    /\ b \in Partial
    /\ Go(b, "mongodb", "completed") \/ Go(b, "mongodb", "failed")
    /\ UNCHANGED <<dir, history>>

-----------------------------------------------------------------------------
(* The operations on the directories.                                      *)

\* Time passes: the directory was last written before the retention began.  No
\* backup runs for as long as that, a day at least.
Age(b) ==
    /\ dir[b] # None /\ ~Running(b) /\ ~dir[b].old
    /\ dir' = [dir EXCEPT ![b].old = TRUE]
    /\ UNCHANGED <<step, history>>

DeleteBackup(b) ==
    /\ dir[b] # None
    /\ dir' = [dir EXCEPT ![b] = None]
    /\ validated' = validated \ {b}
    /\ UNCHANGED <<step, base, refused>>

\* One deletion of a cleanup, of the loop, of main's ticker or of a request.
CleanupOldBackups(b) == dir[b] # None /\ dir[b].old /\ DeleteBackup(b)

\* Mutant: the dump is not looked for, only its directory.
ValidateBackup_NoDump(b) ==
    /\ dir[b] # None /\ b \notin Partial
    /\ dir[b].mongodb \in {"some", "whole"} /\ dir[b].redis # "none" /\ dir[b].config
    /\ validated' = IF Running(b) THEN validated ELSE validated \cup {b}
    /\ UNCHANGED <<dir, step, base, refused>>

\* Three subdirectories, the database and the dump.
ValidateBackup(b) ==
    /\ dir[b] # None /\ b \notin Partial
    /\ dir[b].mongodb \in {"some", "whole"} /\ dir[b].redis = "dump" /\ dir[b].config
    /\ validated' = IF Running(b) THEN validated ELSE validated \cup {b}
    /\ UNCHANGED <<dir, step, base, refused>>

\* restoreFullBackup, of an incremental backup as well: by its id it counts as full.
\* A missing part is an error; mongorestore may fail besides.
restoreFullBackup(b) == dir[b].mongodb # "none" /\ dir[b].redis = "dump"

RestoreBackup(b) ==
    /\ dir[b] # None /\ b \notin Partial
    /\ refused' = IF b \in validated /\ ~restoreFullBackup(b)
                  THEN refused \cup {b} ELSE refused
    /\ UNCHANGED <<dir, step, base, validated>>

Next ==
    \E b \in Ids :
        \/ CreateBackup(b) \/ createIncrementalBackup(b)
        \/ b \notin Partial /\ createMongoDBBackup(b)
        \/ createIncrementalMongoDBBackup(b) \/ createIncrementalRedisBackup(b)
        \/ createIncrementalConfigBackup(b)
        \/ createRedisBackup(b) \/ createConfigBackup(b) \/ createPartialBackup(b)
        \/ Age(b) \/ DeleteBackup(b) \/ CleanupOldBackups(b)
        \/ ValidateBackup(b) \/ RestoreBackup(b)

Spec == Init /\ [][Next]_vars

-----------------------------------------------------------------------------
(* The properties.                                                         *)

TypeOK ==
    /\ dir \in [Ids -> Dir \cup {None}] /\ step \in [Ids -> Step]
    /\ base \in [Ids -> Ids \cup {None}]
    /\ validated \subseteq Ids /\ refused \subseteq Ids

\* A backup that had ended when the validation accepted it is never refused for a
\* missing part when it is restored, as long as nobody deletes it: the validation
\* looks for all that the restoration needs, in a directory that may be of a failed or
\* of an incremental backup.
ValidatedIsRestorable == refused = {}
=============================================================================
