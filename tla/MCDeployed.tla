------------------------------ MODULE MCDeployed ------------------------------
(***************************************************************************)
(* The goroutines of the process that cmd/api deploys, for TLC: the        *)
(* dispatcher and the clean-up on the workflow queue, the loop of the      *)
(* automated backups, and the process from its start to its end.  The      *)
(* modules share no variable, so that they are checked side by side:       *)
(* `part' says which of them moves, the others stay as they begin.         *)
(***************************************************************************)
EXTENDS MCWorkflowQueue

CONSTANTS
    dispatcher, cleaner,           \* the clients of the queue
    w1, w2,                        \* the workers of Process
    Callers, l1, l2, MaxStarts     \* of BackupLoop, with its goroutines

VARIABLES
    part,
    stage, cfg, mongo, redis, tickers, late,
    main, worker, stopCh, monitor, poolStopCh, stopper, engineWg, poolWg,
    isRunning, stopChan, closed, caller, loop

Workers == {w1, w2}

Api == INSTANCE Process
Backups == INSTANCE BackupLoop WITH Loops <- {l1, l2}

ASSUME Parameters ==
    /\ Dequeuers = {dispatcher} /\ Cleaners = {cleaner} /\ Markers \cup Admins = {}
    /\ Api!Engine!WorkersAssumption /\ Backups!BackupLoopAssumption

-----------------------------------------------------------------------------
apiVars ==
    <<stage, cfg, mongo, redis, tickers, late, main, worker, stopCh, monitor,
      poolStopCh, stopper, engineWg, poolWg>>
backupVars == <<isRunning, stopChan, closed, caller, loop>>
allVars == <<part, vars, apiVars, backupVars>>

AllInit ==
    /\ part \in {"queue", "process", "backups"}
    /\ Init /\ Api!Init /\ Backups!Init

QueueStep(A) == part = "queue" /\ A /\ UNCHANGED <<part, apiVars, backupVars>>
ApiStep(A) == part = "process" /\ A /\ UNCHANGED <<part, vars, backupVars>>
BackupStep(A) == part = "backups" /\ A /\ UNCHANGED <<part, vars, apiVars>>

AllNext ==
    QueueStep(Next) \/ ApiStep(Api!Next) \/ BackupStep(Backups!Next)

\* The fairness of each module, for the part that moves.  As only one ever does, a condition
\* on one part is joined with one on each of the others, which is the same and costs less.
AllSpec ==
    /\ AllInit /\ [][AllNext]_allVars
    /\ WF_allVars(\/ QueueStep(Dequeue(dispatcher)) \/ BackupStep(Backups!Turns(l1))
                  \/ ApiStep(Api!CloseCache \/ Api!StopEngine \/ Api!Return))
    /\ WF_allVars(\/ QueueStep(Cleanup(cleaner)) \/ BackupStep(Backups!Turns(l2))
                  \/ ApiStep(Api!EngineStep))
    /\ \A w \in Workers : WF_allVars(ApiStep(Api!FinishTask(w)))
    /\ SF_allVars(\/ QueueStep(MoveDue(dispatcher)) \/ BackupStep(Backups!Return(l1))
                  \/ ApiStep(Api!WorkerExit(w1)))
    /\ SF_allVars(\/ QueueStep(Pop(dispatcher)) \/ BackupStep(Backups!Return(l2))
                  \/ ApiStep(Api!WorkerExit(w2)))
    /\ SF_allVars(QueueStep(CleanupStale(cleaner)))
    /\ SF_allVars(QueueStep(/\ pc[dispatcher] = "idle" /\ ReadDue(dispatcher)
                            /\ delayed \subseteq hand'[dispatcher]))
    /\ SF_allVars(QueueStep(ReadStale(cleaner) /\ processing \subseteq hand'[cleaner]))

-----------------------------------------------------------------------------
(* The properties, as the modules state them, of the part that moves.      *)

\* With one dispatcher and one clean-up an item is in one place, and the counters are
\* exact but for the items lost when a dequeue breaks off.
QueueExact == part = "queue" => SingleCopy /\ StatsExact

\* The process makes no ticker that panics, and no task is cut off at its end: main does
\* not return while one runs, nor is Redis closed on it unless the cache is on.
NothingCutOff ==
    part = "process" =>
        /\ Api!TypeOK /\ Api!TickersArePositive
        /\ Api!TasksFindRedis /\ Api!Engine!NoTaskCutOff

\* A signal ends in main's return.
ShutdownEnds == Api!ShutdownEnds

\* The flag of the automated backups is never left set without a goroutine.
RunningMeansLoop == part = "backups" => Backups!TypeOK /\ Backups!RunningMeansLoop

\* A stop ends every goroutine of the backups, however many there are.
StopStopsEveryLoop == Backups!StopStopsEveryLoop
=============================================================================
