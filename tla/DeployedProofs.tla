---------------------------- MODULE DeployedProofs ----------------------------
(***************************************************************************)
(* Theorems about the process that cmd/api deploys: the loop of the        *)
(* automated backups, the process from its start to its end, and the queue *)
(* with one dispatcher and one clean-up.                                   *)
(***************************************************************************)
EXTENDS MCDeployed, WorkflowQueueProofs

-----------------------------------------------------------------------------
(* The automated backups: for any number of callers and starts.            *)

Goroutine ==
    {Backups!None} \cup [at : {"busy"}, on : Backups!Chan] \cup Backups!Wait

\* The functions are total, a goroutine that exists is busy or waits, and the flag stands
\* for a goroutine or for a start that has set it and not gone further.
FlagInv ==
    /\ isRunning \in BOOLEAN /\ stopChan \in Backups!Chan /\ closed \subseteq Backups!Chan
    /\ caller \in [Callers -> {"idle", "start", "starting", "stop", "stopping"}]
    /\ loop \in [{l1, l2} -> Goroutine]
    /\ Backups!RunningMeansLoop

LEMMA GoroutineStates ==
  /\ Backups!None \in Goroutine /\ Backups!Busy \in Goroutine /\ Backups!Busy # Backups!None
  /\ \A n \in Backups!Chan :
        /\ [at |-> "wait", on |-> n] \in Goroutine /\ [at |-> "wait", on |-> n] # Backups!None
        /\ [at |-> "busy", on |-> n] \in Goroutine /\ [at |-> "busy", on |-> n] # Backups!None
<1>1. 0 \in Backups!Chan
  BY Parameters DEF Backups!Chan, Backups!BackupLoopAssumption
<1> QED  BY <1>1 DEF Goroutine, Backups!None, Backups!Busy, Backups!Wait

\* A call that moves leaves the others where they are.
LEMMA TurnEffect ==
  ASSUME FlagInv, NEW c \in Callers, NEW from,
         NEW to \in {"idle", "start", "starting", "stop", "stopping"}, Backups!Turn(c, from, to)
  PROVE  /\ caller[c] = from /\ caller'[c] = to
         /\ caller' \in [Callers -> {"idle", "start", "starting", "stop", "stopping"}]
         /\ \A d \in Callers \ {c} : caller'[d] = caller[d]
BY DEF FlagInv, Backups!Turn

\* Only StartAutomatedBackups leaves "starting", and it has made a goroutine by then.
LEMMA CallKeeps ==
  ASSUME FlagInv, NEW c \in Callers, Backups!Call(c)
  PROVE  FlagInv'
<1>1. CASE Backups!Start(c)
  BY <1>1, TurnEffect DEF Backups!Start, FlagInv, Backups!RunningMeansLoop
<1>2. CASE Backups!SetRunning(c)
  BY <1>2, TurnEffect DEF Backups!SetRunning, FlagInv, Backups!RunningMeansLoop
<1>3. CASE Backups!StartAutomatedBackups(c)
  <2>1. PICK l \in {l1, l2} : loop' = [loop EXCEPT ![l] = Backups!Busy]
    BY <1>3 DEF Backups!StartAutomatedBackups
  <2>2. loop'[l] # Backups!None /\ loop' \in [{l1, l2} -> Goroutine]
    BY <2>1, GoroutineStates DEF FlagInv
  <2>3. caller' \in [Callers -> {"idle", "start", "starting", "stop", "stopping"}]
    BY <1>3, TurnEffect DEF Backups!StartAutomatedBackups
  <2>4. stopChan' \in Backups!Chan /\ UNCHANGED <<isRunning, closed>>
    BY <1>3, Parameters
       DEF Backups!StartAutomatedBackups, FlagInv, Backups!Chan, Backups!BackupLoopAssumption
  <2> QED  BY <2>2, <2>3, <2>4 DEF FlagInv, Backups!RunningMeansLoop
<1>4. CASE Backups!Stop(c) \/ Backups!StopAutomatedBackups(c)
  BY <1>4, TurnEffect
     DEF Backups!Stop, Backups!StopAutomatedBackups, FlagInv, Backups!RunningMeansLoop
<1>5. CASE Backups!CloseChannel(c)
  BY <1>5, TurnEffect DEF Backups!CloseChannel, FlagInv, Backups!RunningMeansLoop
<1> QED  BY <1>1, <1>2, <1>3, <1>4, <1>5 DEF Backups!Call

\* A goroutine that returns takes the flag with it, whoever else runs.
LEMMA LoopKeeps ==
  ASSUME FlagInv, NEW l \in {l1, l2}, Backups!Turns(l) \/ Backups!Return(l)
  PROVE  FlagInv'
<1>1. ASSUME NEW new \in Goroutine, new # Backups!None, loop' = [loop EXCEPT ![l] = new],
             UNCHANGED <<isRunning, stopChan, closed, caller>>
      PROVE  FlagInv'
  <2>1. loop' \in [{l1, l2} -> Goroutine] /\ loop'[l] # Backups!None
    BY <1>1 DEF FlagInv
  <2> QED  BY <1>1, <2>1 DEF FlagInv, Backups!RunningMeansLoop
<1>2. CASE Backups!Select(l)
  BY <1>1, <1>2, GoroutineStates DEF Backups!Select, FlagInv
<1>3. CASE Backups!Tick(l)
  <2>1. loop[l].at = "wait" /\ loop[l] \in Goroutine
    BY <1>3 DEF Backups!Tick, FlagInv
  <2>2. PICK n \in Backups!Chan : loop[l] = [at |-> "wait", on |-> n]
    BY <2>1 DEF Goroutine, Backups!None, Backups!Wait
  <2>3. [loop[l] EXCEPT !.at = "busy"] = [at |-> "busy", on |-> n]
    BY <2>2
  <2> QED  BY <1>1, <1>3, <2>3, GoroutineStates DEF Backups!Tick
<1>4. CASE Backups!Return(l)
  <2>1. loop' \in [{l1, l2} -> Goroutine]
    BY <1>4, GoroutineStates DEF Backups!Return, FlagInv
  <2> QED  BY <1>4, <2>1 DEF Backups!Return, FlagInv, Backups!RunningMeansLoop
<1> QED  BY <1>2, <1>3, <1>4 DEF Backups!Turns

LEMMA FlagInvInit == Backups!Init => FlagInv
<1> SUFFICES ASSUME Backups!Init PROVE FlagInv
  OBVIOUS
<1>1. stopChan \in Backups!Chan
  BY Parameters DEF Backups!Init, Backups!Chan, Backups!BackupLoopAssumption
<1>2. loop \in [{l1, l2} -> Goroutine]
  BY GoroutineStates DEF Backups!Init
<1>3. caller \in [Callers -> {"idle", "start", "starting", "stop", "stopping"}]
  BY DEF Backups!Init
<1> QED  BY <1>1, <1>2, <1>3 DEF Backups!Init, FlagInv, Backups!RunningMeansLoop

LEMMA FlagInvNext == FlagInv /\ [Backups!Next]_(Backups!vars) => FlagInv'
<1> SUFFICES ASSUME FlagInv, [Backups!Next]_(Backups!vars) PROVE FlagInv'
  OBVIOUS
<1>1. CASE UNCHANGED Backups!vars
  BY <1>1 DEF Backups!vars, FlagInv, Backups!RunningMeansLoop
<1>2. CASE Backups!Next
  BY <1>2, CallKeeps, LoopKeeps DEF Backups!Next
<1> QED  BY <1>1, <1>2

LEMMA FlagInvMeans == FlagInv => Backups!TypeOK /\ Backups!RunningMeansLoop
BY DEF FlagInv, Backups!TypeOK, Goroutine

-----------------------------------------------------------------------------
(* The process.                                                            *)

\* The settings of which main makes tickers: the interval of the backups is bounded when
\* the configuration is loaded, that of the cache is only known to be a number.
ReadSettings(c) == c.cleanup \in Int /\ (c.backup => c.interval \in Nat \ {0})

\* What the start has checked and opened by each stage, and what the end has closed.
StageInv ==
    /\ stage \in {"load", "mongo", "redis", "cache", "engine", "backups", "notify", "serving",
                  "closing", "stopping", "engine stopping", "exited", "refused"}
    /\ mongo \in BOOLEAN /\ redis \in BOOLEAN /\ late \in BOOLEAN
    /\ tickers \subseteq Nat \ {0}
    /\ stage \notin {"load", "refused"} => ReadSettings(cfg)
    /\ stage \in {"engine", "backups", "notify", "serving"} /\ cfg.cache => cfg.cleanup > 0
    /\ stage \in {"cache", "engine", "backups", "notify", "serving", "closing"} => redis
    /\ stage \in {"stopping", "engine stopping"} => redis \/ cfg.cache
    /\ stage = "load" => ~late
    /\ late => cfg.cache

Exited == {w \in Workers : worker[w] = "exited"}

\* The engine's wait group counts down from two, the goroutines that never sign off, once
\* for each worker that returns: it is zero, and main returns, when both have.
GroupInv ==
    /\ worker \in [Workers -> {"select", "busy", "exited"}]
    /\ engineWg = 2 - Cardinality(Exited)
    /\ main = "exited" => Exited = Workers

\* A setting that is not set has its default, and one that is set is one of its readings.
LEMMA CleanupReadings ==
  \A n \in Api!NumberSettings : n["CACHE_CLEANUP_INTERVAL"] \in Int
<1> DEFINE key == "CACHE_CLEANUP_INTERVAL"
           none == [s \in DOMAIN Api!Numbers |-> Api!Unset]
<1>1. /\ key \in DOMAIN Api!Numbers
      /\ \A v \in Api!Numbers[key] : v \in Int
  BY DEF Api!Numbers, Api!Garbled
<1>2. none[key] \in Int
  BY <1>1 DEF Api!Unset
<1>3. ASSUME NEW s \in DOMAIN Api!Numbers, NEW v \in Api!Numbers[s]
      PROVE  [none EXCEPT ![s] = v][key] \in Int
  <2>1. CASE s = key
    BY <1>1, <1>3, <2>1
  <2>2. CASE s # key
    BY <1>1, <1>2, <1>3, <2>2
  <2> QED  BY <2>1, <2>2
<1> HIDE DEF key
<1>4. /\ none \in Api!NumberSettings
      /\ \A n \in Api!NumberSettings :
            \/ n = none
            \/ \E s \in DOMAIN Api!Numbers : \E v \in Api!Numbers[s] : n = [none EXCEPT ![s] = v]
  BY Zenon DEF Api!NumberSettings
<1> HIDE DEF none
<1>5. \A n \in Api!NumberSettings : n[key] \in Int
  BY <1>2, <1>3, <1>4
<1> QED  BY <1>5 DEF key

\* What Load lets through.
LEMMA LoadedSettings ==
  ASSUME NEW t, NEW n \in Api!NumberSettings, Api!Validate(t, n)
  PROVE  ReadSettings(Api!Loaded(t, n))
<1>1. Api!Loaded(t, n).cleanup \in Int
  BY CleanupReadings DEF Api!Loaded, Api!number
<1>2. ASSUME Api!Loaded(t, n).backup PROVE Api!Loaded(t, n).interval \in Nat \ {0}
  <2>1. /\ Api!Loaded(t, n).backup = Api!getEnvAsBool(t, "BACKUP_ENABLED", FALSE)
        /\ Api!Loaded(t, n).interval = Api!number(n, "BACKUP_INTERVAL", 1440)
    BY Zenon DEF Api!Loaded
  <2>2. Api!ValidateBackup(t, n)
    BY Zenon DEF Api!Validate
  <2>3. Api!Loaded(t, n).interval \in Api!BackupIntervals
    <3>1. Api!getEnvAsBool(t, "BACKUP_ENABLED", FALSE)
      BY <1>2, <2>1, Zenon
    <3>2. Api!number(n, "BACKUP_INTERVAL", 1440) \in Api!BackupIntervals
      BY <2>2, <3>1, Zenon DEF Api!ValidateBackup
    <3>3. Api!Loaded(t, n).interval = Api!number(n, "BACKUP_INTERVAL", 1440)
      BY <2>1, Zenon
    <3> QED  BY <3>2, <3>3
  <2>4. \A k \in Api!BackupIntervals : k \in Nat \ {0}
    BY DEF Api!BackupIntervals
  <2> QED  BY <2>3, <2>4, Zenon
<1> QED  BY <1>1, <1>2, Zenon DEF ReadSettings

LEMMA MoreTickers ==
  ASSUME NEW S \in SUBSET (Nat \ {0}), NEW k \in Int, NEW T, T = S \/ (k > 0 /\ T = S \cup {k})
  PROVE  T \subseteq Nat \ {0}
<1>1. k > 0 => k \in Nat \ {0}
  OBVIOUS
<1> QED  BY <1>1, Zenon

LEMMA StartKeepsStage ==
  ASSUME StageInv, Api!Start \/ Api!Kill
  PROVE  StageInv'
<1>1. CASE Api!Load
  <2>1. PICK t \in Api!TextSettings, n \in Api!NumberSettings :
           \/ Api!Validate(t, n) /\ stage' = "mongo" /\ cfg' = Api!Loaded(t, n)
           \/ ~Api!Validate(t, n) /\ stage' = "refused" /\ UNCHANGED cfg
    BY <1>1 DEF Api!Load
  <2>2. stage' = "mongo" => ReadSettings(cfg')
    BY <2>1, LoadedSettings
  <2> QED  BY <1>1, <2>1, <2>2 DEF Api!Load, Api!stores, StageInv, ReadSettings
<1>2. CASE Api!NewMongoConnection
  BY <1>2 DEF Api!NewMongoConnection, Api!Go, StageInv, ReadSettings
<1>3. CASE Api!NewRedisConnection
  BY <1>3 DEF Api!NewRedisConnection, Api!Go, StageInv, ReadSettings
<1>4. CASE Api!NewCache
  <2>1. tickers' \subseteq Nat \ {0}
    <3>1. tickers \subseteq Nat \ {0} /\ cfg.cleanup \in Int
      BY <1>4 DEF Api!NewCache, Api!Go, StageInv, ReadSettings
    <3>2. tickers' = tickers \/ (cfg.cleanup > 0 /\ tickers' = tickers \cup {cfg.cleanup})
      BY <1>4 DEF Api!NewCache
    <3> QED  BY <3>1, <3>2, MoreTickers
  <2>2. stage' = "engine" /\ cfg.cache => cfg.cleanup > 0
    BY <1>4 DEF Api!NewCache, Api!Go, Api!ValidateCacheConfig
  <2>3. stage = "cache" /\ stage' \in {"engine", "refused"} /\ UNCHANGED <<cfg, mongo, redis, late>>
    BY <1>4 DEF Api!NewCache, Api!Go, Api!stores
  <2> QED  BY <2>1, <2>2, <2>3 DEF StageInv, ReadSettings
<1>5. CASE Api!StartEngine
  BY <1>5 DEF Api!StartEngine, Api!Go, Api!stores, StageInv, ReadSettings
<1>6. CASE Api!StartAutomatedBackups
  BY <1>6 DEF Api!StartAutomatedBackups, Api!Go, Api!stores, StageInv, ReadSettings
<1>7. CASE Api!startBackgroundServices
  <2>1. /\ stage = "notify" /\ stage' = "serving" /\ UNCHANGED <<cfg, mongo, redis, late>>
        /\ tickers' = tickers \cup IF cfg.cache THEN {cfg.cleanup} ELSE {}
    BY <1>7 DEF Api!startBackgroundServices, Api!Go, Api!stores
  <2>2. /\ tickers \subseteq Nat \ {0} /\ cfg.cleanup \in Int
        /\ cfg.cache => cfg.cleanup > 0
    BY <2>1 DEF StageInv, ReadSettings
  <2>3. tickers' = tickers \/ (cfg.cleanup > 0 /\ tickers' = tickers \cup {cfg.cleanup})
    BY <2>1, <2>2
  <2>4. tickers' \subseteq Nat \ {0}
    BY <2>2, <2>3, MoreTickers
  <2> QED  BY <2>1, <2>4 DEF StageInv, ReadSettings
<1>8. CASE Api!Kill
  BY <1>8 DEF Api!Kill, Api!stores, StageInv
<1> QED  BY <1>1, <1>2, <1>3, <1>4, <1>5, <1>6, <1>7, <1>8 DEF Api!Start

\* The end closes Redis early only with the cache, and a task that ends while the engine
\* still runs finds it closed only then.
LEMMA EndKeepsStage ==
  ASSUME StageInv,
         \/ Api!End \/ Api!EngineStep
         \/ \E w \in Workers : Api!TakeTask(w) \/ Api!FinishTask(w)
  PROVE  StageInv'
<1>1. CASE Api!Interrupt
  BY <1>1 DEF Api!Interrupt, Api!Go, Api!stores, StageInv, ReadSettings
<1>2. CASE Api!CloseCache
  BY <1>2 DEF Api!CloseCache, Api!Go, StageInv, ReadSettings
<1>3. CASE Api!StopEngine
  BY <1>3 DEF Api!StopEngine, Api!Go, Api!stores, StageInv, ReadSettings
<1>4. CASE Api!Return
  BY <1>4 DEF Api!Return, Api!Go, StageInv, ReadSettings
<1>5. CASE Api!EngineStep
  BY <1>5 DEF Api!EngineStep, Api!rest, Api!stores, StageInv, ReadSettings
<1>6. ASSUME NEW w \in Workers, Api!TakeTask(w) PROVE StageInv'
  BY <1>6 DEF Api!TakeTask, Api!rest, Api!stores, StageInv, ReadSettings
<1>7. ASSUME NEW w \in Workers, Api!FinishTask(w) PROVE StageInv'
  BY <1>7 DEF Api!FinishTask, Api!Running, Api!rest, Api!stores, StageInv, ReadSettings
<1> QED  BY <1>1, <1>2, <1>3, <1>4, <1>5, <1>6, <1>7 DEF Api!End

-----------------------------------------------------------------------------
(* The wait group.                                                         *)

LEMMA TwoWorkers ==
  /\ IsFiniteSet(Workers) /\ Cardinality(Workers) <= 2
  /\ \A S \in SUBSET Workers : IsFiniteSet(S) /\ Cardinality(S) \in Nat
  /\ \A S \in SUBSET Workers : Cardinality(S) = 2 => S = Workers
<1>1. IsFiniteSet(Workers) /\ Cardinality(Workers) <= 2
  <2>1. Workers = {w1} \cup {w2}
    BY DEF Workers
  <2>2. IsFiniteSet({w1}) /\ Cardinality({w1}) = 1
    BY FS_Singleton
  <2> QED  BY <2>1, <2>2, FS_AddElement
<1>2. \A S \in SUBSET Workers : IsFiniteSet(S) /\ Cardinality(S) \in Nat
  BY <1>1, FS_Subset, FS_CardinalityType
<1>3. \A S \in SUBSET Workers : Cardinality(S) <= Cardinality(Workers)
  BY <1>1, FS_Subset
<1>4. Cardinality(Workers) \in Nat
  BY <1>1, FS_CardinalityType
<1>5. ASSUME NEW S \in SUBSET Workers, Cardinality(S) = 2 PROVE S = Workers
  <2>1. Cardinality(Workers) = Cardinality(S)
    BY <1>1, <1>3, <1>4, <1>5
  <2> QED  BY <1>1, <2>1, FS_Subset
<1> QED  BY <1>1, <1>2, <1>5

\* Steps that let no worker return and no main.
LEMMA GroupStays ==
  ASSUME GroupInv, worker' \in [Workers -> {"select", "busy", "exited"}],
         \A w \in Workers : worker'[w] = "exited" <=> worker[w] = "exited",
         engineWg' = engineWg, main' = "exited" => main = "exited"
  PROVE  GroupInv'
<1>1. Exited' = Exited
  BY DEF Exited
<1> QED  BY <1>1 DEF GroupInv

LEMMA WorkerKeepsGroup ==
  ASSUME GroupInv, NEW w \in Workers,
         Api!Engine!TakeTask(w) \/ Api!Engine!FinishTask(w) \/ Api!Engine!WorkerExit(w)
  PROVE  GroupInv'
<1>1. CASE Api!Engine!TakeTask(w)
  BY <1>1, GroupStays DEF Api!Engine!TakeTask, GroupInv
<1>2. CASE Api!Engine!FinishTask(w)
  BY <1>2, GroupStays DEF Api!Engine!FinishTask, GroupInv
<1>3. CASE Api!Engine!WorkerExit(w)
  <2>1. worker[w] = "select" /\ main # "exited" /\ main' = main /\ engineWg' = engineWg - 1
    BY <1>3 DEF Api!Engine!WorkerExit, Api!Engine!Up
  <2>2. worker' \in [Workers -> {"select", "busy", "exited"}]
    BY <1>3 DEF Api!Engine!WorkerExit, GroupInv
  <2>3. Exited' = Exited \cup {w} /\ w \notin Exited
    BY <1>3, <2>1 DEF Api!Engine!WorkerExit, Exited, GroupInv
  <2>4. IsFiniteSet(Exited) /\ Cardinality(Exited) \in Nat
    BY TwoWorkers DEF Exited
  <2>5. Cardinality(Exited') = Cardinality(Exited) + 1
    BY <2>3, <2>4, FS_AddElement
  <2> QED  BY <2>1, <2>2, <2>4, <2>5 DEF GroupInv
<1> QED  BY <1>1, <1>2, <1>3

LEMMA EngineKeepsGroup ==
  ASSUME GroupInv,
         \/ \E w \in Workers : \/ Api!Engine!TakeTask(w) \/ Api!Engine!FinishTask(w)
                               \/ Api!Engine!WorkerExit(w)
         \/ \E m \in Api!Engine!Monitors : Api!Engine!MonitorExit(m)
         \/ Api!Engine!Signal \/ Api!Engine!StopWorkers \/ Api!Engine!PoolStopped
         \/ Api!Engine!EngineStopped
  PROVE  GroupInv'
<1>1. ASSUME NEW m \in Api!Engine!Monitors, Api!Engine!MonitorExit(m) PROVE GroupInv'
  BY <1>1, GroupStays DEF Api!Engine!MonitorExit, GroupInv
<1>2. CASE Api!Engine!Signal \/ Api!Engine!StopWorkers \/ Api!Engine!PoolStopped
  BY <1>2, GroupStays
     DEF Api!Engine!Signal, Api!Engine!StopWorkers, Api!Engine!PoolStopped, GroupInv
<1>3. CASE Api!Engine!EngineStopped
  <2>1. engineWg = 0 /\ UNCHANGED <<worker, engineWg>>
    BY <1>3 DEF Api!Engine!EngineStopped
  <2>2. Exited' = Exited /\ Exited \in SUBSET Workers
    BY <2>1 DEF Exited
  <2>3. Exited = Workers
    BY <2>1, <2>2, TwoWorkers DEF GroupInv
  <2> QED  BY <2>1, <2>2, <2>3 DEF GroupInv
<1> QED  BY <1>1, <1>2, <1>3, WorkerKeepsGroup

-----------------------------------------------------------------------------
ProcessInv == StageInv /\ GroupInv

LEMMA ProcessInvInit == Api!Init => ProcessInv
<1> SUFFICES ASSUME Api!Init PROVE ProcessInv
  OBVIOUS
<1>1. StageInv
  BY DEF Api!Init, StageInv
<1>2. Exited = {} /\ worker \in [Workers -> {"select", "busy", "exited"}]
  BY DEF Api!Init, Api!Engine!Init, Exited
<1>3. GroupInv
  BY <1>2, FS_EmptySet DEF Api!Init, Api!Engine!Init, Api!Engine!Added, GroupInv
<1> QED  BY <1>1, <1>3 DEF ProcessInv

LEMMA ProcessInvNext == ProcessInv /\ [Api!Next]_(Api!vars) => ProcessInv'
<1> SUFFICES ASSUME ProcessInv, [Api!Next]_(Api!vars) PROVE ProcessInv'
  OBVIOUS
<1>1. CASE UNCHANGED Api!vars
  <2>1. StageInv'
    BY <1>1 DEF Api!vars, Api!stores, StageInv, ReadSettings, ProcessInv
  <2>2. GroupInv'
    BY <1>1, GroupStays DEF Api!vars, Api!lifecycle, GroupInv, ProcessInv
  <2> QED  BY <2>1, <2>2 DEF ProcessInv
<1>2. CASE Api!Start \/ Api!Kill
  <2>1. UNCHANGED Api!lifecycle
    BY <1>2 DEF Api!Start, Api!Kill, Api!Load, Api!NewMongoConnection, Api!NewRedisConnection,
                Api!NewCache, Api!StartEngine, Api!StartAutomatedBackups,
                Api!startBackgroundServices
  <2>2. GroupInv'
    BY <2>1, GroupStays DEF Api!lifecycle, GroupInv, ProcessInv
  <2> QED  BY <1>2, <2>2, StartKeepsStage DEF ProcessInv
<1>3. CASE Api!Interrupt \/ Api!CloseCache
  <2>1. UNCHANGED Api!lifecycle
    BY <1>3 DEF Api!Interrupt, Api!CloseCache
  <2>2. GroupInv'
    BY <2>1, GroupStays DEF Api!lifecycle, GroupInv, ProcessInv
  <2> QED  BY <1>3, <2>2, EndKeepsStage DEF ProcessInv, Api!End
<1>4. CASE Api!StopEngine \/ Api!Return
  BY <1>4, EngineKeepsGroup, EndKeepsStage DEF Api!StopEngine, Api!Return, Api!End, ProcessInv
<1>5. CASE Api!EngineStep
  BY <1>5, EngineKeepsGroup, EndKeepsStage DEF Api!EngineStep, ProcessInv
<1>6. ASSUME NEW w \in Workers, Api!TakeTask(w) \/ Api!FinishTask(w) PROVE ProcessInv'
  BY <1>6, EngineKeepsGroup, EndKeepsStage DEF Api!TakeTask, Api!FinishTask, ProcessInv
<1> QED  BY <1>1, <1>2, <1>3, <1>4, <1>5, <1>6 DEF Api!Next, Api!End

LEMMA ProcessInvMeans ==
  ProcessInv => /\ Api!TypeOK /\ Api!TickersArePositive
                /\ Api!TasksFindRedis /\ Api!Engine!NoTaskCutOff
<1> SUFFICES ASSUME ProcessInv
             PROVE  /\ Api!TypeOK /\ Api!TickersArePositive
                    /\ Api!TasksFindRedis /\ Api!Engine!NoTaskCutOff
  OBVIOUS
<1>0. StageInv /\ tickers \subseteq Nat \ {0}
  BY DEF ProcessInv, StageInv
<1>1. Api!TypeOK
  BY <1>0 DEF StageInv, Api!TypeOK
<1>2. Api!TickersArePositive
  BY <1>0 DEF Api!TickersArePositive
<1>3. Api!TasksFindRedis
  BY <1>0 DEF StageInv, Api!TasksFindRedis
<1>4. Api!Engine!NoTaskCutOff
  BY DEF ProcessInv, GroupInv, Exited, Api!Engine!NoTaskCutOff
<1> QED  BY <1>1, <1>2, <1>3, <1>4

-----------------------------------------------------------------------------
(* The three of them side by side.                                         *)

LEMMA PartsInit == AllInit => Init /\ Api!Init /\ Backups!Init
BY DEF AllInit

LEMMA QueueMoves == [AllNext]_allVars => [Next]_vars
BY DEF AllNext, allVars, QueueStep, ApiStep, BackupStep

LEMMA ApiMoves == [AllNext]_allVars => [Api!Next]_(Api!vars)
<1>1. ASSUME UNCHANGED apiVars PROVE UNCHANGED Api!vars
  BY <1>1 DEF apiVars, Api!vars, Api!stores, Api!lifecycle
<1> QED  BY <1>1 DEF AllNext, allVars, QueueStep, ApiStep, BackupStep

LEMMA BackupsMove == [AllNext]_allVars => [Backups!Next]_(Backups!vars)
<1>1. ASSUME UNCHANGED backupVars PROVE UNCHANGED Backups!vars
  BY <1>1 DEF backupVars, Backups!vars
<1> QED  BY <1>1 DEF AllNext, allVars, QueueStep, ApiStep, BackupStep

LEMMA AllSteps == AllSpec => AllInit /\ [][AllNext]_allVars
BY PTL DEF AllSpec

\* With one dispatcher and one clean-up, and for any items, priorities and retry limit, an item
\* is in one place, and each counter of Redis is the size of its set, but that what a dequeue
\* which broke off has lost counts as queued for ever.
THEOREM CountersAreExact == AllSpec => []QueueExact
<1>1. OneEach(dispatcher, cleaner)
  BY Parameters DEF OneEach
<1>2. AllSpec => Spec
  BY AllSteps, PartsInit, QueueMoves, PTL DEF Spec
<1>3. Spec => []SingleCopy
  BY <1>1, OnePlace
<1>4. Spec => []StatsExact
  BY <1>1, CountersExact
<1>5. SingleCopy /\ StatsExact => QueueExact
  BY DEF QueueExact
<1> QED  BY <1>2, <1>3, <1>4, <1>5, PTL

\* Whatever the environment sets and whenever the signal comes: no ticker is made with an
\* interval that is not positive, a task that runs at the signal finds Redis open until it
\* ends unless the cache has closed it, and main does not return while a task runs.
THEOREM NothingIsCutOff == AllSpec => []NothingCutOff
<1>1. AllInit => ProcessInv
  BY PartsInit, ProcessInvInit
<1>2. ProcessInv /\ [AllNext]_allVars => ProcessInv'
  BY ApiMoves, ProcessInvNext
<1>3. ProcessInv => NothingCutOff
  BY ProcessInvMeans DEF NothingCutOff
<1> QED  BY AllSteps, <1>1, <1>2, <1>3, PTL

\* However starts, stops and returns overlap, for any number of callers and starts: the flag
\* is not left set when nothing runs and nothing is being started, so that backups which have
\* ended can be started again.
THEOREM FlagIsTrue == AllSpec => []RunningMeansLoop
<1>1. AllInit => FlagInv
  BY PartsInit, FlagInvInit
<1>2. FlagInv /\ [AllNext]_allVars => FlagInv'
  BY BackupsMove, FlagInvNext
<1>3. FlagInv => RunningMeansLoop
  BY FlagInvMeans DEF RunningMeansLoop
<1> QED  BY AllSteps, <1>1, <1>2, <1>3, PTL
=============================================================================
