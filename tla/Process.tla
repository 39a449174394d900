------------------------------- MODULE Process -------------------------------
(***************************************************************************)
(* The process from its start to its end: main in cmd/api/main.go over     *)
(* config.Load and its validations, and the engine's shutdown of           *)
(* EngineLifecycle inside it.                                              *)
(*                                                                         *)
(* Of the configuration it is kept what the validations tell apart, each   *)
(* setting as one of a few readings; durations are minutes, and 0 stands   *)
(* for everything that is not positive.  Of the wiring it is kept what     *)
(* opens, closes or starts something: the two clients, the cache manager,  *)
(* the engine, the tickers.  The HTTP server's 15 seconds and the loop of  *)
(* the automated backups (BackupLoop) are left out.                        *)
(***************************************************************************)
EXTENDS Integers, FiniteSets

CONSTANT Workers

VARIABLES
    stage,        \* where main is
    cfg,          \* what main goes on reading of the configuration
    mongo, redis, \* whether the client of each is open
    tickers,      \* the intervals, in minutes, that tickers were made with
    late,         \* history: a task ended after the Redis client was closed
    main, worker, stopCh, monitor, poolStopCh, stopper, engineWg, poolWg

lifecycle == <<main, worker, stopCh, monitor, poolStopCh, stopper, engineWg, poolWg>>
stores == <<mongo, redis>>
vars == <<stage, cfg, stores, tickers, late, lifecycle>>

Engine == INSTANCE EngineLifecycle

-----------------------------------------------------------------------------
(* The configuration.                                                      *)

Unset == -2
Garbled == -3

\* The readings of a setting, beside that it is unset, which a validation looks at.
Texts ==
    [JWT_SECRET |-> {"short", "flat", "known"}, JWT_ISSUER |-> {""}, JWT_AUDIENCE |-> {""},
     PORT |-> {"garbled"}, ENVIRONMENT |-> {"production", "garbled"}, LOG_LEVEL |-> {"garbled"},
     MONGODB_URI |-> {"", "password123"}, MONGODB_DATABASE |-> {""},
     REDIS_HOST |-> {""}, REDIS_PORT |-> {"garbled"},
     ENABLE_CORS |-> {"false"}, CORS_ALLOWED_ORIGINS |-> {"*", "garbled"},
     CORS_ALLOWED_METHODS |-> {"garbled"}, CORS_ALLOW_CREDENTIALS |-> {"false", "garbled"},
     CACHE_ENABLED |-> {"true", "false"}, CACHE_SERIALIZER |-> {"garbled"},
     BACKUP_ENABLED |-> {"true", "garbled"}, BACKUP_NOTIFY_ON_FAILURE |-> {"false"},
     BACKUP_NOTIFICATION_EMAIL |-> {"set"}, BACKUP_STORAGE_TYPE |-> {"s3", "garbled"},
     BACKUP_STORAGE_PATH |-> {"", "absolute"}, BACKUP_REMOTE_ENABLED |-> {"true"},
     BACKUP_S3 |-> {"set"}]

Numbers ==
    [JWT_ACCESS_TTL |-> {Garbled, 0, 60, 61}, JWT_REFRESH_TTL |-> {Garbled, 43201},
     REDIS_DB |-> {-1, 16}, CACHE_DEFAULT_TTL |-> {Garbled, 0},
     CACHE_CLEANUP_INTERVAL |-> {Garbled, 0}, CACHE_COMPRESSION_LEVEL |-> {10},
     BACKUP_INTERVAL |-> {Garbled, 0, 59, 60, 43201}, BACKUP_RETENTION_DAYS |-> {0, 731},
     BACKUP_COMPRESSION_LEVEL |-> {0, 10}]

\* getEnv, getEnvAsBool, and getEnvAsInt and parseDuration, of an environment t, n.
text(t, setting, default) == IF t[setting] = "unset" THEN default ELSE t[setting]
getEnvAsBool(t, setting, default) ==
    IF t[setting] \in {"unset", "garbled"} THEN default ELSE t[setting] = "true"
number(n, setting, default) ==
    IF n[setting] \in {Unset, Garbled} THEN default ELSE n[setting]

Environment(t) == text(t, "ENVIRONMENT", "development")

ValidateJWT(t, n) ==
    /\ text(t, "JWT_SECRET", "generated") \notin {"short", "flat"}
    /\ Environment(t) = "production" => text(t, "JWT_SECRET", "generated") # "known"
    /\ number(n, "JWT_ACCESS_TTL", 15) <= 60
    /\ number(n, "JWT_REFRESH_TTL", 10080) <= 43200
    /\ text(t, "JWT_ISSUER", "set") # "" /\ text(t, "JWT_AUDIENCE", "set") # ""

ValidateServer(t) ==
    \A setting \in {"PORT", "ENVIRONMENT", "LOG_LEVEL"} : t[setting] # "garbled"

\* The default of the development environment holds the default password.
ValidateDatabase(t) ==
    /\ text(t, "MONGODB_URI", "plain") # "" /\ text(t, "MONGODB_DATABASE", "set") # ""
    /\ Environment(t) = "production" => text(t, "MONGODB_URI", "plain") # "password123"

ValidateRedis(t, n) ==
    /\ text(t, "REDIS_HOST", "set") # "" /\ text(t, "REDIS_PORT", "6379") # "garbled"
    /\ number(n, "REDIS_DB", 0) \in 0 .. 15

ValidateCORS(t) ==
    getEnvAsBool(t, "ENABLE_CORS", TRUE) =>
        /\ text(t, "CORS_ALLOWED_ORIGINS", "localhost") # "garbled"
        /\ text(t, "CORS_ALLOWED_METHODS", "known") # "garbled"
        /\ Environment(t) = "production" /\ getEnvAsBool(t, "CORS_ALLOW_CREDENTIALS", TRUE)
               => text(t, "CORS_ALLOWED_ORIGINS", "localhost") # "*"

\* From an hour to thirty days, in minutes.
BackupIntervals == 60 .. 43200

\* Every absolute path begins with "/", the first of the dangerous ones.
ValidateBackup(t, n) ==
    getEnvAsBool(t, "BACKUP_ENABLED", FALSE) =>
        /\ number(n, "BACKUP_INTERVAL", 1440) \in BackupIntervals
        /\ number(n, "BACKUP_RETENTION_DAYS", 30) \in 1 .. 730
        /\ text(t, "BACKUP_STORAGE_TYPE", "local") # "garbled"
        /\ text(t, "BACKUP_STORAGE_TYPE", "local") = "local"
               => text(t, "BACKUP_STORAGE_PATH", "./backups") = "./backups"
        /\ \/ text(t, "BACKUP_STORAGE_TYPE", "local") # "s3"
              /\ ~getEnvAsBool(t, "BACKUP_REMOTE_ENABLED", FALSE)
           \/ text(t, "BACKUP_S3", "") # ""
        /\ number(n, "BACKUP_COMPRESSION_LEVEL", 6) \in 1 .. 9
        /\ getEnvAsBool(t, "BACKUP_NOTIFY_ON_FAILURE", TRUE)
               => text(t, "BACKUP_NOTIFICATION_EMAIL", "") # ""

Validate(t, n) ==
    /\ ValidateJWT(t, n) /\ ValidateServer(t) /\ ValidateDatabase(t)
    /\ ValidateRedis(t, n) /\ ValidateCORS(t) /\ ValidateBackup(t, n)

ValidateCacheConfig(c) ==
    c.ttl > 0 /\ c.cleanup > 0 /\ c.level \in 0 .. 9 /\ c.serializer # "garbled"

\* What Load returns, as far as main goes on reading it.
Loaded(t, n) ==
    [cache |-> getEnvAsBool(t, "CACHE_ENABLED", TRUE),
     ttl |-> number(n, "CACHE_DEFAULT_TTL", 5), cleanup |-> number(n, "CACHE_CLEANUP_INTERVAL", 60),
     level |-> number(n, "CACHE_COMPRESSION_LEVEL", 1),
     serializer |-> text(t, "CACHE_SERIALIZER", "json"),
     backup |-> getEnvAsBool(t, "BACKUP_ENABLED", FALSE),
     interval |-> number(n, "BACKUP_INTERVAL", 1440)]

Nothing == [s \in DOMAIN Texts |-> "unset"]

\* bound: of the text settings two are set, or backups are on, without notification
\* of failures, and one more is; of the numbers one is set.
TextBases == {Nothing, [Nothing EXCEPT !["BACKUP_ENABLED"] = "true",
                                       !["BACKUP_NOTIFY_ON_FAILURE"] = "false"]}
OneText(base) == UNION {{[base EXCEPT ![s] = v] : v \in Texts[s]} : s \in DOMAIN Texts}
TextSettings == TextBases \cup UNION {OneText(base) : base \in TextBases \cup OneText(Nothing)}
NumberSettings ==
    LET Default == [s \in DOMAIN Numbers |-> Unset]
    IN {Default} \cup UNION {{[Default EXCEPT ![s] = v] : v \in Numbers[s]} : s \in DOMAIN Numbers}

-----------------------------------------------------------------------------
(* The start.                                                              *)

Init ==
    /\ stage = "load"
    /\ cfg = Loaded(Nothing, [s \in DOMAIN Numbers |-> Unset])
    /\ mongo = FALSE /\ redis = FALSE /\ tickers = {}
    /\ late = FALSE
    /\ Engine!Init

Go(from, to) == stage = from /\ stage' = to

\* "refused": log.Fatalf or logger.Fatal, which end the process and run no deferred call.
Load ==
    /\ stage = "load"
    /\ \E t \in TextSettings, n \in NumberSettings :
           \/ Validate(t, n) /\ stage' = "mongo" /\ cfg' = Loaded(t, n)
           \/ ~Validate(t, n) /\ stage' = "refused" /\ UNCHANGED cfg
    /\ UNCHANGED <<stores, tickers, late, lifecycle>>

NewMongoConnection ==
    /\ \/ Go("mongo", "redis") /\ mongo' = TRUE
       \/ Go("mongo", "refused") /\ UNCHANGED mongo
    /\ UNCHANGED <<cfg, redis, tickers, late, lifecycle>>

NewRedisConnection ==
    /\ \/ Go("redis", "cache") /\ redis' = TRUE
       \/ Go("redis", "refused") /\ UNCHANGED redis
    /\ UNCHANGED <<cfg, mongo, tickers, late, lifecycle>>

\* Validated only here; the manager's own ticker is made with the clean-up's interval,
\* and only when that is positive.
NewCache ==
    /\ \/ ~cfg.cache /\ Go("cache", "engine") /\ UNCHANGED tickers
       \/ /\ cfg.cache /\ ~ValidateCacheConfig(cfg)
          /\ Go("cache", "refused") /\ UNCHANGED tickers
       \/ /\ cfg.cache /\ ValidateCacheConfig(cfg)
          /\ Go("cache", "engine") \/ Go("cache", "refused")
          /\ tickers' = IF cfg.cleanup > 0 THEN tickers \cup {cfg.cleanup} ELSE tickers
    /\ UNCHANGED <<cfg, stores, late, lifecycle>>

\* WorkerEngine.Start: the state that EngineLifecycle begins with.
StartEngine ==
    /\ Go("engine", "backups")
    /\ UNCHANGED <<cfg, stores, tickers, late, lifecycle>>

StartAutomatedBackups ==
    /\ Go("backups", "notify")
    /\ tickers' = IF cfg.backup THEN tickers \cup {cfg.interval} ELSE tickers
    /\ UNCHANGED <<cfg, stores, late, lifecycle>>

\* signal.Notify, then the goroutines of the background services and of the server.
startBackgroundServices ==
    /\ Go("notify", "serving")
    /\ tickers' = tickers \cup IF cfg.cache THEN {cfg.cleanup} ELSE {}
    /\ UNCHANGED <<cfg, stores, late, lifecycle>>

-----------------------------------------------------------------------------
(* The work, and the end.                                                  *)

\* The engine's goroutines run from its start on.
Running == stage \in {"backups", "notify", "serving", "closing", "stopping", "engine stopping"}

rest == <<stage, cfg, stores, tickers>>

\* A closed client answers every command with an error: no task comes out of the queue,
\* and the mark of one that ends is lost.
TakeTask(w) == Running /\ redis /\ Engine!TakeTask(w) /\ UNCHANGED <<rest, late>>
FinishTask(w) == Running /\ Engine!FinishTask(w) /\ late' = (late \/ ~redis) /\ UNCHANGED rest

EngineStep ==
    /\ Running
    /\ \/ \E w \in Workers : Engine!WorkerExit(w)
       \/ \E m \in Engine!Monitors : Engine!MonitorExit(m)
       \/ Engine!StopWorkers \/ Engine!PoolStopped
    /\ UNCHANGED <<rest, late>>

\* A signal before signal.Notify ends the process where it is.
Kill ==
    /\ stage \in {"load", "mongo", "redis", "cache", "engine", "backups", "notify"}
    /\ stage' = "refused"
    /\ UNCHANGED <<cfg, stores, tickers, late, lifecycle>>

\* A signal, or the one the server's goroutine sends when it cannot listen.
Interrupt ==
    /\ Engine!Up /\ Go("serving", "closing")
    /\ UNCHANGED <<cfg, stores, tickers, late, lifecycle>>

\* CacheManager.Close closes the client that the whole process shares.
CloseCache ==
    /\ Engine!Up /\ Go("closing", "stopping")
    /\ redis' = (redis /\ ~cfg.cache)
    /\ UNCHANGED <<cfg, mongo, tickers, late, lifecycle>>

StopEngine ==
    /\ Go("stopping", "engine stopping") /\ Engine!Signal
    /\ UNCHANGED <<cfg, stores, tickers, late>>

\* The server is shut down and the deferred calls close the clients.
Return ==
    /\ Go("engine stopping", "exited") /\ Engine!EngineStopped
    /\ redis' = FALSE /\ mongo' = FALSE
    /\ UNCHANGED <<cfg, tickers, late>>

Start ==
    \/ Load \/ NewMongoConnection \/ NewRedisConnection \/ NewCache
    \/ StartEngine \/ StartAutomatedBackups \/ startBackgroundServices

End == Interrupt \/ CloseCache \/ StopEngine \/ Return

Next ==
    \/ Start \/ Kill \/ End \/ EngineStep
    \/ \E w \in Workers : TakeTask(w) \/ FinishTask(w)

Spec == Init /\ [][Next]_vars

WorkerExit(w) == Running /\ Engine!WorkerExit(w) /\ UNCHANGED <<rest, late>>

\* A shutdown goes on when it can, and so does every goroutine of the engine: a select that
\* finds stopCh closed again and again takes it in the end.
Fairness ==
    /\ WF_vars(CloseCache \/ StopEngine \/ Return) /\ WF_vars(EngineStep)
    /\ \A w \in Workers : WF_vars(FinishTask(w)) /\ SF_vars(WorkerExit(w))

FairSpec == Spec /\ Fairness

-----------------------------------------------------------------------------
(* The properties.                                                         *)

TypeOK ==
    /\ stage \in {"load", "mongo", "redis", "cache", "engine", "backups", "notify", "serving",
                  "closing", "stopping", "engine stopping", "exited", "refused"}
    /\ mongo \in BOOLEAN /\ redis \in BOOLEAN /\ tickers \subseteq Nat
    /\ late \in BOOLEAN

\* Whatever is set, no goroutine makes a ticker with an interval that is not positive,
\* which panics: of the two configurable ones the backups' is bounded when it is loaded
\* and the cache's only after the connections are made, each only when it is used.
TickersArePositive == \A every \in tickers : every > 0

\* A task that runs at the signal finds Redis open until it ends, to be marked, unless
\* the cache, whose end comes first, has closed the client for all.
TasksFindRedis == late => cfg.cache

\* A signal ends in main's return, through the cache, the engine and the server.
ShutdownEnds == stage = "closing" ~> stage = "exited"
=============================================================================
