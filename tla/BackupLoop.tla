----------------------------- MODULE BackupLoop -----------------------------
(***************************************************************************)
(* Starting and stopping the automated backups: StartAutomatedBackups and  *)
(* StopAutomatedBackups of services/backup_service.go, called by requests  *)
(* at any time and by main.go once at the start and once at the end.       *)
(*                                                                         *)
(* The flag isRunning and the field stopChan are shared without a lock, by *)
(* callers and by the goroutines started, each of which reads stopChan     *)
(* anew in every turn of its loop and sets the flag when it returns.  What *)
(* a turn does is CreateBackup and CleanupOldBackups (BackupFiles).  A     *)
(* second close of a channel panics: a request is recovered, and in main   *)
(* the process ends.                                                       *)
(***************************************************************************)
EXTENDS Naturals, FiniteSets

CONSTANTS
    Callers,      \* requests under way
    Loops,        \* bound: goroutines
    MaxStarts     \* bound: channels made

BackupLoopAssumption == MaxStarts \in Nat

VARIABLES
    isRunning,
    stopChan,     \* the field: channels are numbered as they are made
    closed,       \* channels closed
    caller,       \* caller[c]: where call c is
    loop          \* loop[l]: what goroutine l does

vars == <<isRunning, stopChan, closed, caller, loop>>

Chan == 0..MaxStarts
None == [at |-> "none", on |-> 0]
Busy == [at |-> "busy", on |-> 0]
Wait == [at : {"wait"}, on : Chan]

\* NewBackupService makes a channel that no loop uses.
Init ==
    /\ isRunning = FALSE
    /\ stopChan = 0
    /\ closed = {}
    /\ caller = [c \in Callers |-> "idle"]
    /\ loop = [l \in Loops |-> None]

Turn(c, from, to) == caller[c] = from /\ caller' = [caller EXCEPT ![c] = to]

\* The check of StartAutomatedBackups, the flag, and then channel and goroutine.
Start(c) ==
    /\ ~isRunning /\ Turn(c, "idle", "start")
    /\ UNCHANGED <<isRunning, stopChan, closed, loop>>
SetRunning(c) ==
    /\ Turn(c, "start", "starting") /\ isRunning' = TRUE
    /\ UNCHANGED <<stopChan, closed, loop>>
StartAutomatedBackups(c) ==
    /\ Turn(c, "starting", "idle")
    /\ stopChan < MaxStarts /\ stopChan' = stopChan + 1
    /\ \E l \in Loops : loop[l] = None /\ loop' = [loop EXCEPT ![l] = Busy]
    /\ UNCHANGED <<isRunning, closed>>

\* The check of StopAutomatedBackups, the close, and then the flag.
Stop(c) ==
    /\ isRunning /\ Turn(c, "idle", "stop")
    /\ UNCHANGED <<isRunning, stopChan, closed, loop>>
CloseChannel(c) ==
    /\ \/ stopChan \in closed /\ Turn(c, "stop", "idle")
       \/ stopChan \notin closed /\ Turn(c, "stop", "stopping")
    /\ closed' = closed \cup {stopChan}
    /\ UNCHANGED <<isRunning, stopChan, loop>>
StopAutomatedBackups(c) ==
    /\ Turn(c, "stopping", "idle") /\ isRunning' = FALSE
    /\ UNCHANGED <<stopChan, closed, loop>>

\* Mutant: the goroutine keeps to the first channel it read.
Select_First(l) ==
    /\ loop[l].at = "busy"
    /\ loop' = [loop EXCEPT ![l] = [at |-> "wait", on |-> IF loop[l].on = 0
                                                          THEN stopChan ELSE loop[l].on]]
    /\ UNCHANGED <<isRunning, stopChan, closed, caller>>

\* The select of the loop reads the field.
Select(l) ==
    /\ loop[l].at = "busy"
    /\ loop' = [loop EXCEPT ![l] = [at |-> "wait", on |-> stopChan]]
    /\ UNCHANGED <<isRunning, stopChan, closed, caller>>

\* A tick is taken even when the channel is closed: select picks either.
Tick(l) ==
    /\ loop[l].at = "wait"
    /\ loop' = [loop EXCEPT ![l].at = "busy"]
    /\ UNCHANGED <<isRunning, stopChan, closed, caller>>

\* Mutant: the goroutine returns and leaves the flag to StopAutomatedBackups.
Return_NoFlag(l) ==
    /\ loop[l].at = "wait" /\ loop[l].on \in closed
    /\ loop' = [loop EXCEPT ![l] = None]
    /\ UNCHANGED <<isRunning, stopChan, closed, caller>>

Return(l) ==
    /\ loop[l].at = "wait" /\ loop[l].on \in closed
    /\ loop' = [loop EXCEPT ![l] = None]
    /\ isRunning' = FALSE
    /\ UNCHANGED <<stopChan, closed, caller>>

\* One turn of the loop after the other.
Turns(l) == Select(l) \/ Tick(l)

Call(c) ==
    \/ Start(c) \/ SetRunning(c) \/ StartAutomatedBackups(c)
    \/ Stop(c) \/ CloseChannel(c) \/ StopAutomatedBackups(c)
Next ==
    \/ \E c \in Callers : Call(c)
    \/ \E l \in Loops : (Turns(l) \/ Return(l))

Spec == Init /\ [][Next]_vars

\* The loops run and their tickers tick; hours lie between two ticks, so that a loop
\* that keeps meeting a closed channel takes that branch of its select some time.
Fairness ==
    \A l \in Loops : WF_vars(Turns(l)) /\ SF_vars(Return(l))
FairSpec == Spec /\ Fairness

-----------------------------------------------------------------------------
(* The properties.                                                         *)

TypeOK ==
    /\ isRunning \in BOOLEAN /\ stopChan \in Chan /\ closed \subseteq Chan
    /\ caller \in [Callers -> {"idle", "start", "starting", "stop", "stopping"}]
    /\ \A l \in Loops : loop[l] \in {None} \cup [at : {"busy"}, on : Chan] \cup Wait

\* The flag, which the status answers and which decides who may start and stop, is
\* never left set when no goroutine runs or is being started: backups that have ended
\* can always be started again, however starts, stops and returns overlap.
RunningMeansLoop ==
    isRunning => \/ \E l \in Loops : loop[l] # None
                 \/ \E c \in Callers : caller[c] = "starting"

\* Starts that overlap, and starts that come while a stopped goroutine is still busy,
\* leave several goroutines on one service.  Closing the channel of the last start
\* ends them all, for each comes to read it.
StopStopsEveryLoop ==
    <>[](stopChan \in closed) => <>[](\A l \in Loops : loop[l] = None)
=============================================================================
