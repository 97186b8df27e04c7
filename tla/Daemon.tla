------------------------------- MODULE Daemon -------------------------------
(***************************************************************************)
(* The bridge as processes of the Mac: the file lock that keeps a second   *)
(* one out, the IPC socket, the daemon loop and how a process ends         *)
(* (src/cmd/bridge/main.go, daemon.go, src/internal/ipc).                  *)
(*                                                                         *)
(* A process is known by the number of its launch.  What a sync cycle does *)
(* is in the other modules; here it has a beginning and an end.            *)
(***************************************************************************)
EXTENDS Integers, Sequences

CONSTANTS
  MaxLaunches, \* bound: processes launched
  NULL,        \* no process
  MaxCrashes   \* bound: processes that die by themselves

Launches == 1..MaxLaunches

ASSUME DaemonAssumption ==
  /\ MaxLaunches \in Nat
  /\ NULL \notin Launches
  /\ MaxCrashes \in Nat

VARIABLES
  step,      \* per process: what it does next
  status,    \* per process: the exit status it is heading for
  told,      \* per process: it was sent SIGTERM and has not ended
  lockFile,  \* the inode at the path of the lock file, 0 if there is none
  opened,    \* per process: the inode it has open as lock file, 0 for none
  holder,    \* per inode: the process whose flock it is
  socket,    \* the process that bound the socket file at the IPC path
  trigger,   \* per process: the channel syncTrigger (capacity 1)
  shutdown,  \* per process: the channel shutdownCh (capacity 1)
  owed,      \* history: a sync_now was answered since the last cycle began
  exits,     \* ended processes the app has not been told of, with status
  crashes

lockVars == <<lockFile, opened, holder>>
channels == <<trigger, shutdown, owed>>
daemonVars == <<step, status, told, lockVars, socket, channels, exits, crashes>>

Inodes == 1..(MaxLaunches + 1)

\* Mutant: the lock is given back before the server is stopped.
DeferredSwapped == <<"release_lock", "stop_server">>

\* The deferred calls of run and runDaemonWithIPC, in the order they are run.
Deferred == <<"stop_server", "release_lock">>

After(call) == IF Deferred[1] = call THEN Deferred[2] ELSE "exit"

Starting == {"open_lock", "flock", "start_server"}
Looping == {"cycle", "select"}
Ending == {"stop_server", "release_lock", "exit"}
Steps == {"unborn", "gone"} \cup Starting \cup Looping \cup Ending

Live(g) == step[g] \notin {"unborn", "gone"}

Goto(g, s) == step' = [step EXCEPT ![g] = s]
KeepLock == UNCHANGED lockVars
Quiet == UNCHANGED <<told, exits, crashes>>

-----------------------------------------------------------------------------
(***************************************************************************)
(* run                                                                     *)
(***************************************************************************)
\* acquireLock opens the file, creating it, and then takes the flock.
OpenLock(g) ==
  /\ step[g] = "open_lock"
  /\ lockFile' = IF lockFile = 0
                 THEN CHOOSE i \in Inodes : \A h \in Launches : opened[h] # i
                 ELSE lockFile
  /\ opened' = [opened EXCEPT ![g] = lockFile']
  /\ Goto(g, "flock")
  /\ UNCHANGED <<holder, status, socket, channels>> /\ Quiet

\* The end of a process: its memory is gone, and the system closes its files
\* and with them its locks.
Ends(g, code) ==
  /\ Goto(g, "gone")
  /\ opened' = [opened EXCEPT ![g] = 0]
  /\ holder' = [i \in Inodes |-> IF holder[i] = g THEN NULL ELSE holder[i]]
  /\ exits' = exits \cup {<<g, code>>}
  /\ status' = [status EXCEPT ![g] = 0]
  /\ told' = [told EXCEPT ![g] = FALSE]
  /\ trigger' = [trigger EXCEPT ![g] = FALSE]
  /\ shutdown' = [shutdown EXCEPT ![g] = FALSE]
  /\ owed' = [owed EXCEPT ![g] = FALSE]
  /\ UNCHANGED <<lockFile, socket>>

\* loadConfig fails, or the lock file cannot be opened.
NotConfigured(g) ==
  /\ step[g] = "open_lock"
  /\ Ends(g, 1)
  /\ UNCHANGED crashes

Flock(g) ==
  /\ step[g] = "flock"
  /\ holder[opened[g]] = NULL
  /\ holder' = [holder EXCEPT ![opened[g]] = g]
  /\ Goto(g, "start_server")
  /\ UNCHANGED <<lockFile, opened, status, socket, channels>> /\ Quiet

\* "another bridge instance is running": exit status 1.
FlockFails(g) ==
  /\ step[g] = "flock"
  /\ holder[opened[g]] # NULL
  /\ Ends(g, 1)
  /\ UNCHANGED crashes

\* ipc.Server.Start: a socket that is there is stale and is removed; the first
\* cycle follows without looking at the channels.
StartServer(g) ==
  /\ step[g] = "start_server"
  /\ socket' = g
  /\ Goto(g, "cycle")
  /\ UNCHANGED <<status, channels>> /\ KeepLock /\ Quiet

\* Bear's database or the socket cannot be opened; a stale socket may already
\* have been removed.
StartFails(g) ==
  /\ step[g] = "start_server"
  /\ status' = [status EXCEPT ![g] = 1]
  /\ socket' \in {socket, NULL}
  /\ Goto(g, "release_lock")
  /\ UNCHANGED channels /\ KeepLock /\ Quiet

-----------------------------------------------------------------------------
(***************************************************************************)
(* runDaemonWithIPC: the loop                                              *)
(***************************************************************************)
CycleEnds(g) ==
  /\ step[g] = "cycle"
  /\ Goto(g, "select")
  /\ UNCHANGED <<status, socket, channels>> /\ KeepLock /\ Quiet

StartsCycle(g) ==
  /\ step[g] = "select"
  /\ Goto(g, "cycle")
  /\ owed' = [owed EXCEPT ![g] = FALSE]
  /\ UNCHANGED <<status, shutdown, socket>> /\ KeepLock /\ Quiet

TickerFires(g) == StartsCycle(g) /\ UNCHANGED trigger

SyncTriggered(g) ==
  /\ trigger[g]
  /\ StartsCycle(g)
  /\ trigger' = [trigger EXCEPT ![g] = FALSE]

Leaves(g) ==
  /\ step[g] = "select"
  /\ Goto(g, Deferred[1])
  /\ UNCHANGED <<status, socket, channels>> /\ KeepLock /\ Quiet

\* Mutant: the loop was not given the context that the signal cancels.
CancelledNever(g) == FALSE /\ Leaves(g)

Cancelled(g) == told[g] /\ Leaves(g)

ShutdownRequested(g) == shutdown[g] /\ Leaves(g)

-----------------------------------------------------------------------------
(***************************************************************************)
(* Deferred calls and the end                                              *)
(***************************************************************************)
\* ipc.Server.Stop: whatever socket is at the path is removed.
StopServer(g) ==
  /\ step[g] = "stop_server"
  /\ socket' = NULL
  /\ Goto(g, After("stop_server"))
  /\ UNCHANGED <<status, channels>> /\ KeepLock /\ Quiet

\* Mutant: the lock file is removed with the lock.
ReleaseLockRemovesFile(g) ==
  /\ step[g] = "release_lock"
  /\ holder' = [holder EXCEPT ![opened[g]] = NULL]
  /\ lockFile' = 0
  /\ opened' = [opened EXCEPT ![g] = 0]
  /\ Goto(g, After("release_lock"))
  /\ UNCHANGED <<status, socket, channels>> /\ Quiet

ReleaseLock(g) ==
  /\ step[g] = "release_lock"
  /\ holder' = [holder EXCEPT ![opened[g]] = NULL]
  /\ opened' = [opened EXCEPT ![g] = 0]
  /\ Goto(g, After("release_lock"))
  /\ UNCHANGED <<lockFile, status, socket, channels>> /\ Quiet

Exit(g) ==
  /\ step[g] = "exit"
  /\ Ends(g, status[g])
  /\ UNCHANGED crashes

\* SIGTERM before signal.NotifyContext, which follows the lock.
KilledEarly(g) ==
  /\ step[g] \in Starting /\ told[g]
  /\ Ends(g, 15)
  /\ UNCHANGED crashes

\* The process panics or is killed: nothing deferred is run.
Crash(g) ==
  /\ Live(g) /\ crashes < MaxCrashes
  /\ crashes' = crashes + 1
  /\ Ends(g, 2)

-----------------------------------------------------------------------------
(***************************************************************************)
(* The IPC server                                                          *)
(***************************************************************************)
\* A client reaches the process that bound the socket, until it stops serving.
Serves(g) == socket = g /\ step[g] \in Looping \cup {Deferred[1]}

\* Mutant: a trigger is only taken while the loop waits for one.
TriggerSyncUnbuffered(g) ==
  trigger' = [trigger EXCEPT ![g] = @ \/ step[g] = "select"]

TriggerSync(g) == trigger' = [trigger EXCEPT ![g] = TRUE]

SyncNow(g) ==
  /\ Serves(g)
  /\ TriggerSync(g)
  /\ owed' = [owed EXCEPT ![g] = TRUE]
  /\ UNCHANGED <<step, status, shutdown, socket>> /\ KeepLock /\ Quiet

Quit(g) ==
  /\ Serves(g)
  /\ shutdown' = [shutdown EXCEPT ![g] = TRUE]
  /\ UNCHANGED <<step, status, trigger, owed, socket>> /\ KeepLock /\ Quiet

-----------------------------------------------------------------------------
DaemonInit ==
  /\ step = [g \in Launches |-> "unborn"]
  /\ status = [g \in Launches |-> 0]
  /\ told = [g \in Launches |-> FALSE]
  /\ lockFile = 0
  /\ opened = [g \in Launches |-> 0]
  /\ holder = [i \in Inodes |-> NULL]
  /\ socket = NULL
  /\ trigger = [g \in Launches |-> FALSE]
  /\ shutdown = [g \in Launches |-> FALSE]
  /\ owed = [g \in Launches |-> FALSE]
  /\ exits = {} /\ crashes = 0

ProcessStep(g) ==
  \/ NotConfigured(g) \/ OpenLock(g) \/ Flock(g) \/ FlockFails(g) \/ KilledEarly(g)
  \/ StartServer(g) \/ StartFails(g)
  \/ CycleEnds(g) \/ TickerFires(g) \/ SyncTriggered(g)
  \/ Cancelled(g) \/ ShutdownRequested(g)
  \/ StopServer(g) \/ ReleaseLock(g) \/ Exit(g)

DaemonNext ==
  \E g \in Launches : ProcessStep(g) \/ Crash(g) \/ SyncNow(g) \/ Quit(g)

\* A process goes on, and a select with several cases ready takes each of them
\* some time: Go chooses among them at random.
DaemonFairness ==
  \A g \in Launches : WF_daemonVars(ProcessStep(g)) /\ SF_daemonVars(Cancelled(g))

-----------------------------------------------------------------------------
DaemonTypeOK ==
  /\ step \in [Launches -> Steps]
  /\ status \in [Launches -> {0, 1}]
  /\ told \in [Launches -> BOOLEAN]
  /\ lockFile \in Inodes \cup {0}
  /\ opened \in [Launches -> Inodes \cup {0}]
  /\ holder \in [Inodes -> Launches \cup {NULL}]
  /\ socket \in Launches \cup {NULL}
  /\ trigger \in [Launches -> BOOLEAN] /\ shutdown \in [Launches -> BOOLEAN]
  /\ owed \in [Launches -> BOOLEAN]
  /\ exits \subseteq Launches \X {0, 1, 2, 15}
  /\ crashes \in 0..MaxCrashes

\* Two bridges never work at the same time on Bear, the hub and the state file,
\* however launches, ends and crashes overlap: which is why the lock file is
\* kept on disk (main.go, releaseLock).
OneBridge ==
  \A g, h \in Launches :
    step[g] \in Looping \cup {"start_server"} /\ step[h] \in Looping \cup {"start_server"} => g = h

\* A daemon that serves can be reached: the process before it does not take the
\* new socket away when it ends.
ServedSocketIsThere ==
  \A g \in Launches : step[g] \in Looping => socket = g

\* A sync_now that was answered is not lost because a cycle was running: one
\* more cycle will begin without waiting for the ticker.
NoTriggerLost ==
  \A g \in Launches : owed[g] /\ step[g] \in Looping => trigger[g]

\* A process that was told to terminate does, whatever else its loop is offered.
ToldProcessEnds == \A g \in Launches : told[g] ~> step[g] = "gone"
=============================================================================
