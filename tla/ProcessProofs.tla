--------------------------- MODULE ProcessProofs ---------------------------
(***************************************************************************)
(* Theorems about the bridge processes and the app's manager for every     *)
(* number of launches, crashes and retries.                                *)
(***************************************************************************)
EXTENDS ProcessManager, TLAPS

\* The steps between the flock and its release.
Holding == {"start_server", "stop_server", "release_lock"} \cup Looping

\* Every process that has a lock file open has the one at the path open, and a
\* process between the flock and its release holds the flock of that file.
LockInv ==
  /\ \A g \in Launches : opened[g] \in {0, lockFile}
  /\ \A g \in Launches : step[g] \in {"flock"} \cup Holding => opened[g] # 0
  /\ \A g \in Launches : step[g] \in Holding => holder[lockFile] = g

USE DaemonAssumption, RetriesAssumption

LEMMA DeferredOrder ==
  /\ Deferred[1] = "stop_server"
  /\ After("stop_server") = "release_lock"
  /\ After("release_lock") = "exit"
BY DEF Deferred, After

-----------------------------------------------------------------------------
\* The file OpenLock opens: nobody has one open unless there is one at the path.
LEMMA OpenedInode ==
  ASSUME DaemonTypeOK, LockInv, NEW g \in Launches, OpenLock(g)
  PROVE  /\ lockFile' \in Inodes
         /\ lockFile # 0 => lockFile' = lockFile
<1>1. CASE lockFile # 0
  BY <1>1 DEF DaemonTypeOK, OpenLock
<1>2. CASE lockFile = 0
  <2>1. 1 \in Inodes /\ \A h \in Launches : opened[h] # 1
    BY <1>2 DEF LockInv, Inodes
  <2> QED
    BY <1>2, <2>1 DEF OpenLock
<1> QED
  BY <1>1, <1>2

LEMMA DaemonTypePreserved ==
  ASSUME DaemonTypeOK, LockInv, NEW g \in Launches,
         ProcessStep(g) \/ Crash(g) \/ SyncNow(g) \/ Quit(g)
  PROVE  DaemonTypeOK'
<1> USE DEF DaemonTypeOK, Goto, Quiet, KeepLock, lockVars, channels
<1>e. ASSUME NEW code \in {0, 1, 2, 15}, Ends(g, code), crashes' \in 0..MaxCrashes
      PROVE  DaemonTypeOK'
  BY <1>e DEF Ends, Steps
<1>1. CASE OpenLock(g)
  <2>1. lockFile' \in Inodes
    BY <1>1, OpenedInode
  <2> QED
    BY <1>1, <2>1 DEF OpenLock, Steps, Starting
<1>2. CASE NotConfigured(g) \/ FlockFails(g) \/ KilledEarly(g)
  BY <1>2, <1>e DEF NotConfigured, FlockFails, KilledEarly
<1>3. CASE Flock(g)
  BY <1>3 DEF Flock, Steps, Starting
<1>4. CASE StartServer(g) \/ StartFails(g)
  BY <1>4 DEF StartServer, StartFails, Steps, Looping, Ending
<1>5. CASE CycleEnds(g) \/ TickerFires(g) \/ SyncTriggered(g)
  BY <1>5 DEF CycleEnds, TickerFires, SyncTriggered, StartsCycle, Steps, Looping
<1>6. CASE Cancelled(g) \/ ShutdownRequested(g)
  BY <1>6, DeferredOrder DEF Cancelled, ShutdownRequested, Leaves, Steps, Ending
<1>7. CASE StopServer(g) \/ ReleaseLock(g)
  BY <1>7, DeferredOrder DEF StopServer, ReleaseLock, Steps, Ending
<1>8. CASE Exit(g)
  <2>1. status[g] \in {0, 1, 2, 15}
    OBVIOUS
  <2> QED
    BY <1>8, <1>e, <2>1 DEF Exit
<1>9. CASE Crash(g)
  <2>1. crashes' \in 0..MaxCrashes
    BY <1>9 DEF Crash
  <2> QED
    BY <1>9, <1>e, <2>1 DEF Crash
<1>10. CASE SyncNow(g) \/ Quit(g)
  BY <1>10 DEF SyncNow, TriggerSync, Quit
<1> QED
  BY <1>1, <1>2, <1>3, <1>4, <1>5, <1>6, <1>7, <1>8, <1>9, <1>10 DEF ProcessStep
LEMMA LockPreserved ==
  ASSUME DaemonTypeOK, LockInv, NEW g \in Launches,
         ProcessStep(g) \/ Crash(g) \/ SyncNow(g) \/ Quit(g)
  PROVE  LockInv'
<1> USE DEF DaemonTypeOK, LockInv, Holding, Looping, Goto, Quiet, KeepLock, lockVars,
            channels
<1>e. ASSUME NEW code, Ends(g, code)
      PROVE  LockInv'
  BY <1>e DEF Ends, Inodes
<1>1. CASE OpenLock(g)
  <2>1. lockFile' \in Inodes /\ (lockFile # 0 => lockFile' = lockFile)
    BY <1>1, OpenedInode
  <2>2. 0 \notin Inodes
    BY DEF Inodes
  <2> QED
    BY <1>1, <2>1, <2>2 DEF OpenLock
<1>2. CASE NotConfigured(g) \/ FlockFails(g) \/ KilledEarly(g) \/ Exit(g) \/ Crash(g)
  BY <1>2, <1>e DEF NotConfigured, FlockFails, KilledEarly, Exit, Crash
<1>3. CASE Flock(g)
  BY <1>3 DEF Flock, Inodes
<1>4. CASE StartServer(g) \/ StartFails(g)
  BY <1>4 DEF StartServer, StartFails
<1>5. CASE CycleEnds(g) \/ TickerFires(g) \/ SyncTriggered(g)
  BY <1>5 DEF CycleEnds, TickerFires, SyncTriggered, StartsCycle
<1>6. CASE Cancelled(g) \/ ShutdownRequested(g)
  BY <1>6, DeferredOrder DEF Cancelled, ShutdownRequested, Leaves
<1>7. CASE StopServer(g)
  BY <1>7, DeferredOrder DEF StopServer
<1>8. CASE ReleaseLock(g)
  BY <1>8, DeferredOrder DEF ReleaseLock
<1>9. CASE SyncNow(g) \/ Quit(g)
  BY <1>9 DEF SyncNow, Quit
<1> QED
  BY <1>1, <1>2, <1>3, <1>4, <1>5, <1>6, <1>7, <1>8, <1>9 DEF ProcessStep

\* Of two processes that hold the flock of one file there is only one.
LEMMA HolderIsOne ==
  ASSUME LockInv, NEW g \in Launches, NEW h \in Launches,
         step[g] \in Holding, step[h] \in Holding
  PROVE  g = h
BY DEF LockInv

LEMMA SocketPreserved ==
  ASSUME DaemonTypeOK, LockInv, ServedSocketIsThere, NEW g \in Launches,
         ProcessStep(g) \/ Crash(g) \/ SyncNow(g) \/ Quit(g)
  PROVE  ServedSocketIsThere'
<1> USE DEF DaemonTypeOK, ServedSocketIsThere, Looping, Goto, Quiet
<1>e. ASSUME NEW code, Ends(g, code)
      PROVE  ServedSocketIsThere'
  BY <1>e DEF Ends
<1>1. CASE OpenLock(g)
  BY <1>1 DEF OpenLock
<1>2. CASE NotConfigured(g) \/ FlockFails(g) \/ KilledEarly(g) \/ Exit(g) \/ Crash(g)
  BY <1>2, <1>e DEF NotConfigured, FlockFails, KilledEarly, Exit, Crash
<1>3. CASE Flock(g)
  BY <1>3 DEF Flock
<1>4. CASE StartServer(g) \/ StartFails(g) \/ StopServer(g)
  <2>1. step[g] \in Holding
    BY <1>4 DEF Holding, StartServer, StartFails, StopServer
  <2>2. ASSUME NEW h \in Launches, h # g PROVE step[h] \notin Looping
    BY <2>1, <2>2, HolderIsOne DEF Holding
  <2> QED
    BY <1>4, <2>2, DeferredOrder DEF StartServer, StartFails, StopServer
<1>5. CASE CycleEnds(g) \/ TickerFires(g) \/ SyncTriggered(g)
  BY <1>5 DEF CycleEnds, TickerFires, SyncTriggered, StartsCycle
<1>6. CASE Cancelled(g) \/ ShutdownRequested(g)
  BY <1>6, DeferredOrder DEF Cancelled, ShutdownRequested, Leaves
<1>7. CASE ReleaseLock(g)
  BY <1>7, DeferredOrder DEF ReleaseLock
<1>8. CASE SyncNow(g) \/ Quit(g)
  BY <1>8 DEF SyncNow, Quit
<1> QED
  BY <1>1, <1>2, <1>3, <1>4, <1>5, <1>6, <1>7, <1>8 DEF ProcessStep

-----------------------------------------------------------------------------
\* A process is owed a cycle only once it serves.
TriggerInv ==
  /\ NoTriggerLost
  /\ \A g \in Launches : owed[g] => step[g] \in Looping \cup Ending

LEMMA TriggerPreserved ==
  ASSUME DaemonTypeOK, TriggerInv, NEW g \in Launches,
         ProcessStep(g) \/ Crash(g) \/ SyncNow(g) \/ Quit(g)
  PROVE  TriggerInv'
<1> USE DEF DaemonTypeOK, TriggerInv, NoTriggerLost, Looping, Ending, Goto, Quiet,
            channels
<1>e. ASSUME NEW code, Ends(g, code)
      PROVE  TriggerInv'
  BY <1>e DEF Ends
<1>1. CASE OpenLock(g) \/ Flock(g)
  BY <1>1 DEF OpenLock, Flock
<1>2. CASE NotConfigured(g) \/ FlockFails(g) \/ KilledEarly(g) \/ Exit(g) \/ Crash(g)
  BY <1>2, <1>e DEF NotConfigured, FlockFails, KilledEarly, Exit, Crash
<1>3. CASE StartServer(g) \/ StartFails(g)
  BY <1>3 DEF StartServer, StartFails
<1>4. CASE CycleEnds(g)
  BY <1>4 DEF CycleEnds
<1>5. CASE TickerFires(g) \/ SyncTriggered(g)
  BY <1>5 DEF TickerFires, SyncTriggered, StartsCycle
<1>6. CASE Cancelled(g) \/ ShutdownRequested(g)
  BY <1>6, DeferredOrder DEF Cancelled, ShutdownRequested, Leaves
<1>7. CASE StopServer(g) \/ ReleaseLock(g)
  BY <1>7, DeferredOrder DEF StopServer, ReleaseLock
<1>8. CASE SyncNow(g)
  BY <1>8, DeferredOrder DEF SyncNow, TriggerSync, Serves
<1>9. CASE Quit(g)
  BY <1>9 DEF Quit
<1> QED
  BY <1>1, <1>2, <1>3, <1>4, <1>5, <1>6, <1>7, <1>8, <1>9 DEF ProcessStep
-----------------------------------------------------------------------------
\* A launch has a fresh number, and who is reported to have ended is gone.
LaunchInv ==
  /\ \A g \in Launches : g > launchGeneration => step[g] = "unborn"
  /\ \A e \in exits : step[e[1]] = "gone"

\* Only a manager that gave up has counted past the limit.
RetryInv == state # "stopped" => retryCount <= maxRetries

\* A process that is neither told to end nor ending by itself is the one the
\* manager holds, launched last, and then the manager does not say stopped.
InHand(g) == g = launchGeneration /\ processHandle = g /\ state # "stopped"

HandInv ==
  ~strays => \A g \in Launches :
               Live(g) => told[g] \/ step[g] \in Ending \/ InHand(g)

ManagerStep ==
  Start \/ Stop \/ Restart \/ RetryFires \/ \E e \in exits : HandleTermination(e[1], e[2])

\* What the manager does to the processes: it launches one or tells one.
LEMMA ManagerChanges ==
  ASSUME AppTypeOK, ManagerStep
  PROVE  /\ \/ UNCHANGED step
            \/ /\ launchGeneration + 1 \in Launches
               /\ step' = [step EXCEPT ![launchGeneration + 1] = "open_lock"]
         /\ UNCHANGED <<status, lockFile, opened, holder, socket, trigger, shutdown,
                        owed, crashes>>
         /\ told' \in [Launches -> BOOLEAN]
         /\ exits' \subseteq exits
<1> USE DEF AppTypeOK, DaemonTypeOK, Goto, DaemonRest, lockVars, channels, Launched,
            LaunchThrows, BinaryMissing
<1>t. Told \in [Launches -> BOOLEAN]
  BY DEF Told
<1>1. CASE Start
  BY <1>1 DEF Start
<1>2. CASE Stop
  BY <1>2, <1>t DEF Stop
<1>3. CASE Restart
  BY <1>3, <1>t DEF Restart
<1>4. CASE RetryFires
  BY <1>4 DEF RetryFires
<1>5. ASSUME NEW e \in exits, HandleTermination(e[1], e[2])
      PROVE  UNCHANGED step /\ exits' \subseteq exits /\ UNCHANGED told /\ DaemonRest
  BY <1>5 DEF HandleTermination
<1> QED
  BY <1>1, <1>2, <1>3, <1>4, <1>5 DEF ManagerStep

LEMMA ManagerTypes ==
  ASSUME AppTypeOK, RetryInv, ManagerStep
  PROVE  AppTypeOK' /\ RetryInv'
<1>1. DaemonTypeOK'
  BY ManagerChanges DEF AppTypeOK, DaemonTypeOK, Steps, Starting
<1>2. /\ state' \in {"stopped", "running", "restarting"}
      /\ retryCount' \in 0..(maxRetries + 1)
      /\ processHandle' \in Launches \cup {NULL}
      /\ launchGeneration' \in Launches \cup {0}
      /\ retries' \in Nat /\ strays' \in BOOLEAN
      /\ RetryInv'
  <2> USE DEF AppTypeOK, RetryInv, Launched, LaunchThrows, BinaryMissing
  <2>1. CASE Start \/ Stop \/ Restart
    BY <2>1 DEF Start, Stop, Restart
  <2>2. CASE RetryFires
    <3>1. strays' \in BOOLEAN
      BY <2>2, Zenon DEF RetryFires
    <3>2. /\ state' \in {"stopped", "running", "restarting"}
          /\ processHandle' \in Launches \cup {NULL}
          /\ launchGeneration' \in Launches \cup {0}
          /\ state = "stopped" => state' = "stopped"
      BY <2>2 DEF RetryFires
    <3>3. UNCHANGED retryCount /\ retries' \in Nat
      BY <2>2 DEF RetryFires
    <3> QED
      BY <3>1, <3>2, <3>3
  <2>3. ASSUME NEW e \in exits, HandleTermination(e[1], e[2])
        PROVE  <1>2!:
    <3>1. CASE e[1] # launchGeneration
      BY <2>3, <3>1 DEF HandleTermination
    <3>2. CASE Terminated(e[2]) /\ ~Retry
      BY <2>3, <3>2 DEF HandleTermination, Terminated
    <3>3. CASE Terminated(e[2]) /\ Retry
      BY <2>3, <3>3 DEF HandleTermination, Terminated, Retry
    <3> QED
      BY <2>3, <3>1, <3>2, <3>3 DEF HandleTermination
  <2> QED
    BY <2>1, <2>2, <2>3 DEF ManagerStep
<1> QED
  BY <1>1, <1>2 DEF AppTypeOK
LEMMA LaunchPreserved ==
  ASSUME AppTypeOK, LaunchInv, ManagerStep
  PROVE  LaunchInv'
<1> USE DEF AppTypeOK, DaemonTypeOK, LaunchInv, Launches
<1>1. exits' \subseteq exits
  BY ManagerChanges
<1>2. ASSUME launchGeneration' = launchGeneration, UNCHANGED step
      PROVE  LaunchInv'
  BY <1>1, <1>2
<1>3. ASSUME Launched
      PROVE  LaunchInv'
  BY <1>1, <1>3 DEF Launched, Goto
<1>4. ASSUME launchGeneration' = launchGeneration + 1, UNCHANGED step
      PROVE  LaunchInv'
  BY <1>1, <1>4
<1> QED
  BY <1>2, <1>3, <1>4 DEF ManagerStep, Start, Stop, Restart, RetryFires, HandleTermination,
     LaunchThrows, BinaryMissing

\* The steps of a process leave the numbering alone: it is alive, or it serves.
LEMMA LaunchKept ==
  ASSUME AppTypeOK, LaunchInv, NEW g \in Launches,
         ProcessStep(g) \/ Crash(g) \/ SyncNow(g) \/ Quit(g), UNCHANGED managerVars
  PROVE  LaunchInv'
<1> USE DEF AppTypeOK, DaemonTypeOK, LaunchInv, Goto, Quiet, managerVars
<1>e. ASSUME NEW code, Ends(g, code), step[g] # "unborn"
      PROVE  LaunchInv'
  BY <1>e DEF Ends
<1>m. ASSUME NEW s, step' = [step EXCEPT ![g] = s], step[g] \notin {"unborn", "gone"},
             UNCHANGED exits
      PROVE  LaunchInv'
  BY <1>m
<1>1. CASE OpenLock(g) \/ Flock(g) \/ StartServer(g) \/ StartFails(g)
  BY <1>1, <1>m DEF OpenLock, Flock, StartServer, StartFails
<1>2. CASE NotConfigured(g) \/ FlockFails(g) \/ KilledEarly(g) \/ Exit(g) \/ Crash(g)
  BY <1>2, <1>e DEF NotConfigured, FlockFails, KilledEarly, Exit, Crash, Starting, Live
<1>3. CASE CycleEnds(g) \/ TickerFires(g) \/ SyncTriggered(g)
  BY <1>3, <1>m DEF CycleEnds, TickerFires, SyncTriggered, StartsCycle
<1>4. CASE Cancelled(g) \/ ShutdownRequested(g) \/ StopServer(g) \/ ReleaseLock(g)
  BY <1>4, <1>m DEF Cancelled, ShutdownRequested, Leaves, StopServer, ReleaseLock
<1>5. CASE SyncNow(g) \/ Quit(g)
  BY <1>5 DEF SyncNow, Quit
<1> QED
  BY <1>1, <1>2, <1>3, <1>4, <1>5 DEF ProcessStep
\* A launch disturbs nobody's lock or socket, and a new process is owed nothing.
LEMMA ManagerKeeps ==
  ASSUME AppTypeOK, LaunchInv, LockInv, ServedSocketIsThere, TriggerInv, ManagerStep
  PROVE  LockInv' /\ ServedSocketIsThere' /\ TriggerInv'
<1> USE ManagerChanges DEF AppTypeOK, DaemonTypeOK
<1>1. LockInv'
  BY DEF LockInv, Holding, Looping
<1>2. ServedSocketIsThere'
  BY DEF ServedSocketIsThere, Looping
<1>3. ASSUME launchGeneration + 1 \in Launches
      PROVE  step[launchGeneration + 1] = "unborn"
  BY <1>3 DEF LaunchInv, Launches
<1>4. TriggerInv'
  BY <1>3 DEF TriggerInv, NoTriggerLost, Looping, Ending
<1> QED
  BY <1>1, <1>2, <1>4

-----------------------------------------------------------------------------
\* What Stop and Restart do first: nobody is left in the hand.
LEMMA ToldCoversAll ==
  ASSUME AppTypeOK, HandInv, ~strays, NEW g \in Launches, Live(g)
  PROVE  Told[g] \/ step[g] \in Ending
BY DEF AppTypeOK, DaemonTypeOK, HandInv, InHand, Told

LEMMA HandPreserved ==
  ASSUME AppTypeOK, LaunchInv, HandInv, ManagerStep
  PROVE  HandInv'
<1> SUFFICES ASSUME ~strays', NEW g \in Launches, Live(g)'
             PROVE  (told[g] \/ step[g] \in Ending \/ InHand(g))'
  BY DEF HandInv
<1> USE DEF AppTypeOK, DaemonTypeOK
<1>n. ASSUME Launched PROVE g = launchGeneration' => InHand(g)'
  BY <1>n DEF Launched, InHand
<1>o. ASSUME Launched, g # launchGeneration' PROVE Live(g) /\ step'[g] = step[g]
  BY <1>o DEF Launched, Live, Goto
<1>u. ASSUME UNCHANGED step PROVE Live(g) /\ step'[g] = step[g]
  BY <1>u DEF Live
<1>1. CASE Start
  <2>1. ~strays /\ UNCHANGED told /\ ~InHand(g)
    BY <1>1 DEF Start, InHand
  <2>2. Launched \/ UNCHANGED step
    BY <1>1 DEF Start, LaunchThrows
  <2> QED
    BY <2>1, <2>2, <1>n, <1>o, <1>u DEF HandInv
<1>2. CASE Stop
  <2>1. ~strays /\ told' = Told /\ UNCHANGED step
    BY <1>2 DEF Stop
  <2> QED
    BY <2>1, <1>u, ToldCoversAll
<1>3. CASE Restart
  <2>1. ~strays /\ told' = Told /\ (Launched \/ UNCHANGED step)
    BY <1>3 DEF Restart, LaunchThrows
  <2> QED
    BY <2>1, <1>n, <1>o, <1>u, ToldCoversAll
<1>4. CASE RetryFires
  <2>1. ~strays /\ UNCHANGED told
    BY <1>4, Zenon DEF RetryFires
  <2>2. CASE state = "stopped"
    BY <1>4, <2>1, <2>2, <1>u DEF RetryFires, HandInv, InHand
  <2>3. CASE state # "stopped"
    <3>1. processHandle = NULL
      BY <1>4, <2>3, Zenon DEF RetryFires
    <3>2. ~InHand(g)
      BY <3>1 DEF InHand
    <3>3. Launched \/ UNCHANGED step
      BY <1>4, <2>3 DEF RetryFires, LaunchThrows, BinaryMissing
    <3> QED
      BY <2>1, <3>2, <3>3, <1>n, <1>o, <1>u DEF HandInv
  <2> QED
    BY <2>2, <2>3
<1>5. ASSUME NEW e \in exits, HandleTermination(e[1], e[2])
      PROVE  (told[g] \/ step[g] \in Ending \/ InHand(g))'
  <2>1. ~strays /\ UNCHANGED <<told, step, launchGeneration>>
    BY <1>5 DEF HandleTermination
  <2>2. CASE e[1] # launchGeneration
    BY <1>5, <2>1, <2>2, <1>u DEF HandleTermination, HandInv, InHand
  <2>3. CASE e[1] = launchGeneration
    <3>1. ~Live(launchGeneration)
      BY <2>3 DEF LaunchInv, Live
    <3> QED
      BY <2>1, <3>1, <1>u DEF HandInv, InHand
  <2> QED
    BY <2>2, <2>3
<1> QED
  BY <1>1, <1>2, <1>3, <1>4, <1>5 DEF ManagerStep

\* A process leaves the loop only to end, and forgets that it was told only
\* when it is gone.
LEMMA HandKept ==
  ASSUME AppTypeOK, HandInv, NEW g \in Launches,
         ProcessStep(g) \/ Crash(g) \/ SyncNow(g) \/ Quit(g), UNCHANGED managerVars
  PROVE  HandInv'
<1> USE DEF AppTypeOK, DaemonTypeOK, HandInv, InHand, Live, Goto, Quiet, managerVars
<1>e. ASSUME NEW code, Ends(g, code)
      PROVE  HandInv'
  BY <1>e DEF Ends
<1>m. ASSUME NEW s, step' = [step EXCEPT ![g] = s], UNCHANGED told, Live(g),
             step[g] \in Ending => s \in Ending
      PROVE  HandInv'
  BY <1>m
<1>1. CASE OpenLock(g) \/ Flock(g) \/ StartServer(g) \/ StartFails(g)
  BY <1>1, <1>m DEF OpenLock, Flock, StartServer, StartFails, Ending
<1>2. CASE NotConfigured(g) \/ FlockFails(g) \/ KilledEarly(g) \/ Exit(g) \/ Crash(g)
  BY <1>2, <1>e DEF NotConfigured, FlockFails, KilledEarly, Exit, Crash
<1>3. CASE CycleEnds(g) \/ TickerFires(g) \/ SyncTriggered(g)
  BY <1>3, <1>m DEF CycleEnds, TickerFires, SyncTriggered, StartsCycle, Ending
<1>4. CASE Cancelled(g) \/ ShutdownRequested(g) \/ StopServer(g) \/ ReleaseLock(g)
  BY <1>4, <1>m, DeferredOrder DEF Cancelled, ShutdownRequested, Leaves, StopServer,
     ReleaseLock, Ending
<1>5. CASE SyncNow(g) \/ Quit(g)
  BY <1>5 DEF SyncNow, Quit
<1> QED
  BY <1>1, <1>2, <1>3, <1>4, <1>5 DEF ProcessStep

-----------------------------------------------------------------------------
AppInv ==
  /\ AppTypeOK /\ RetryInv
  /\ LockInv /\ ServedSocketIsThere /\ TriggerInv
  /\ LaunchInv /\ HandInv

LEMMA InitEstablishes == AppInit => AppInv
<1> SUFFICES ASSUME AppInit PROVE AppInv
  OBVIOUS
<1> USE DEF AppInit, DaemonInit
<1>1. AppTypeOK /\ RetryInv
  <2>1. 0 \in 0..MaxCrashes /\ 0 \in 0..(maxRetries + 1)
    BY DEF DaemonAssumption, RetriesAssumption
  <2>2. exits \subseteq Launches \X {0, 1, 2, 15} /\ retries \in Nat
    OBVIOUS
  <2>3. DaemonTypeOK
    BY <2>1, <2>2 DEF DaemonTypeOK, Steps
  <2> QED
    BY <2>1, <2>2, <2>3 DEF AppTypeOK, RetryInv
<1>2. LockInv /\ ServedSocketIsThere
  BY DEF LockInv, Holding, ServedSocketIsThere, Looping
<1>3. TriggerInv
  BY DEF TriggerInv, NoTriggerLost
<1>4. LaunchInv /\ HandInv
  BY DEF LaunchInv, HandInv, Live
<1> QED
  BY <1>1, <1>2, <1>3, <1>4 DEF AppInv

LEMMA NextPreserves == AppInv /\ [AppNext]_appVars => AppInv'
<1> SUFFICES ASSUME AppInv, [AppNext]_appVars PROVE AppInv'
  OBVIOUS
<1> USE DEF AppInv
<1>1. CASE ManagerStep
  BY <1>1, ManagerTypes, ManagerKeeps, LaunchPreserved, HandPreserved
<1>2. ASSUME NEW g \in Launches, UNCHANGED managerVars,
             ProcessStep(g) \/ Crash(g) \/ SyncNow(g) \/ Quit(g)
      PROVE  AppInv'
  <2>1. AppTypeOK' /\ RetryInv'
    BY <1>2, DaemonTypePreserved DEF AppTypeOK, RetryInv, managerVars
  <2> QED
    BY <1>2, <2>1, LockPreserved, SocketPreserved, TriggerPreserved, LaunchKept, HandKept
       DEF AppTypeOK
<1>3. CASE UNCHANGED appVars
  BY <1>3 DEF appVars, daemonVars, managerVars, lockVars, channels, AppTypeOK, DaemonTypeOK,
     RetryInv, LockInv, ServedSocketIsThere, TriggerInv, NoTriggerLost, LaunchInv, HandInv,
     InHand, Live
<1> QED
  BY <1>1, <1>2, <1>3 DEF AppNext, DaemonNext, ManagerStep

LEMMA Invariance == AppSpec => []AppInv
BY InitEstablishes, NextPreserves, PTL DEF AppSpec

\* The manager's counters and the processes keep their types: in particular the
\* manager never counts past one more than its retries (handleTermination).
THEOREM AppTypesHold == AppSpec => []AppTypeOK
<1>1. AppInv => AppTypeOK
  BY DEF AppInv
<1> QED
  BY <1>1, Invariance, PTL

\* Two bridges never work at the same time, for any number of launches and
\* crashes (acquireLock, releaseLock).
THEOREM OneBridgeHolds == AppSpec => []OneBridge
<1>1. AppInv => OneBridge
  BY HolderIsOne DEF AppInv, OneBridge, Holding
<1> QED
  BY <1>1, Invariance, PTL

\* A daemon in its loop is the one the socket leads to (Server.Start, Stop).
THEOREM ServedSocketHolds == AppSpec => []ServedSocketIsThere
<1>1. AppInv => ServedSocketIsThere
  BY DEF AppInv
<1> QED
  BY <1>1, Invariance, PTL

\* An answered sync_now waits in the channel until a cycle begins (TriggerSync).
THEOREM NoTriggerLostHolds == AppSpec => []NoTriggerLost
<1>1. AppInv => NoTriggerLost
  BY DEF AppInv, TriggerInv
<1> QED
  BY <1>1, Invariance, PTL

\* When the manager says stopped, no process is left that was not told to end
\* and does not end by itself, unless a retry found a process running.
THEOREM StoppedMeansToldHolds == AppSpec => []StoppedMeansTold
<1>1. AppInv => StoppedMeansTold
  BY DEF AppInv, HandInv, InHand, StoppedMeansTold
<1> QED
  BY <1>1, Invariance, PTL
=============================================================================
