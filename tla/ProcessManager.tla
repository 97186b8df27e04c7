--------------------------- MODULE ProcessManager ---------------------------
(***************************************************************************)
(* How the macOS app keeps a bridge running: BridgeProcessManager of       *)
(* src/tools/salmon-run-app with the processes it launches.                *)
(*                                                                         *)
(* All of the manager runs on the main thread, so each of its functions is *)
(* one step; the end of a process and a scheduled retry are calls that the *)
(* main queue makes later.  Delays are not modelled: a retry fires at any  *)
(* time, and any uptime may count as stable.                               *)
(***************************************************************************)
EXTENDS Daemon

CONSTANT maxRetries

ASSUME RetriesAssumption == maxRetries \in Nat

VARIABLES
  state,             \* "stopped", "running" or "restarting"
  retryCount,
  processHandle,     \* the process the manager holds, or NULL
  launchGeneration,
  retries,           \* retry blocks that are scheduled
  strays             \* history: a retry block found another process running

managerVars == <<state, retryCount, processHandle, launchGeneration, retries, strays>>
appVars == <<daemonVars, managerVars>>

DaemonRest == UNCHANGED <<status, lockVars, socket, channels, crashes>>

Told == IF processHandle # NULL /\ Live(processHandle)
        THEN [told EXCEPT ![processHandle] = TRUE] ELSE told

\* launchProcess; a launch that throws has used up its generation.
Launched ==
  /\ launchGeneration + 1 \in Launches
  /\ launchGeneration' = launchGeneration + 1
  /\ processHandle' = launchGeneration'
  /\ Goto(launchGeneration', "open_lock")
  /\ state' = "running"

LaunchThrows(handle) ==
  /\ launchGeneration + 1 \in Launches
  /\ launchGeneration' = launchGeneration + 1
  /\ processHandle' = handle
  /\ state' = "stopped"
  /\ UNCHANGED step

BinaryMissing ==
  state' = "stopped" /\ UNCHANGED <<step, processHandle, launchGeneration>>

-----------------------------------------------------------------------------
\* start; without a binary it changes nothing.
Start ==
  /\ state = "stopped"
  /\ retryCount' = 0
  /\ Launched \/ LaunchThrows(processHandle)
  /\ UNCHANGED <<told, exits, retries, strays>> /\ DaemonRest

Stop ==
  /\ state' = "stopped" /\ retryCount' = 0
  /\ told' = Told
  /\ processHandle' = NULL
  /\ UNCHANGED <<step, exits, launchGeneration, retries, strays>> /\ DaemonRest

\* restart: stop, then a launch that does not wait for the old process to end.
Restart ==
  /\ retryCount' = 0
  /\ told' = Told
  /\ Launched \/ LaunchThrows(NULL) \* without a binary: as Stop
  /\ UNCHANGED <<exits, retries, strays>> /\ DaemonRest

\* Mutant: no end of the retries.
RetryForever ==
  /\ retryCount' = retryCount + 1
  /\ state' = "restarting" /\ retries' = retries + 1

\* handleTermination: a crash after a stable uptime starts a new streak.
Retry ==
  \E count \in {retryCount + 1, 1} :
    /\ retryCount' = count
    /\ IF count <= maxRetries
       THEN state' = "restarting" /\ retries' = retries + 1
       ELSE state' = "stopped" /\ UNCHANGED retries

Terminated(code) ==
  /\ processHandle' = NULL
  /\ \/ state = "stopped" /\ UNCHANGED <<state, retryCount, retries>>
     \/ state # "stopped" /\ code = 0 /\ state' = "stopped" /\ UNCHANGED <<retryCount, retries>>
     \/ state # "stopped" /\ code # 0 /\ Retry

\* Mutant: the end of an earlier process is taken for the end of this one.
HandleTerminationOfAny(g, code) ==
  /\ <<g, code>> \in exits
  /\ exits' = exits \ {<<g, code>>}
  /\ Terminated(code)
  /\ UNCHANGED <<step, told, launchGeneration, strays>> /\ DaemonRest

HandleTermination(g, code) ==
  /\ <<g, code>> \in exits
  /\ exits' = exits \ {<<g, code>>}
  /\ IF g = launchGeneration THEN Terminated(code)
     ELSE UNCHANGED <<state, retryCount, processHandle, retries>>
  /\ UNCHANGED <<step, told, launchGeneration, strays>> /\ DaemonRest

\* The block asks only whether the manager was stopped, not what happened since
\* it was scheduled.
RetryFires ==
  /\ retries > 0
  /\ retries' = retries - 1
  /\ IF state = "stopped"
     THEN UNCHANGED <<step, state, processHandle, launchGeneration, strays>>
     ELSE /\ Launched \/ LaunchThrows(processHandle) \/ BinaryMissing
          /\ strays' = (strays \/ processHandle # NULL)
  /\ UNCHANGED <<told, exits, retryCount>> /\ DaemonRest

-----------------------------------------------------------------------------
AppInit ==
  /\ DaemonInit
  /\ state = "stopped" /\ retryCount = 0 /\ processHandle = NULL
  /\ launchGeneration = 0 /\ retries = 0 /\ strays = FALSE

AppNext ==
  \/ Start \/ Stop \/ Restart \/ RetryFires
  \/ \E e \in exits : HandleTermination(e[1], e[2])
  \/ DaemonNext /\ UNCHANGED managerVars

AppSpec == AppInit /\ [][AppNext]_appVars /\ DaemonFairness

-----------------------------------------------------------------------------
\* Types of the manager's state and of the processes'.
AppTypeOK ==
  /\ DaemonTypeOK
  /\ state \in {"stopped", "running", "restarting"}
  /\ retryCount \in 0..(maxRetries + 1)
  /\ processHandle \in Launches \cup {NULL}
  /\ launchGeneration \in Launches \cup {0}
  /\ retries \in Nat /\ strays \in BOOLEAN

\* stop() "terminates cleanly": when the manager says stopped, every process it
\* launched has ended or was told to, or is ending by itself.  Excepted is a
\* retry block that launched a second process beside one that was running.
StoppedMeansTold ==
  state = "stopped" /\ ~strays =>
    \A g \in Launches : Live(g) => told[g] \/ step[g] \in Ending
=============================================================================
