------------------------------- MODULE Daemon -------------------------------
(***************************************************************************)
(* The life of the procman daemon, src/daemon/: its start behind the PID   *)
(* file, its state machine, the recovery that an error schedules, the      *)
(* phases of a graceful shutdown, and the files it shares with the other   *)
(* daemons of the same user: the PID file and the socket.                  *)
(*                                                                         *)
(* A daemon is an operating system process, used once.  Several            *)
(* asynchronous jobs of it may be under way together: the start, a stop,   *)
(* the exit command and recoveries.  An action is the code of a job        *)
(* between two awaits.  Delays are of any length.                          *)
(***************************************************************************)
EXTENDS Naturals

CONSTANTS
    Daemons,
    None,           \* no daemon
    Recoveries,     \* attempts at recovery: MAX_RECOVERY_ATTEMPTS of them
    Apps,           \* processes clients ask for
    Overlap,        \* may a daemon be launched while another one starts?
    Earlier,        \* daemons killed before, whose files may still be there
    Busy            \* bound: the daemons that clients use and where an
                    \* exception, one at most, is not caught

ASSUME DaemonAssumption ==
    /\ None \notin Daemons
    /\ Recoveries \cap {"start", "stop", "exit"} = {}
    /\ Overlap \in BOOLEAN /\ Earlier \subseteq Daemons /\ Busy \subseteq Daemons

VARIABLES
    daemon,     \* Daemons -> the state of the process
    pidFile,    \* the daemon the PID file names, or None
    socket      \* the daemon that listened last at the socket path, or None

vars == <<daemon, pidFile, socket>>

-----------------------------------------------------------------------------
Jobs == {"start", "stop", "exit"} \cup Recoveries

States == {"stopped", "starting", "running", "stopping", "error", "recovering"}

\* Where transitionTo may go from each state; it throws for the others.
Transitions ==
    [stopped |-> {"starting"}, starting |-> {"running", "error"},
     running |-> {"stopping", "error"}, stopping |-> {"stopped", "error"},
     error |-> {"recovering", "stopped"},
     recovering |-> {"running", "error", "stopped"}]

\* Where a job is suspended: reading and writing the PID file; in
\* initializeAll, before the server listens; in the readiness check; before
\* the clean-up of a failed start; in cleanupAll, closing the server and then
\* the managers; reloading the configuration; removing the PID file.
Places == {"idle", "check", "stale", "write", "opening", "ready", "failed",
           "closing", "leaving", "config", "pid"}

Components == {"manager", "server"}

\* `heard': does the daemon still listen to its component manager?  `managed'
\* are the children its process manager knows, `missed' those that a clean-up
\* of it left when it ended, `lost' all the others.  `erred' and `threw' are
\* history.
Daemon == [proc : {"absent", "alive", "exit0", "exit1", "killed"},
           state : States, at : [Jobs -> Places],
           shutdown : {"idle", "save", "drain", "terminate", "stop", "emergency"},
           handlers : BOOLEAN, signalled : BOOLEAN, heard : BOOLEAN,
           timers : Nat, attempts : SUBSET Recoveries,
           components : SUBSET Components, managed : SUBSET Apps,
           missed : SUBSET Apps, lost : SUBSET Apps, erred : BOOLEAN, threw : BOOLEAN]

Absent == [proc |-> "absent", state |-> "stopped", at |-> [j \in Jobs |-> "idle"],
           shutdown |-> "idle", handlers |-> FALSE, signalled |-> FALSE,
           heard |-> TRUE, timers |-> 0, attempts |-> {}, components |-> {},
           managed |-> {}, missed |-> {}, lost |-> {}, erred |-> FALSE, threw |-> FALSE]

TypeOK ==
    /\ daemon \in [Daemons -> Daemon]
    /\ pidFile \in Daemons \cup {None}
    /\ socket \in Daemons \cup {None}

Alive(d) == daemon[d].proc = "alive"

Becomes(d, m) == Alive(d) /\ daemon' = [daemon EXCEPT ![d] = m]

Put(m, j, place) == [m EXCEPT !.at[j] = place]

\* The process is over; its files and its children are not.
Exited(m, code) ==
    [Absent EXCEPT !.proc = code, !.missed = m.missed, !.lost = m.managed \cup m.lost,
                   !.erred = m.erred]

-----------------------------------------------------------------------------
(***************************************************************************)
(* Errors.  Every entry into the error state schedules a recovery.         *)
(***************************************************************************)
ForceError(m) == [m EXCEPT !.state = "error", !.timers = @ + 1, !.erred = TRUE]

\* 'componentError' of the component manager.
ComponentError(m) == IF m.heard /\ m.state # "error" THEN ForceError(m) ELSE m

\* The catch of performStart, up to its first await.
StartFailure(m) == Put([ForceError(m) EXCEPT !.handlers = FALSE], "start", "failed")

\* The catch of performAttemptRecovery.
RecoveryFailure(m, r) ==
    Put(IF m.state = "recovering" THEN ForceError(m) ELSE m, r, "idle")

\* The catch of performStop; shutdown, unless it has given up, fails too.
StopFailure(m) ==
    Put([ForceError(m) EXCEPT !.handlers = FALSE,
             !.shutdown = IF @ = "stop" THEN "emergency" ELSE @], "stop", "idle")

-----------------------------------------------------------------------------
(***************************************************************************)
(* The component manager.                                                  *)
(***************************************************************************)

\* initializeAll up to its first await: a new process manager.
BeginInit(m, j) ==
    Put([m EXCEPT !.components = @ \cup {"manager"}, !.managed = {},
                  !.lost = @ \cup m.managed], j, "opening")

\* All references are dropped; `left' are the children that did not stop.
Drop(m, left) == [m EXCEPT !.components = {}, !.managed = {}, !.lost = @ \cup left]

\* A failed initialisation is rolled back.
InitFailure(m, j, left) ==
    LET n == Drop(ComponentError(m), left) IN
    IF j = "start" THEN StartFailure(n) ELSE RecoveryFailure(n, j)

\* Mutant: an old socket file is not removed before listening.
OpenedBesideOld(d, j) ==
    LET m == daemon[d] IN
    /\ m.at[j] = "opening"
    /\ socket' = IF socket = None THEN d ELSE socket
    /\ Becomes(d, IF "manager" \in m.components
                  THEN Put([m EXCEPT !.components = Components], j,
                           IF j = "start" THEN "ready" ELSE "config")
                  ELSE InitFailure(m, j, {}))
    /\ UNCHANGED pidFile

\* UnixSocketServer.startServer takes the place of whatever is at the path.
\* If the components were cleared meanwhile the next step finds them missing.
Opened(d, j) ==
    LET m == daemon[d] IN
    /\ m.at[j] = "opening"
    /\ socket' = d
    /\ Becomes(d, IF "manager" \in m.components
                  THEN Put([m EXCEPT !.components = Components], j,
                           IF j = "start" THEN "ready" ELSE "config")
                  ELSE InitFailure(m, j, {}))
    /\ UNCHANGED pidFile

OpenFails(d, j) ==
    /\ daemon[d].at[j] = "opening"
    /\ socket' \in {socket, None}
    /\ \E left \in SUBSET daemon[d].managed :
          Becomes(d, InitFailure(daemon[d], j, left))
    /\ UNCHANGED pidFile

\* cleanupAll: the server is closed, which removes the socket file, ...
Close(d, j) ==
    LET m == daemon[d] IN
    /\ m.at[j] = "closing"
    /\ socket' = IF "server" \in m.components THEN None ELSE socket
    /\ Becomes(d, Put([m EXCEPT !.components = @ \ {"server"}], j, "leaving"))
    /\ UNCHANGED pidFile

\* What cleanupAll is followed by.
AfterCleanup(m, j, ok) ==
    IF j = "start" THEN Exited(m, "exit1")
    ELSE IF j = "exit" THEN Exited(m, IF ok THEN "exit0" ELSE "exit1")
    ELSE IF j # "stop" THEN BeginInit(m, j)
    ELSE IF ok THEN Put([m EXCEPT !.handlers = FALSE], j, "pid") ELSE StopFailure(m)

\* Mutant: a clean-up that failed before it stopped anything counts as one that
\* ended.
LeaveAnyway(d, j) ==
    \E left \in SUBSET daemon[d].managed :
        /\ daemon[d].at[j] = "leaving"
        /\ Becomes(d, AfterCleanup([Drop(daemon[d], left) EXCEPT !.heard = FALSE], j, TRUE))
        /\ UNCHANGED <<pidFile, socket>>

\* A clean-up of the process manager that ends is a success even if it left
\* some: it looks once at what runs, and does not ask how the stops went.
Missing(m, left) == [Drop(m, {}) EXCEPT !.missed = @ \cup left]

\* ... then the managers are cleaned up, and all references and listeners are
\* dropped.
Leave(d, j) ==
    \E ok \in BOOLEAN, left \in SUBSET daemon[d].managed :
        LET m == IF ok THEN Missing(daemon[d], left)
                       ELSE Drop(ComponentError(daemon[d]), left) IN
        /\ daemon[d].at[j] = "leaving"
        /\ Becomes(d, AfterCleanup([m EXCEPT !.heard = FALSE], j, ok))
        /\ UNCHANGED <<pidFile, socket>>

\* performHealthChecks: every component is there, and the server listens.
Healthy(m) == m.components = Components

-----------------------------------------------------------------------------
(***************************************************************************)
(* Starting.                                                               *)
(***************************************************************************)
Settled(d) == ~Alive(d) \/ daemon[d].at["start"] = "idle"

Launch(d) ==
    /\ daemon[d].proc = "absent"
    /\ Overlap \/ \A e \in Daemons : Settled(e)
    /\ daemon' = [daemon EXCEPT ![d] =
                    Put([@ EXCEPT !.proc = "alive", !.state = "starting"], "start", "check")]
    /\ UNCHANGED <<pidFile, socket>>

\* ensureNoDaemonRunning
CheckPid(d) ==
    LET m == daemon[d] IN
    /\ m.at["start"] = "check"
    /\ Becomes(d, IF pidFile = None THEN Put(m, "start", "write")
                  ELSE IF Alive(pidFile) THEN StartFailure(m)
                  ELSE Put(m, "start", "stale"))
    /\ UNCHANGED <<pidFile, socket>>

RemoveStale(d) ==
    /\ daemon[d].at["start"] = "stale"
    /\ Becomes(d, Put(daemon[d], "start", "write"))
    /\ pidFile' = None
    /\ UNCHANGED socket

\* writePIDFile, setupHandlers, and initializeAll up to its first await.
WritePid(d) ==
    /\ daemon[d].at["start"] = "write"
    /\ Becomes(d, BeginInit([daemon[d] EXCEPT !.handlers = TRUE], "start"))
    /\ pidFile' = d
    /\ UNCHANGED socket

\* The environment checks, the data directory or the PID file fail.
EnvironmentFails(d) ==
    /\ daemon[d].at["start"] \in {"check", "write"}
    /\ Becomes(d, StartFailure(daemon[d]))
    /\ UNCHANGED <<pidFile, socket>>

\* The readiness check, and the transition to running, which may be invalid,
\* and which a recovery that is under way makes valid again.
Ready(d) ==
    LET m == daemon[d] IN
    /\ m.at["start"] = "ready"
    /\ Becomes(d, IF Healthy(m) /\ "running" \in Transitions[m.state]
                  THEN Put([m EXCEPT !.state = "running", !.attempts = {}], "start", "idle")
                  ELSE StartFailure(m))
    /\ UNCHANGED <<pidFile, socket>>

\* performStartupCleanup: the PID file is removed, whosever it is.
StartupCleanup(d) ==
    /\ daemon[d].at["start"] = "failed"
    /\ Becomes(d, Put(daemon[d], "start", "closing"))
    /\ pidFile' = None
    /\ UNCHANGED socket

-----------------------------------------------------------------------------
(***************************************************************************)
(* Recovery.                                                               *)
(***************************************************************************)
RecoveryTimer(d) ==
    LET m == [daemon[d] EXCEPT !.timers = @ - 1] IN
    /\ daemon[d].timers > 0
    /\ IF m.state = "error" /\ m.attempts # Recoveries
       THEN LET r == CHOOSE r \in Recoveries : r \notin m.attempts IN
            Becomes(d, Put([m EXCEPT !.state = "recovering",
                                     !.attempts = @ \cup {r}], r, "closing"))
       ELSE Becomes(d, m)
    /\ UNCHANGED <<pidFile, socket>>

\* The configuration is loaded again, which stops all processes, or fails;
\* then completeRecovery, whose state check may fail as well.
Reload(d, r) ==
    LET m == daemon[d] IN
    /\ m.at[r] = "config"
    /\ \/ \E left \in SUBSET m.managed :
             Becomes(d, IF m.state = "recovering"
                        THEN Put([m EXCEPT !.state = "running", !.managed = left], r, "idle")
                        ELSE Put([m EXCEPT !.managed = left], r, "idle"))
       \/ Becomes(d, RecoveryFailure(m, r))
    /\ UNCHANGED <<pidFile, socket>>

-----------------------------------------------------------------------------
(***************************************************************************)
(* Shutting down.                                                          *)
(***************************************************************************)
BeginShutdown(m) == [m EXCEPT !.signalled = TRUE, !.shutdown = "save"]

\* SIGTERM or SIGINT; without a handler it ends the process.
Signal(d) ==
    LET m == daemon[d] IN
    /\ Becomes(d, IF ~m.handlers THEN Exited(m, "killed")
                  ELSE IF m.signalled THEN m ELSE BeginShutdown(m))
    /\ UNCHANGED <<pidFile, socket>>

\* Mutant: an exception is left to the recovery.
ExceptionRecovers(d) ==
    LET m == [daemon[d] EXCEPT !.threw = TRUE] IN
    /\ d \in Busy /\ ~daemon[d].threw
    /\ Becomes(d, IF ~m.handlers THEN Exited(m, "killed")
                  ELSE IF m.state = "error" THEN m ELSE ForceError(m))
    /\ UNCHANGED <<pidFile, socket>>

\* An uncaught exception or an unhandled rejection.
Exception(d) ==
    LET m == [daemon[d] EXCEPT !.threw = TRUE]
        n == IF m.state = "error" THEN m ELSE ForceError(m)
    IN  /\ d \in Busy /\ ~daemon[d].threw
        /\ Becomes(d, IF ~m.handlers THEN Exited(m, "killed")
                      ELSE IF m.signalled THEN n ELSE BeginShutdown(n))
        /\ UNCHANGED <<pidFile, socket>>

\* Phases 2 and 3.
SaveState(d) ==
    /\ daemon[d].shutdown = "save"
    /\ Becomes(d, [daemon[d] EXCEPT !.shutdown = "drain"])
    /\ UNCHANGED <<pidFile, socket>>

DrainConnections(d) ==
    /\ daemon[d].shutdown = "drain"
    /\ Becomes(d, [daemon[d] EXCEPT !.shutdown = "terminate"])
    /\ UNCHANGED <<pidFile, socket>>

\* Phase 4 ends: what it found has been stopped, except where that failed.
\* Phase 5 is stop(), which no other state than running has a transition for.
StopProcesses(d) ==
    \E left \in SUBSET daemon[d].managed :
        LET m == [daemon[d] EXCEPT !.managed = left] IN
        /\ m.shutdown = "terminate"
        /\ Becomes(d, IF "stopping" \in Transitions[m.state]
                      THEN Put([m EXCEPT !.state = "stopping", !.shutdown = "stop"],
                               "stop", "closing")
                      ELSE [m EXCEPT !.shutdown = "emergency"])
        /\ UNCHANGED <<pidFile, socket>>

\* The end of performStop, and of the shutdown that awaits it.
StopEnds(d) ==
    LET m == daemon[d] IN
    /\ m.at["stop"] = "pid"
    /\ pidFile' = None
    /\ Becomes(d, IF "stopped" \notin Transitions[m.state] THEN StopFailure(m)
                  ELSE IF m.shutdown = "stop" THEN Exited(m, "exit0")
                  ELSE Put([m EXCEPT !.state = "stopped"], "stop", "idle"))
    /\ UNCHANGED socket

\* executeWithTimeout gives up; what it awaited goes on.
PhaseTimeout(d) ==
    /\ daemon[d].shutdown \in {"save", "drain", "terminate", "stop"}
    /\ Becomes(d, [daemon[d] EXCEPT !.shutdown = "emergency"])
    /\ UNCHANGED <<pidFile, socket>>

\* Mutant: the emergency clean-up is not followed by an exit.
EmergencyStays(d) ==
    /\ daemon[d].shutdown = "emergency"
    /\ Becomes(d, [daemon[d] EXCEPT !.shutdown = "idle", !.handlers = FALSE])
    /\ pidFile' = None
    /\ UNCHANGED socket

\* performEmergencyCleanup, then process.exit(1).
EmergencyExit(d) ==
    /\ daemon[d].shutdown = "emergency"
    /\ Becomes(d, Exited(daemon[d], "exit1"))
    /\ pidFile' = None
    /\ UNCHANGED socket

\* The time-out of the signal handler.
ForceExit(d) ==
    /\ daemon[d].signalled /\ daemon[d].handlers
    /\ Becomes(d, Exited(daemon[d], "exit1"))
    /\ UNCHANGED <<pidFile, socket>>

-----------------------------------------------------------------------------
(***************************************************************************)
(* Clients and the world.                                                  *)
(***************************************************************************)
Serves(d) == Alive(d) /\ socket = d /\ Healthy(daemon[d])

\* No phase of a shutdown refuses requests.
ClientStarts(d, a) ==
    /\ d \in Busy /\ Serves(d)
    /\ Becomes(d, [daemon[d] EXCEPT !.managed = @ \cup {a}])
    /\ UNCHANGED <<pidFile, socket>>

\* handleExitCommand, and its timer: cleanupAll, without the state machine.
\* Bound: one exit command at a time.
ExitCommand(d) ==
    /\ d \in Busy /\ Serves(d) /\ daemon[d].at["exit"] = "idle"
    /\ Becomes(d, Put(daemon[d], "exit", "closing"))
    /\ UNCHANGED <<pidFile, socket>>

ChildEnds(d, a) ==
    /\ a \in daemon[d].managed \cup daemon[d].missed \cup daemon[d].lost
    /\ daemon' = [daemon EXCEPT ![d].managed = @ \ {a}, ![d].missed = @ \ {a},
                                ![d].lost = @ \ {a}]
    /\ UNCHANGED <<pidFile, socket>>

Crash(d) ==
    /\ Becomes(d, Exited(daemon[d], "killed"))
    /\ UNCHANGED <<pidFile, socket>>

-----------------------------------------------------------------------------
Init ==
    /\ daemon = [d \in Daemons |-> IF d \in Earlier THEN Exited(Absent, "killed") ELSE Absent]
    /\ pidFile \in Earlier \cup {None} /\ socket \in Earlier \cup {None}

StartStep(d) ==
    \/ CheckPid(d) \/ RemoveStale(d) \/ WritePid(d) \/ EnvironmentFails(d)
    \/ Ready(d) \/ StartupCleanup(d)

JobStep(d, j) == Opened(d, j) \/ OpenFails(d, j) \/ Close(d, j) \/ Leave(d, j)

ShutdownStep(d) ==
    \/ SaveState(d) \/ DrainConnections(d) \/ StopProcesses(d) \/ StopEnds(d)
    \/ PhaseTimeout(d) \/ EmergencyExit(d) \/ ForceExit(d)

\* File operations and the calls of the managers end; the timers of a shutdown
\* fire.
Progress(d) == StartStep(d) \/ ShutdownStep(d) \/ \E j \in Jobs : JobStep(d, j)

Next ==
    \E d \in Daemons :
        \/ Launch(d) \/ Progress(d)
        \/ RecoveryTimer(d) \/ \E r \in Recoveries : Reload(d, r)
        \/ Signal(d) \/ Exception(d) \/ Crash(d) \/ ExitCommand(d)
        \/ \E a \in Apps : ClientStarts(d, a) \/ ChildEnds(d, a)

SafeSpec == Init /\ [][Next]_vars

Fairness == \A d \in Daemons : WF_vars(Progress(d))

Spec == SafeSpec /\ Fairness

-----------------------------------------------------------------------------
(***************************************************************************)
(* Correctness.                                                            *)
(***************************************************************************)

\* A daemon that met no error and exits with 0 has cleaned up for every child it
\* leaves, though clients may start processes until the server is closed: only
\* what that clean-up itself has missed still runs (see LivingIsShown).
CleanExit ==
    \A d \in Daemons :
        daemon[d].proc = "exit0" /\ ~daemon[d].erred =>
            daemon[d].lost = {}

\* Until a shutdown begins, a daemon that runs with no job of its own under way
\* has its components and can be found: by the PID file and at the socket.
Reachable ==
    \A d \in Daemons :
        LET m == daemon[d] IN
        m.state = "running" /\ ~m.signalled /\ (\A j \in Jobs : m.at[j] = "idle") =>
            pidFile = d /\ socket = d /\ Healthy(m)

\* A signal ends the daemon, whatever it is doing.
SignalEnds == \A d \in Daemons : daemon[d].signalled ~> ~Alive(d)

\* An error ends it too, and so does a start that is refused: no daemon stays
\* behind in the error state, and no recovery brings one back for good.
ErrorEnds == \A d \in Daemons : Alive(d) /\ daemon[d].erred ~> ~Alive(d)

(***************************************************************************)
(* A claim of the repository that the code does not keep (see README).     *)
(***************************************************************************)

\* "Should prevent duplicate daemon processes": one daemon runs at a time,
\* those aside that are about to exit after an error.
Runs(d) == daemon[d].state = "running" /\ ~daemon[d].erred

OneDaemon == \A d, e \in Daemons : Runs(d) /\ Runs(e) => d = e
=============================================================================
