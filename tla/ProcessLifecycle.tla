-------------------------- MODULE ProcessLifecycle --------------------------
(***************************************************************************)
(* The supervision of child processes in the procman daemon:               *)
(*   src/process-manager/process-lifecycle-manager.ts  start, stop,        *)
(*       restart, signal, cleanup and the handlers of a child's events;    *)
(*   managed-process-info.ts, restart-manager.ts  the status of a process  *)
(*       and its restart budget;                                           *)
(*   process-monitor.ts, process-event-forwarding.ts  the memory check     *)
(*       that ends in a restart;                                           *)
(*   process-manager.ts  configuration and the cleanup of the manager.     *)
(*                                                                         *)
(* The daemon is one Node.js event loop.  A macrotask (a timer, an exit    *)
(* event, a request) begins only when the microtasks and nextTick          *)
(* callbacks of the previous one have all run: the guard Settled.  The     *)
(* operating system takes its steps at any time.                           *)
(***************************************************************************)
EXTENDS Naturals, Sequences, FiniteSets

CONSTANTS
    Procs,              \* process names
    Calls,              \* slots for concurrent calls of the manager
    Kids,               \* ChildProcess objects (a fresh one per spawn)
    NoKid,              \* absent child, null pid
    MaxRestartCount,    \* MAX_RESTART_COUNT
    MemoryLimited,      \* the processes with a max_memory_restart
    Requests,           \* the operations requested of the manager
    Faults,             \* what the system may do to a signal, see FaultKinds
    MaxTimers           \* bound: pending auto-restart timers of one process

FaultKinds ==
    { "denied",     \* kill() fails with EPERM: the child changed its uid
      "lingering" } \* its exit is not seen within FORCE_KILL_TIMEOUT of SIGKILL

ASSUME ConstantsAssumption ==
    /\ Procs # {}
    /\ NoKid \notin Kids
    /\ Calls \cap {"none", "default", "spent", "denied", "abandoned"} = {}
    /\ MaxRestartCount \in Nat \ {0}
    /\ MaxTimers \in Nat
    /\ MemoryLimited \subseteq Procs
    /\ Requests \subseteq {"start", "stop", "restart", "signal", "cleanup"}
    /\ Faults \subseteq FaultKinds

VARIABLES
    processes,      \* the names in ProcessManager.processes
    info,           \* Procs -> ManagedProcessInfo
    childProcesses, \* Procs -> the tracked ChildProcess or NoKid
    kid,            \* Kids -> a ChildProcess and its OS process
    call,           \* Calls -> an asynchronous call, where it is suspended
    mutexes,        \* Procs -> the lock of operationMutex
    timers,         \* Procs -> number of pending auto-restart timers
    sampling,       \* Procs -> is a memory sample being awaited?
    manager         \* progress of ProcessManager.cleanup

vars == <<processes, info, childProcesses, kid, call, mutexes, timers,
          sampling, manager>>

-----------------------------------------------------------------------------
(***************************************************************************)
(* Types.                                                                  *)
(***************************************************************************)
Statuses == {"stopped", "starting", "online", "stopping", "errored"}

\* RESTART_WINDOW_TIME against firstFailureTime: null, within, exceeded.
Windows == {"closed", "open", "expired"}

\* ManagedProcessInfo.  Failures at and above MaxRestartCount are told apart
\* by nothing (shouldRestart, the delay's cap), so the count stops there.
Info == [status : Statuses, pid : Kids \cup {NoKid}, failures : 0..MaxRestartCount,
         window : Windows, autoRestart : BOOLEAN]

\* How a child ends: exit code 0, killed by SIGTERM, any other way.
Endings == {"code0", "SIGTERM", "failure"}

\* "unspawned": spawn() failed, its 'error' event is due.  "dead": ended, its
\* 'exit' event is due.  "none": no OS process and no event to come.
OsStates == {"none", "unspawned", "alive", "dead"}

\* The exit listener of a ChildProcess: the handler of
\* setupChildProcessEventHandlers ("default"), the handleExit of a stop in
\* progress (that call), or the handleExit of a stop that is over and ignores
\* the exit: its SIGTERM found no child ("spent") or was refused ("denied"), or
\* it failed because the child outlived SIGKILL ("abandoned").
Listeners == {"none", "default", "spent", "denied", "abandoned"} \cup Calls

Kid == [os : OsStates, name : Procs, ending : Endings, onExit : Listeners]

\* A ChildProcess not made yet, or whose events are all in the past.
NoChild == [os |-> "none", name |-> CHOOSE p \in Procs : TRUE,
            ending |-> "code0", onExit |-> "none"]

Kinds == {"start", "stop", "restart", "signal",
          "autoRestart",        \* startProcess from an auto-restart timer
          "memoryRestart",      \* restartProcess from a memory limit
          "cleanup"}            \* stopProcess from lifecycle.cleanup

Restarts == {"restart", "memoryRestart"}
Starts   == {"start", "autoRestart"}
Stops    == {"stop", "cleanup"}

\* Where a call is suspended: in acquire(); granted the lock; for the 'spawn'
\* or 'error' event; for the exit after SIGTERM; for the exit after SIGKILL;
\* in the pause of a restart; resolved, lock not yet released.
Places == {"idle", "waiting", "granted", "spawning", "terminating", "killing",
           "pausing", "resolved"}

Results == {"none", "success", "failure"}

Call == [at : Places, kind : Kinds, name : Procs, child : Kids \cup {NoKid},
         result : Results]

\* The same seen by the lock.
PlaceInLock(place) ==
    IF place = "idle" THEN "out"
    ELSE IF place = "waiting" THEN "waiting"
    ELSE IF place = "granted" THEN "entering"
    ELSE "inside"

Lock == INSTANCE KeyedMutex
            WITH Keys <- Procs, Callers <- Calls, mutexes <- mutexes,
                 key  <- [c \in Calls |-> call[c].name],
                 at   <- [c \in Calls |-> PlaceInLock(call[c].at)]

Manager == [phase : {"running", "stopping", "cleared", "disposed"},
            toStop : SUBSET Procs,      \* not yet asked to stop
            awaiting : SUBSET Calls]    \* stops Promise.all waits for

TypeOK ==
    /\ processes \subseteq Procs
    /\ info \in [Procs -> Info]
    /\ childProcesses \in [Procs -> Kids \cup {NoKid}]
    /\ kid \in [Kids -> Kid]
    /\ call \in [Calls -> Call]
    /\ mutexes \in [Procs -> Lock!Mutex]
    /\ timers \in [Procs -> Nat]
    /\ sampling \in [Procs -> BOOLEAN]
    /\ manager \in Manager

-----------------------------------------------------------------------------
(***************************************************************************)
(* ManagedProcessInfo and RestartManager as functions of their state.      *)
(***************************************************************************)
NewInfo == [status |-> "stopped", pid |-> NoKid, failures |-> 0,
            window |-> "closed", autoRestart |-> TRUE]

\* setStatus: nothing when the status does not change; at the end of a run
\* the pid is forgotten.
SetStatus(i, s) ==
    IF i.status = s THEN i
    ELSE [i EXCEPT !.status = s,
                   !.pid = IF s \in {"stopped", "errored"} THEN NoKid ELSE @]

\* emitStart(pid); setStatus('online')
Online(i, k) == SetStatus([i EXCEPT !.pid = k], "online")

\* resetRestartFailures, which is all recordRestartSuccess does
ResetFailures(i) == [i EXCEPT !.failures = 0, !.window = "closed"]

RecordFailure(i) ==
    LET j == IF i.window = "expired" THEN ResetFailures(i) ELSE i
        n == IF j.failures < MaxRestartCount THEN j.failures + 1 ELSE j.failures
    IN  [j EXCEPT !.failures = n,
                  !.window = IF @ = "closed" THEN "open" ELSE @,
                  !.autoRestart = @ /\ n < MaxRestartCount]

ShouldRestart(i) == i.autoRestart /\ i.failures < MaxRestartCount

IsUnexpectedExit(i, ending) ==
    /\ i.status # "stopping"
    /\ ending \notin {"code0", "SIGTERM"}

\* The default exit handler's effect on the process info.
AfterExit(i, ending) ==
    IF IsUnexpectedExit(i, ending)
    THEN RecordFailure(SetStatus(i, "errored"))
    ELSE ResetFailures(SetStatus(i, "stopped"))

IsMonitorable(i) == i.status = "online" /\ i.pid # NoKid

-----------------------------------------------------------------------------
(***************************************************************************)
(* The event loop.                                                         *)
(***************************************************************************)

\* Work that belongs to the current turn: microtasks and nextTick callbacks.
InTurn == {"granted", "spawning", "resolved"}

\* lifecycle.cleanup: the Promise.all over the stops has resolved.
StopsDone ==
    manager.phase = "stopping" /\ manager.toStop = {} /\ manager.awaiting = {}

Settled ==
    /\ \A c \in Calls : call[c].at \notin InTurn
    /\ manager.toStop = {}
    /\ ~StopsDone /\ manager.phase # "cleared"

Idle(c) == call[c].at = "idle"

IdleCall(p) == [at |-> "idle", kind |-> "start", name |-> p, child |-> NoKid,
                result |-> "none"]

\* Mutant of Begin: the operation does not take the lock.
BeginUnlocked(c, kind, p) ==
    /\ Idle(c)
    /\ call' = [call EXCEPT ![c] = [at |-> "granted", kind |-> kind, name |-> p,
                                   child |-> NoKid, result |-> "none"]]
    /\ UNCHANGED mutexes

\* A call of withKeyedLock(operationMutex, name, ...).
Begin(c, kind, p) ==
    /\ Idle(c)
    /\ call' = [call EXCEPT ![c] =
                 [at |-> IF mutexes[p].locked THEN "waiting" ELSE "granted",
                  kind |-> kind, name |-> p, child |-> NoKid, result |-> "none"]]
    /\ mutexes' = [mutexes EXCEPT ![p] = Lock!AfterAcquire(@, c)]

Suspend(c, place, k) == call' = [call EXCEPT ![c].at = place, ![c].child = k]

\* The operation's promise settles.
Resolve(c, res) ==
    call' = [call EXCEPT ![c].at = "resolved", ![c].child = NoKid, ![c].result = res]

\* The stop part of a call is over: a stop resolves; a restart fails with it
\* or pauses before the start.
Stopped(c, res) ==
    IF res = "success" /\ call[c].kind \in Restarts
    THEN Suspend(c, "pausing", NoKid)
    ELSE Resolve(c, res)

\* The `finally' of withKeyedLock: release, and resume the next waiter.
Release(c) ==
    LET p == call[c].name IN
    /\ call[c].at = "resolved"
    /\ mutexes' = [mutexes EXCEPT ![p] = Lock!Forget(Lock!AfterRelease(@))]
    /\ call' = [d \in Calls |->
                  IF d = c THEN IdleCall(p)
                  ELSE IF d \in Lock!Resumed(mutexes[p])
                  THEN [call[d] EXCEPT !.at = "granted"]
                  ELSE call[d]]
    /\ manager' = [manager EXCEPT !.awaiting = @ \ {c}]
    /\ UNCHANGED <<processes, info, childProcesses, kid, timers, sampling>>

-----------------------------------------------------------------------------
(***************************************************************************)
(* Starting: startProcessInternal and the events of spawn().               *)
(***************************************************************************)
Fresh(k) == kid[k].os = "none" /\ \A p \in Procs : childProcesses[p] # k

Refuse(c) ==
    /\ Resolve(c, "failure")
    /\ UNCHANGED <<info, childProcesses, kid>>

\* spawn() throws: errored, and the promise resolves in the catch.
SpawnThrows(c, p) ==
    /\ info' = [info EXCEPT ![p] = SetStatus(SetStatus(@, "starting"), "errored")]
    /\ childProcesses' = [childProcesses EXCEPT ![p] = NoKid]
    /\ Resolve(c, "failure")
    /\ UNCHANGED kid

\* spawn() returns a ChildProcess that runs, or that will report an error.
Spawns(c, p) ==
    \E k \in Kids : \E os \in {"alive", "unspawned"} :
        /\ Fresh(k)
        /\ info' = [info EXCEPT ![p] = SetStatus(@, "starting")]
        /\ childProcesses' = [childProcesses EXCEPT ![p] = k]
        /\ kid' = [kid EXCEPT ![k] = [NoChild EXCEPT !.os = os, !.name = p]]
        /\ Suspend(c, "spawning", k)

\* Mutant of StartInternal: the status is not looked at.
StartInternalUnchecked(c) ==
    LET p == call[c].name IN
    p \in processes /\ (SpawnThrows(c, p) \/ Spawns(c, p))

StartInternal(c) ==
    LET p == call[c].name
        startable == p \in processes /\ info[p].status \notin {"online", "starting"}
    IN  \/ ~startable /\ Refuse(c)
        \/ startable /\ SpawnThrows(c, p)
        \/ startable /\ Spawns(c, p)

\* Mutant of SpawnEvent: setupChildProcessEventHandlers is not called.
SpawnEventUnheard(c) ==
    LET p == call[c].name
        k == call[c].child
    IN  /\ call[c].at = "spawning" /\ kid[k].os # "unspawned"
        /\ info' = [info EXCEPT ![p] = Online(@, k)]
        /\ Resolve(c, "success")
        /\ UNCHANGED <<processes, childProcesses, kid, mutexes, timers, sampling, manager>>

\* The 'spawn' event: install the exit handler, go online.
SpawnEvent(c) ==
    LET p == call[c].name
        k == call[c].child
    IN  /\ call[c].at = "spawning" /\ kid[k].os # "unspawned"
        /\ kid' = [kid EXCEPT ![k].onExit = "default"]
        /\ info' = [info EXCEPT ![p] = Online(@, k)]
        /\ Resolve(c, "success")
        /\ UNCHANGED <<processes, childProcesses, mutexes, timers, sampling, manager>>

\* Mutant of ErrorHandler: the status stays as it is.
ErrorHandlerSilent(p) ==
    childProcesses' = [childProcesses EXCEPT ![p] = NoKid] /\ UNCHANGED info

\* The child's 'error' handler, whatever the error.
ErrorHandler(p) ==
    /\ info' = [info EXCEPT ![p] = SetStatus(@, "errored")]
    /\ childProcesses' = [childProcesses EXCEPT ![p] = NoKid]

SpawnErrorEvent(c) ==
    /\ call[c].at = "spawning" /\ kid[call[c].child].os = "unspawned"
    /\ ErrorHandler(call[c].name)
    /\ kid' = [kid EXCEPT ![call[c].child] = NoChild]
    /\ Resolve(c, "failure")
    /\ UNCHANGED <<processes, mutexes, timers, sampling, manager>>

-----------------------------------------------------------------------------
(***************************************************************************)
(* Stopping: stopProcessInternal, its timeouts, and handleExit.            *)
(***************************************************************************)

\* kill() reaches a child that was not reaped yet, unless it is denied.
CanKill(k, denied) == kid[k].os \in {"alive", "dead"} /\ ~denied

Denials == IF "denied" \in Faults THEN BOOLEAN ELSE {FALSE}

AlreadyStopped(c) ==
    /\ Stopped(c, "success")
    /\ UNCHANGED <<info, childProcesses, kid>>

NothingToKill(c, p) ==
    /\ info' = [info EXCEPT ![p] = SetStatus(@, "stopped")]
    /\ Stopped(c, "success")
    /\ UNCHANGED <<childProcesses, kid>>

\* Mutant of Terminate: the exit of the child is not awaited.
TerminateUnawaited(c, p, k) ==
    /\ \E denied \in Denials : CanKill(k, denied)
    /\ info' = [info EXCEPT ![p] = SetStatus(@, "stopped")]
    /\ childProcesses' = [childProcesses EXCEPT ![p] = NoKid]
    /\ Stopped(c, "success")
    /\ UNCHANGED kid

\* SIGTERM is sent; the call takes over the exit event of the child.
Terminate(c, p, k) ==
    /\ \E denied \in Denials : CanKill(k, denied)
    /\ info' = [info EXCEPT ![p] = SetStatus(@, "stopping")]
    /\ kid' = [kid EXCEPT ![k].onExit = c]
    /\ Suspend(c, "terminating", k)
    /\ UNCHANGED childProcesses

\* kill() returns false, after an 'error' event if it was denied: the code
\* takes the child for dead and calls handleExit itself.
TakeForDead(c, p, k) ==
    /\ info' = [info EXCEPT ![p] = SetStatus(@, "stopped")]
    /\ childProcesses' = [childProcesses EXCEPT ![p] = NoKid]
    /\ \E denied \in Denials :
          /\ ~CanKill(k, denied)
          /\ kid' = [kid EXCEPT ![k].onExit = IF denied THEN "denied" ELSE "spent"]
    /\ Stopped(c, "success")

StopInternal(c) ==
    LET p == call[c].name
        k == childProcesses[p]
        ended == p \in processes /\ info[p].status \in {"stopped", "errored"}
        running == p \in processes /\ ~ended
    IN  \/ p \notin processes /\ Refuse(c)
        \/ ended /\ AlreadyStopped(c)
        \/ running /\ k = NoKid /\ NothingToKill(c, p)
        \/ running /\ k # NoKid /\ Terminate(c, p, k)
        \/ running /\ k # NoKid /\ TakeForDead(c, p, k)

\* Mutant of TermTimeout: SIGKILL is taken to work at once.
TermTimeoutResolves(c) ==
    /\ call[c].at = "terminating" /\ Settled
    /\ Stopped(c, "success")
    /\ UNCHANGED <<processes, info, childProcesses, kid, mutexes, timers, sampling, manager>>

\* GRACEFUL_SHUTDOWN_TIMEOUT: send SIGKILL.  If it is denied the 'error'
\* handler runs, and the call goes on waiting.
TermTimeout(c) ==
    /\ call[c].at = "terminating" /\ Settled
    /\ Suspend(c, "killing", call[c].child)
    /\ \/ UNCHANGED <<info, childProcesses>>
       \/ "denied" \in Faults /\ ErrorHandler(call[c].name)
    /\ UNCHANGED <<processes, kid, mutexes, timers, sampling, manager>>

\* Mutants of KillTimeout: `resolved' is not set; the promise never settles.
KillTimeoutUnmarked(c) ==
    LET p == call[c].name IN
    /\ Faults # {}
    /\ call[c].at = "killing" /\ Settled
    /\ info' = [info EXCEPT ![p] = SetStatus(@, "errored")]
    /\ Resolve(c, "failure")
    /\ UNCHANGED <<processes, childProcesses, kid, mutexes, timers, sampling, manager>>

KillTimeoutHangs(c) ==
    LET p == call[c].name IN
    /\ Faults # {}
    /\ call[c].at = "killing" /\ Settled
    /\ info' = [info EXCEPT ![p] = SetStatus(@, "errored")]
    /\ kid' = [kid EXCEPT ![call[c].child].onExit = "abandoned"]
    /\ UNCHANGED <<processes, childProcesses, call, mutexes, timers, sampling, manager>>

\* FORCE_KILL_TIMEOUT passes only when SIGKILL was denied or slow to act: give
\* up; the child stays in childProcesses, its exit will be ignored.
KillTimeout(c) ==
    LET p == call[c].name IN
    /\ Faults # {}
    /\ call[c].at = "killing" /\ Settled
    /\ info' = [info EXCEPT ![p] = SetStatus(@, "errored")]
    /\ kid' = [kid EXCEPT ![call[c].child].onExit = "abandoned"]
    /\ Resolve(c, "failure")
    /\ UNCHANGED <<processes, childProcesses, mutexes, timers, sampling, manager>>

\* sendSignalToProcess with a signal the child may or may not survive.
SignalInternal(c) ==
    LET p == call[c].name
        k == childProcesses[p]
        found == p \in processes /\ k # NoKid
    IN  \/ ~found /\ Refuse(c)
        \/ /\ found /\ CanKill(k, FALSE)
           /\ Resolve(c, "success")
           /\ UNCHANGED <<info, childProcesses, kid>>
        \/ found /\ kid[k].os = "none" /\ Refuse(c)
        \/ /\ found /\ kid[k].os # "none" /\ TRUE \in Denials
           /\ ErrorHandler(p)
           /\ Resolve(c, "failure")
           /\ UNCHANGED kid

\* A granted call runs its operation up to the first await.
Run(c) ==
    /\ call[c].at = "granted"
    /\ \/ call[c].kind \in Starts /\ StartInternal(c)
       \/ call[c].kind \in Stops \cup Restarts /\ StopInternal(c)
       \/ call[c].kind = "signal" /\ SignalInternal(c)
    /\ UNCHANGED <<processes, mutexes, timers, sampling, manager>>

\* The 100 ms between the stop and the start of a restart are over.
PauseOver(c) ==
    /\ call[c].at = "pausing" /\ Settled
    /\ StartInternal(c)
    /\ UNCHANGED <<processes, mutexes, timers, sampling, manager>>

-----------------------------------------------------------------------------
(***************************************************************************)
(* Requests, exit events, timers, the memory check.                        *)
(***************************************************************************)

\* configureProcess / initializeProcess
Configure(p) ==
    /\ Settled /\ manager.phase = "running"
    /\ p \notin processes
    /\ processes' = processes \cup {p}
    /\ info' = [info EXCEPT ![p] = NewInfo]
    /\ UNCHANGED <<childProcesses, kid, call, mutexes, timers, sampling, manager>>

Request(c, kind, p) ==
    /\ Settled
    /\ Begin(c, kind, p)
    /\ UNCHANGED <<processes, info, childProcesses, kid, timers, sampling, manager>>

\* The operating system: a child ends, of itself or by a signal.  Bound: it
\* does not crash while MaxTimers restarts of its name are pending.
Ends(k, ending) ==
    /\ kid[k].os = "alive"
    /\ ending = "failure" => timers[kid[k].name] < MaxTimers
    /\ kid' = [kid EXCEPT ![k].os = "dead", ![k].ending = ending]
    /\ UNCHANGED <<processes, info, childProcesses, call, mutexes, timers,
                   sampling, manager>>

\* The exit handler of setupChildProcessEventHandlers.
DefaultExit(k) ==
    LET p == kid[k].name
        i == AfterExit(info[p], kid[k].ending)
        again == IsUnexpectedExit(info[p], kid[k].ending) /\ ShouldRestart(i)
    IN  /\ kid[k].onExit = "default"
        /\ info' = [info EXCEPT ![p] = i]
        /\ childProcesses' = [childProcesses EXCEPT ![p] = NoKid]
        /\ timers' = [timers EXCEPT ![p] = IF again THEN @ + 1 ELSE @]
        /\ UNCHANGED call

\* handleExit of the stop in progress.
HandleExit(k) ==
    LET p == kid[k].name IN
    /\ kid[k].onExit \in Calls
    /\ info' = [info EXCEPT ![p] = SetStatus(@, "stopped")]
    /\ childProcesses' = [childProcesses EXCEPT ![p] = NoKid]
    /\ Stopped(kid[k].onExit, "success")
    /\ UNCHANGED timers

IgnoreExit(k) ==
    /\ kid[k].onExit \in {"none", "spent", "denied", "abandoned"}
    /\ UNCHANGED <<info, childProcesses, timers, call>>

ExitEvent(k) ==
    /\ kid[k].os = "dead" /\ Settled
    /\ DefaultExit(k) \/ HandleExit(k) \/ IgnoreExit(k)
    /\ kid' = [kid EXCEPT ![k] = NoChild]
    /\ UNCHANGED <<processes, mutexes, sampling, manager>>

\* An auto-restart timer fires, whatever happened since it was set.
TimerFires(c, p) ==
    /\ Settled /\ timers[p] > 0
    /\ Begin(c, "autoRestart", p)
    /\ timers' = [timers EXCEPT ![p] = @ - 1]
    /\ UNCHANGED <<processes, info, childProcesses, kid, sampling, manager>>

\* RESTART_WINDOW_TIME passes after the first failure.
WindowExpires(p) ==
    /\ info[p].window = "open"
    /\ info' = [info EXCEPT ![p].window = "expired"]
    /\ UNCHANGED <<processes, childProcesses, kid, call, mutexes, timers,
                   sampling, manager>>

\* checkAllProcessesMemory up to its await ...
SampleMemory(p) ==
    /\ Settled /\ manager.phase = "running"
    /\ p \in processes \cap MemoryLimited /\ ~sampling[p]
    /\ IsMonitorable(info[p]) /\ childProcesses[p] # NoKid
    /\ sampling' = [sampling EXCEPT ![p] = TRUE]
    /\ UNCHANGED <<processes, info, childProcesses, kid, call, mutexes, timers,
                   manager>>

\* ... and after it: within the limit, or restarting is not enabled,
MemoryAccepted(p) ==
    /\ Settled /\ sampling[p]
    /\ sampling' = [sampling EXCEPT ![p] = FALSE]
    /\ UNCHANGED <<processes, info, childProcesses, kid, call, mutexes, timers,
                   manager>>

\* or over the limit: 'process:memory-limit' requests a restart.
MemoryLimitExceeded(c, p) ==
    /\ Settled /\ sampling[p]
    /\ p \in processes /\ info[p].autoRestart
    /\ Begin(c, "memoryRestart", p)
    /\ sampling' = [sampling EXCEPT ![p] = FALSE]
    /\ UNCHANGED <<processes, info, childProcesses, kid, timers, manager>>

-----------------------------------------------------------------------------
(***************************************************************************)
(* ProcessManager.cleanup: lifecycle.cleanup stops what runs and forgets   *)
(* the children, then the infos are disposed of and the maps are cleared.  *)
(***************************************************************************)

\* Bound: there are idle slots for the stops it requests.
CleanupBegin ==
    LET running == {p \in processes : info[p].status \in {"online", "starting"}} IN
    /\ "cleanup" \in Requests
    /\ Settled /\ manager.phase = "running"
    /\ Cardinality(running) <= Cardinality({c \in Calls : Idle(c)})
    /\ manager' = [manager EXCEPT !.phase = "stopping", !.toStop = running]
    /\ UNCHANGED <<processes, info, childProcesses, kid, call, mutexes, timers,
                   sampling>>

CleanupStop(c, p) ==
    /\ p \in manager.toStop
    /\ Begin(c, "cleanup", p)
    /\ manager' = [manager EXCEPT !.toStop = @ \ {p}, !.awaiting = @ \cup {c}]
    /\ UNCHANGED <<processes, info, childProcesses, kid, timers, sampling>>

CleanupCleared ==
    /\ StopsDone
    /\ childProcesses' = [p \in Procs |-> NoKid]
    /\ manager' = [manager EXCEPT !.phase = "cleared"]
    /\ UNCHANGED <<processes, info, kid, call, mutexes, timers, sampling>>

\* Mutant of CleanupDisposed: the map of processes is not cleared.
CleanupDisposedKeeps ==
    /\ manager.phase = "cleared"
    /\ manager' = [manager EXCEPT !.phase = "disposed"]
    /\ UNCHANGED <<processes, info, childProcesses, kid, call, mutexes, timers, sampling>>

\* In the same turn: the other parts clean up without awaiting anything.
CleanupDisposed ==
    /\ manager.phase = "cleared"
    /\ info' = [p \in Procs |-> IF p \in processes THEN NewInfo ELSE info[p]]
    /\ processes' = {}
    /\ manager' = [manager EXCEPT !.phase = "disposed"]
    /\ UNCHANGED <<childProcesses, kid, call, mutexes, timers, sampling>>

-----------------------------------------------------------------------------
Init ==
    /\ processes = {}
    /\ info = [p \in Procs |-> NewInfo]
    /\ childProcesses = [p \in Procs |-> NoKid]
    /\ kid = [k \in Kids |-> NoChild]
    /\ call = [c \in Calls |-> IdleCall(NoChild.name)]
    /\ mutexes = [p \in Procs |-> Lock!FreshMutex]
    /\ timers = [p \in Procs |-> 0]
    /\ sampling = [p \in Procs |-> FALSE]
    /\ manager = [phase |-> "running", toStop |-> {}, awaiting |-> {}]

\* The rest of a turn, for one call.
Microtask(c) ==
    \/ Run(c)
    \/ SpawnEvent(c)
    \/ SpawnErrorEvent(c)
    \/ Release(c)
    \/ \E p \in Procs : CleanupStop(c, p)

\* The timers a call has set for itself.
OwnTimer(c) == TermTimeout(c) \/ KillTimeout(c) \/ PauseOver(c)

Next ==
    \/ \E c \in Calls : Microtask(c) \/ OwnTimer(c)
    \/ \E c \in Calls, p \in Procs :
          \/ \E kind \in Requests \ {"cleanup"} : Request(c, kind, p)
          \/ TimerFires(c, p)
          \/ MemoryLimitExceeded(c, p)
    \/ \E k \in Kids : ExitEvent(k) \/ \E ending \in Endings : Ends(k, ending)
    \/ \E p \in Procs :
          Configure(p) \/ WindowExpires(p) \/ SampleMemory(p) \/ MemoryAccepted(p)
    \/ CleanupBegin \/ CleanupCleared \/ CleanupDisposed

SafeSpec == Init /\ [][Next]_vars

\* Where the system has no faults, SIGKILL ends a child.
KillTakesEffect(c) ==
    /\ Faults = {}
    /\ call[c].at = "killing"
    /\ \E ending \in Endings : Ends(call[c].child, ending)

\* Turns finish.  The event loop serves every due timer and event sooner or
\* later, though other macrotasks keep coming between: strong fairness.
Fairness ==
    /\ \A c \in Calls : WF_vars(Microtask(c)) /\ SF_vars(OwnTimer(c))
    /\ \A c \in Calls : WF_vars(KillTakesEffect(c))
    /\ \A k \in Kids : SF_vars(ExitEvent(k))
    /\ \A p \in Procs : SF_vars(\E c \in Calls : TimerFires(c, p))
    /\ WF_vars(CleanupCleared) /\ WF_vars(CleanupDisposed)

Spec == SafeSpec /\ Fairness

-----------------------------------------------------------------------------
(***************************************************************************)
(* Correctness.                                                            *)
(***************************************************************************)
Alive(p) == {k \in Kids : kid[k].os = "alive" /\ kid[k].name = p}

\* Its SIGTERM was denied: the stop has reported it stopped all the same.
Denied(k) == kid[k].onExit = "denied"

\* It outlived SIGKILL: the stop has reported that it failed.
Abandoned(k) == kid[k].onExit = "abandoned"

\* The calls that wait for the exit of a child they have signalled.
Stopping(p) ==
    {c \in Calls : call[c].name = p /\ call[c].at \in {"terminating", "killing"}}

\* The manager still knows its children (before cleanup clears its maps).
InService == manager.phase \in {"running", "stopping"}

\* At most one operation of a name is between its acquire and its release:
\* stop, start and restart of one process never overlap.
OneOperationPerProcess ==
    \A c, d \in Calls :
        /\ call[c].at \notin {"idle", "waiting"}
        /\ call[d].at \notin {"idle", "waiting"}
        /\ call[c].name = call[d].name
        => c = d

\* The calls use operationMutex as KeyedMutex specifies it.
UsesKeyedMutex == Lock!SafeSpec

\* Where a stop has taken over the exit event of a child, that stop is still
\* waiting for it: no exit is handed to a call that has moved on.
ListenerWaits ==
    \A k \in Kids : kid[k].onExit \in Calls =>
        LET c == kid[k].onExit IN
        call[c].at \in {"terminating", "killing"} /\ call[c].child = k

\* "starting" and "stopping" are never left behind: while a process shows
\* one of them, a call is in progress that will move it on, and a stopping
\* call is the one listener of the exit it waits for.
TransientStatusHasOwner ==
    \A p \in Procs :
        /\ info[p].status = "starting" =>
             \E c \in Calls : call[c].name = p /\ call[c].at = "spawning"
        /\ info[p].status = "stopping" =>
             \E c \in Stopping(p) : kid[call[c].child].onExit = c

\* A process is online only with a tracked child of its own, under that
\* child's pid, whose exit event is still to come and will be handled.
OnlineIsTracked ==
    \A p \in Procs : InService /\ info[p].status = "online" =>
        LET k == childProcesses[p] IN
        /\ k \in Kids
        /\ info[p].pid = k
        /\ kid[k].name = p /\ kid[k].os \in {"alive", "dead"}
        /\ kid[k].onExit = "default"

\* Until cleanup clears the maps no living child is forgotten: it is tracked,
\* or a stop waits for its exit, or a stop of it failed because it outlived
\* SIGKILL, or its SIGTERM was denied and the stop took it for dead.  No other
\* interleaving loses one (LivingIsShown is about those two).
NoChildForgotten ==
    \A p \in Procs : \A k \in Alive(p) :
        InService => \/ childProcesses[p] = k
                     \/ kid[k].onExit \in Stopping(p)
                     \/ Abandoned(k) \/ Denied(k)

\* Until then two children of one process run side by side only where one of
\* them outlived the SIGKILL of a stop that failed, or its SIGTERM was denied
\* and the stop took it for dead (LivingIsShown is about those two).
OneChildPerProcess ==
    InService => \A p \in Procs : \A k, l \in Alive(p) :
        k # l => \E older \in {k, l} : Abandoned(older) \/ Denied(older)

\* A call that ends the stopping of p with success: a stop resolves, a restart
\* goes on to its pause.
EndsStop(c, p) ==
    /\ call[c].kind \in Stops \cup Restarts /\ call[c].name = p
    /\ call[c].at \in {"granted", "terminating", "killing"}
    /\ call'[c].at = "pausing" \/ call'[c].result = "success"

\* When a call has stopped a process, no child of it runs but those on which an
\* EARLIER stop failed, and those whose SIGTERM was denied, to this stop or to
\* an earlier one.
StopMeansDead ==
    [][ InService => \A c \in Calls, p \in Procs :
          EndsStop(c, p) =>
            \A k \in Alive(p)' : Abandoned(k) \/ Denied(k)' ]_vars

\* What the code says where kill() returns false, "Process already died": a
\* stop that succeeds leaves no living child.  A denied kill() refutes it.
StoppedIsDead ==
    [][ InService => \A c \in Calls, p \in Procs :
          EndsStop(c, p) => Alive(p)' = {} ]_vars

\* What the documentation says of the states and of the end of the daemon: what
\* is "stopped" or "errored" does not run, and the clean-up stops everything; so
\* a child runs only while its process is there and shows it.  It does not hold:
\* see the run `unshown'.
LivingIsShown ==
    \A p \in Procs : Alive(p) # {} =>
        p \in processes /\ info[p].status \in {"starting", "online", "stopping"}

\* After the manager was disposed of nothing is started any more: pending
\* auto-restarts, queued calls and pausing restarts find no process.
NothingStartsAfterCleanup ==
    [][ manager.phase = "disposed" =>
          \A p \in Procs : Alive(p)' \subseteq Alive(p) ]_vars

\* Every call comes back, whatever it waits for: the lock, an event, a child
\* that ignores signals.
EveryCallReturns == \A c \in Calls : call[c].at = "waiting" ~> call[c].at = "idle"

\* The abstract account of supervision, with the living children for `live'.
Supervise == INSTANCE Supervision
    WITH status <- [p \in Procs |-> info[p].status],
         live   <- [p \in Procs |-> Alive(p)]

\* Without faults of the system the manager implements it.
ImplementsSupervision == Supervise!Spec
=============================================================================
