# A verification development of procman

procman supervises the processes of a development machine: a daemon starts,
stops and restarts them, keeps their logs and restarts what crashes or grows too
large; a command line talks to the daemon over a socket.  This directory holds
TLA+ models of the daemon's logic, the TLC configurations that check them, and
proofs, checked by TLAPS, of what matters most about them.  Source paths below
are relative to the repository.

`PROJECT.json` is the index: components, runs, the source lines each definition
models, the hazards of the code with the properties that watch them, the
mutants that show each property can fail, the findings and the theorems.

## 1. Inventory

The daemon is one Node.js process: one event loop, no threads.  Concurrency
comes from `await`: between two of its awaits a handler runs alone; at each of
them every other handler, timer, child event and request may run.

| Component | State | Operations | What is hard |
|---|---|---|---|
| Keyed lock (`process-manager/utils/mutex.ts`) | a map name -> (locked, queue of waiters) | acquire, release, `withKeyedLock` | hand-over to a waiter that runs later; entries deleted while in use |
| Lifecycle manager (`process-lifecycle-manager.ts`) | the map of child processes, the lock; listeners and timers of each child | start, stop, restart, signal, cleanup; 'spawn', 'error', 'exit'; two kill timeouts; backoff timers | exits racing timeouts; listeners replaced; stale timers; kill that fails; cleanup beside operations in progress |
| Process info, restart policy (`managed-process-info.ts`, `restart-manager.ts`) | status, pid, failures, window, autoRestart | setStatus, recordRestartFailure, shouldRestart | count, window and flag interact |
| Memory check (`process-monitor.ts`, `process-event-forwarding.ts`) | timers | sample, limit -> restart | the process may change while the sample is awaited |
| Process manager (`process-manager.ts`) | the maps of processes and configurations | configure, delegate, cleanup | order of the phases of cleanup |
| Groups and batches (`process-group-manager.ts`, `process-batch-operations.ts`) | the map of dependencies | by namespace, in batches, by dependency | cycles, levels, one failing of many |
| Process commands (`daemon/process-command-handlers.ts`, `component-daemon-interface.ts`) | none of their own | load, start, stop, restart, list, exit | several commands, timers and crashes on the same processes; a load that fails half-way |
| Persistence (`process-persistence.ts`) | state file, backup, temporary file, debounce timer | debounced and forced save, load | concurrent saves, crash between two steps |
| Task manager (`task-manager.ts`) | tasks, output, waits | run, kill, log with wait, cleanup | waits against completion, timeout and cleanup |
| IPC server, client, protocol (`daemon/ipc-*.ts`, `unix-socket-*.ts`, `message-protocol.ts`, `reconnection-system.ts`) | connections, pending requests, buffers, attempts | connect, send, answer, heartbeat, reconnect, stop | split messages, late answers, two chains of attempts |
| Daemon lifecycle (`daemon/procman-daemon.ts`, `daemon-lifecycle.ts`, `daemon-state-manager.ts`, `shutdown-orchestrator.ts`, `signal-handler.ts`, `pid-manager.ts`, `component-manager.ts`) | daemon state, PID file, socket, components | start, stop, shutdown in phases, recover, exit command | two daemons, recovery and shutdown together, phases that time out |
| Resource management (`daemon/resource-manager.ts`, `disposal-guard.ts`) | tracked resources | track, dispose | disposal twice, partial failure |
| Logs (`services/app-logger.ts`, `log-*.ts`, `process-log-integration.ts`) | buffers with a timer, files, loggers by application | capture, flush, retry, clear, close, read backward | flushes not awaited, backpressure, chunk boundaries |
| Configuration (`config/*.ts`, `shared/config.ts`) | loaded configurations (watcher: debounce timer) | load, validate, normalize, merge, compare, watch | several checks of the same value that do not agree |
| Command line (`cli/*.ts`) | none | one request each; load may start the daemon | exit codes; fixed time-out against longer operations |
| Crash recovery, orphans, zombies | - | - | not wired into the daemon |

Interactions.  The command handlers of the IPC server call the process, task and
log managers.  The process manager owns the maps and hands them to the lifecycle
manager, the monitor, the groups and persistence, which share them by reference.
Children report to the lifecycle manager by events; the monitor reports memory
by an event that the process manager turns into a restart; the daemon's shutdown
calls the managers' cleanup, which saves the state and then stops the children.

What makes each component correct:

* lock: two operations on a name never overlap, no waiter is lost, first come
  first served;
* lifecycle: the status of a process is a truthful account of its child, at most
  one child per process, no child forgotten, every call returns, every exit is
  handled once;
* restart policy: crashes restart the process, up to the limit and no further;
* cleanup: everything is stopped before it is forgotten, nothing starts later;
* persistence: a readable state survives a crash at any step;
* tasks: every wait ends, with the task's end when there was one;
* IPC: every request is answered once or fails once; no message is lost;
* daemon: one daemon at a time, legal states only, shutdown ends;
* logs: no line lost, repeated or reordered without notice;
* commands: every one is answered, and what it asked to stop is gone by then;
* configuration: what the validator accepts can be applied;
* command line: the exit code tells what the daemon has done.

## 2. Modules

| Module | What it is |
|---|---|
| `FifoLock` | abstract: one line of callers per key, served from the head |
| `KeyedMutex` | the lock of `mutex.ts` and `withKeyedLock`; refines `FifoLock` |
| `KeyedMutexProofs` | its theorems |
| `MCKeyedMutex` | TLC instance |
| `Supervision` | abstract: status and living children, no calls, locks or timers |
| `ProcessLifecycle` | lifecycle manager, process info, restart policy, memory check, cleanup; uses `KeyedMutex`, refines `Supervision` |
| `ProcessLifecycleProofs` | its theorems |
| `MCProcessLifecycle` | TLC instance, symmetry |
| `TaskManager` | the one-shot tasks and the requests that wait for their output |
| `TaskManagerProofs` | its theorems |
| `MCTaskManager` | TLC instance |
| `StateStore` | abstract: one stored state, replaced as a whole, and loads of it |
| `Persistence` | saves, loads, cleanup and crashes of `process-persistence.ts`; refines `StateStore` |
| `PersistenceProofs` | its theorems |
| `MCPersistence` | TLC instance |
| `Daemon` | start, recovery and shutdown of daemons that share a PID file and a socket path |
| `DaemonProofs` | its theorems |
| `MCDaemon` | TLC instance |
| `Call` | abstract: requests, the commands run for them, one settlement each |
| `Wire` | framing: messages as pieces of a byte stream, and the parsers of both ends |
| `Socket` | the connections between client and daemon, as Node and the kernel keep them |
| `IpcClient` | `ipc-client-base.ts`, `unix-socket-client.ts`: connect, requests, heartbeat, reconnection |
| `IpcServer` | `ipc-server-base.ts`, `base-socket-connection.ts`, `component-streaming.ts`: accept, read, answer, stream, stop |
| `Ipc` | composes both over the sockets; refines `Call` |
| `IpcProofs` | its theorems |
| `MCIpc` | TLC instance |
| `LogSink` | abstract: what becomes of a line of output |
| `Logs` | the log of one application: buffer, timer, flushes, retries, reload, close; refines `LogSink` |
| `LogReader` | reading the last lines of a log file backward, in chunks; a pure algorithm |
| `LogProperties` | the property of `LogReader`, as an invariant of `Logs` |
| `LogsProofs` | theorems about `Logs` and `LogReader` |
| `MCLogs` | TLC instance of `LogProperties` |
| `AppConfigs` | what is checked of a configuration, where, and what is derived from it; pure |
| `ProcessGroups` | targets, namespaces, dependency levels; pure |
| `CommandLine` | arguments, requests and exit codes of `src/cli`; pure |
| `Commands` | load, start, stop and restart of several processes at once; uses `Supervision`, `AppConfigs`, `ProcessGroups` |
| `CommandProperties` | the properties of the three pure modules, as invariants of `Commands` |
| `CommandsProofs` | theorems about `Commands`, `AppConfigs`, `ProcessGroups` and `CommandLine` |
| `MCCommands` | TLC instance of `CommandProperties` |

`ProcessLifecycle` and `KeyedMutex` are composed; so are `IpcClient`,
`IpcServer` and `Socket`, in `Ipc`; `Commands` stands on `Supervision`, which
`ProcessLifecycle` is shown to implement.  `TaskManager` and
`Persistence` stand alone: in the code they share no state with the lifecycle
manager but the process map, of which `Persistence` keeps a version number.
`Daemon` sees the managers from outside: as components that start, serve, and
stop children or fail to.

Definitions that a comment calls a mutant are single faults of the
definition they are named after; no specification uses them.  They are put in
its place to see each property fail.

### KeyedMutex

A caller of `withKeyedLock` is `out`, `waiting` in acquire(), `entering` (granted;
its continuation is due), or `inside` its operation.  `Acquire` is everything up
to the await, `Enter` the continuation, `Release` the `finally`: the release of
the Mutex, the resumption of the first waiter and the deletion of the entry.  A
missing entry and a fresh Mutex behave alike, so deletion is modelled as
replacement by a fresh Mutex: deleting too early is then visible as a lost queue
or a lock opened while held.

### ProcessLifecycle

State: `processes`, `info`, `childProcesses`, `mutexes` are the maps of the code.
`kid` holds the ChildProcess objects: the state of the OS process behind it and
which exit listener it has (`default`; the call whose `handleExit` replaced it; a
`handleExit` whose `resolved` is set: `spent` where kill() returned false for a dead
child, `denied` where it did for a living one, the stop succeeding in both; `abandoned` where the stop gave up after SIGKILL and failed).  `call` holds the asynchronous
calls: where each is suspended.  `timers` counts pending backoff timers,
`sampling` the awaited memory samples, `manager` the progress of cleanup.

Actions are the pieces of code between two awaits.  `Run` is a call granted the
lock that runs to its first await, whichever return or await it reaches;
`SpawnEvent`, `SpawnErrorEvent` the events of spawn(); `ExitEvent` one 'exit'
event with whichever listener the child has; `TermTimeout`, `KillTimeout` and
`PauseOver` the timers of a call; `TimerFires` a backoff timer; `SampleMemory`,
`MemoryAccepted` and `MemoryLimitExceeded` the two sides of the memory check's
await; `CleanupBegin`, `CleanupStop`, `CleanupCleared`, `CleanupDisposed` the
cleanup.  `Ends` (a child dies) and `WindowExpires` are the environment.

The event loop: microtasks and nextTick callbacks run before the next timer,
I/O event or request.  `Settled` says none is due and guards every action that
begins a macrotask.  The 'spawn' and spawn 'error' events of Node are nextTick
callbacks, so `spawning` belongs to the turn.  The child may die at any time.

What is abstracted: pids are the identities of the children; delays are any
length, so timers fire in any order; failures are counted up to the limit, above
which the code tells nothing apart; arguments, environment, output and messages
are left out.  The status `max-memory` is declared in the code and never set.

Two faults of the system are parameters (`Faults`): `denied` (kill() fails with
EPERM, in which case Node also emits 'error') and `lingering` (the child outlives
SIGKILL by FORCE_KILL_TIMEOUT).  Runs say which they assume.

### TaskManager

State: `listed` is the keys of the map `tasks`; `task` the ManagedTask objects,
which a request may still hold when the map has lost them; `child` the
ChildProcess and what its pipes hold; `wait` the calls of `getTaskLog`, each in a
slot; `listening` says which of them are registered on the events of their task.

There is no await inside a handler, so every action is a whole one: `RunTask`,
`KillDenied` (a `killTask` that is not denied only signals, and the child may end
at any time), `Query` and `GetLog` (`getTaskLog` without and with a condition),
`Timeout` (the timer of a wait), `Read`, `ExitEvent` and `ErrorEvent` (the events
of the child), `CleanupCompletedTasks` and `Dispose`.  `Write` and `Ends` are the
child, `Expire` is COMPLETED_TASK_TTL_MS passing, `Collect` the answer leaving.
`AfterRead` is the loop of the 'data' handlers with its limit, one shift for each
line pushed; `Met` is the test in `onOutput` and `LogResponse` is
`buildLogResponse`.

What is abstracted: a line matches the pattern of a wait or not (that different
waits have different patterns tells nothing apart, each is looked at alone); the
two pipes are one, for the code appends both to one output; a chunk may end
inside a line, which the code then keeps as two lines, modelled as lines that do
not match (one that does is like a line that was not cut); delays are of any length.  `pushed` counts every line ever put
into the output; only the properties read it.

### Persistence

A file is an inode under a name: a writer keeps the inode it opened, so a rename
moves the file under a writer that has not finished.  `content` is the version
of the process map that was saved, or `Torn`: what a truncation, an unfinished
write or the mixture of two writes leaves, which JSON.parse refuses.  `save` is
where each call of `forceSaveState` is suspended.  Its steps are the awaits of
the code: backup (`CopyBegin`, `CopyEnd`, and `CopyFails`, which the code logs and
ignores), temporary file (`WriteBegin`, `WriteEnd`), `Rename`; `Fail` is any of
them failing.  `DebouncedSave` is the timer that `SaveState` sets, `CleanupBegin` and
`CleanupEnd` the part of `ProcessManager.cleanup` that saves and closes.

`Crash` takes the daemon away between any two steps and leaves the files as they
are: a crash of the process, not of the machine, whose file system may lose what
it has acknowledged.  `Restart` is the next daemon, with a process map of its own:
`initialize` loads before anything else.  `ReadState` is that load: a missing file is a
first run, a torn one sends it to the backup (`LoadFromBackup`), and a file or backup
that is there but cannot be read gives an empty result with an error (`LoadError`),
which the model chooses freely.  `saveState`, `initialize` and `forceSaveState` are
methods of the process manager that the daemon does not call at present: in it only
the forced save of cleanup runs.  They are modelled because they are the component's
interface, and the proofs hold with or without them.

`Savers` is the number of saves that can be in progress together; the code does not
limit it.  The field `shared` of a save says that another one ran at the same time;
only properties read it.  `StateStore` knows of overlaps: during one, and until the next
save that meets no other, anything may be left in the file; at all other times it is
replaced as a whole and never by an older state.

### Daemon

A daemon is a process, used once; `daemon[d]` holds what it has in memory:
`state` is the DaemonStateManager's, with its table in `Transitions`, `at` says where each asynchronous job is
suspended (the start, a stop, the exit command and each attempt at recovery may
be under way together), `shutdown` is the phase of `ProcmanDaemon.shutdown`,
`signalled` is the signal handler's isShuttingDown, `timers` counts the
recoveries that an entry into the error state has scheduled, `attempts` is
recoveryAttempts, as the set of attempts made.  The five components are two, the
managers and the server; the log manager, the configuration loader and the
command handlers keep nothing that the properties see.  `managed` are the
children that the process manager of the daemon knows, `missed` those that a clean-up
of it which ended went over and left, `lost` all others it no longer knows.  `pidFile` and `socket` are the two files that daemons share.

`CheckPid`, `RemoveStale`, `WritePid`, `Ready` are the steps of `performStart`,
`EnvironmentFails` any of its failures before the components; `Opened` and
`OpenFails` end `initializeAll` (with its rollback), `Close` and `Leave` are the two
halves of `cleanupAll`, and `AfterCleanup` what the job that called it does next.
`RecoveryTimer` and `Reload` are the recovery.  `Signal` and `Exception` are the
handlers of `SignalHandler` with the 'gracefulShutdown' listener of the daemon;
`SaveState`, `DrainConnections`, `StopProcesses`, then `Close`, `Leave` and
`StopEnds` are its phases, `PhaseTimeout` any phase timing out while its work
goes on, `EmergencyExit` and `ForceExit` the two forced ends.  `ClientStarts` and
`ExitCommand` are requests, possible while the server listens: no phase of a
shutdown refuses them.  `ChildEnds` and `Crash` are the environment.

Read from the code and kept in the model: `canStop` accepts the error state but
the table of transitions has no step from error to stopping, so a shutdown after
an error always ends in the emergency clean-up with exit code 1; `performStop`
ends with a transition that an error during the clean-up makes invalid; the
`exit` command cleans the components up without the state machine, and leaves the
PID file behind; the listeners of the component manager are gone after its first
clean-up.  The phases may take 40 s together but are forced to end after 30 s,
which the model covers because delays are of any length.

What is abstracted: process ids are never used again (a stale PID file that names
a stranger's process refuses every start); a PID file that is empty because it is
being written reads like one not yet written; failures of the components'
clean-up are reported at its end; the removal of the PID file by a failed start
comes before its clean-up rather than beside it; an exit command comes once
at a time.  Children are in a steady state, not in the middle of an operation: that a
clean-up looks once, and asks of no stop how it went, is modelled by what it may leave
(`Missing`: any of them, though it counts as a success).  The readiness check is made once,
at any time, where the code repeats it.

### Ipc

A connection (`Socket`) has two ends, each dialing, open, ended, closing or closed,
and the bytes on their way in both directions, as pieces of messages: a small one
is one piece, a large one has a head and a tail that a chunk may tear apart.  `Data`
and `Read` are 'data' events, with any prefix of what has arrived as their chunk.
`Wire.ParseMessages` is what both sides make of a chunk: they take it by itself, so
a message torn apart is lost (the request then fails by its time-out).

The client has a status, a current socket and the sockets its handlers hang on,
the flags of its timers, the promises of `sendCommand` (`call`) and the map
`pendingRequests`.  `Connect`, `RetryTimer`, `Connected`, `DialTimeout`,
`Send`, `RequestTimeout`, `Data`, `HeartbeatTick`, `Disconnect`, and the
'close', 'end' and 'error' events of a socket are its turns.  As the command line
it dials once, does not reconnect, and dies of an 'error' event that has no listener.
The server has its phase, `activeConnections` (`listed`), the state of each
connection (`conn`), what is left of the chunks being handled (`work`) and the
streaming sessions.  `Accept`, `Read`, `Run` (a handler), `Reply`, the events
of a connection, `LogEntry` (a line for the followers) and the steps of `stop()` are
its turns.  Either process may be killed at any moment; the daemon is launched again
up to `Launches` times.

What is abstracted: looking for the socket file and dialing are one step; one dial
and one `disconnect()` at a time; a handler's outcome, and whether there is one for
the type of the command, are chosen when it answers; pings are left off the wire, for
the daemon answers them with a message of type "response", which the client's
handler of "pong" never sees; at most one entry is on its way to a client; delays are
of any length.

### Logs and LogReader

One application and the `AppLogger` objects made for it, one at a time the entry of
`appLoggers` (`current`), others closing or closed.  A line has a number, a stream
and a size.  `Output` is a chunk of output: it may end a line and may leave a partial
one.  `AddEntry` is `addToBufferAndEmitEvent` with backpressure and the flush of a
full buffer, which nobody awaits; `FlushTimer`, `FlushBuffer` with its end, `Close`
with `CloseEnd`, `SetupAppLogs` (of a started process, or of a load) are the callers
of `Flush`.  `appends` are the appendFile calls under way; `AppendFails` may have
written a prefix, and is retried up to `MaxRetries`.  `ClearLogs` empties the files
while appends are under way.  `CloseAll` and `CloseAllEnd` are `LogManager.close`.

What is abstracted: the pause before a retry is part of the retry; the text, level
and time of an entry; the files of other applications, which share nothing; output
that comes when there is no logger is dropped, as in the code; watching and streams.

`LogReader` is the reading side as functions of the file: `ReadLinesBackward` is the
loop over chunks, `ProcessBufferLines` and `ExtractPartialLine` what it does with
each.  A character is the number of the line it belongs to, or a newline.  Each loop of
the code is a recursive function over its turns (`ReadBackward` is one turn of the loop
over chunks), which is a form that can be proved about.  The limit is at least 1: for 0
the handler asks for 100 lines (`log-command-handlers.ts:81`).

### AppConfigs, ProcessGroups, CommandLine

Pure algorithms.  In `AppConfigs` an application is a function from its fields to
values, and of a value only what some check tells apart is kept (a path is inside,
absolute, a parent's, a link, ...).  `ValidateConfig` is the validator;
`ConfigureThrows`, `SetupThrows`, `LoggerName`, `MemoryLimit` are the further checks
and conversions of the code that applies the configuration, in other files, by
other authors; `NormalizeApp`, `MergeConfigs`, `CompareConfigs` the normalizer.
`ProcessGroups` resolves targets, to how often each process is meant (the code's
`flatMap` keeps what is named twice, or by name and by namespace), and orders
dependencies level by level (`StartupOrder`).  It is compared with `Cyclic`: the
processes on a cycle of the dependencies and those behind one.  Nothing in the daemon
uses the order: `startProcessesWithDependencies` starts all processes at once.
`CommandLine` gives for every command, option and outcome of its attempts to reach the
daemon: was the request sent, was a daemon started, what is the exit code.

Their properties are about no state, and TLC has no other way to evaluate them than
on states: `LogProperties` and `CommandProperties` state them as `Init => ...` or `Fresh => ...`,
so that they are evaluated where the run begins and not on every state.

### Commands

A command becomes one operation for each time it means a process, which joins the
`queue` of that process (the keyed lock; `KeyedMutex` shows it is a queue); the first of each
queue does what `Supervision` allows: `StopOp`, `StopEnds`, `StartOp`, `StartEnds`.
`ReceiveLoad`, `LoadRefused`, `LoadRead` are the loader with its cache, `Proceed` the end
of `Promise.allSettled`, `Apply` the loop that configures one application after the
other, cut at the awaits of `setupAppLogs`.  `Die`, `Crash` and `TimerFires` are the
environment and the auto-restart.  `living` of a call is history: the processes whose
child lived when the call asked it to stop, still lives, and is not reported failed.

What is abstracted: the lifecycle manager, to its specification (so children that
cannot be killed are excluded); the pause of a restart, which is any delay before
its start; the contents of the answers; the map of process
configurations, which is read only to make a process.  The daemon begins with nothing
loaded or with one configuration loaded, its processes running or not.

## 3. Runs

Bounds are values of CONSTANTS and the guards named here: `MaxTimers` (a child
does not crash while that many restarts of its name are pending),
`MaxRestartCount` (10 in the code; 2 is the least value that tells "below",
"at" and "above" the limit apart), the number of calls and children.  A fresh
ChildProcess is taken from `Kids`; two are enough for an old and a new child side
by side, which is what the properties forbid.  A finished call frees its slot
and a dead child's object can be used again, so behaviours are of any length.

| Run | Instance | Shows |
|---|---|---|
| `keyed_mutex` | 2 keys, 4 callers | mutual exclusion, refinement of `FifoLock` with its fairness: no caller is overtaken or starves |
| `lifecycle` | 1 process, 3 calls, 2 children, both faults, 2 timers | the invariants and `StopMeansDead`: three calls are one that holds, one that waits and one that arrives |
| `supervision` | 1 process, 2 calls, 2 children, no faults | refinement of `Supervision`, with fairness |
| `live` | 1 process, 2 calls, 1 child, both faults, cleanup | every call returns, and nothing starts after the cleanup |
| `tasks` | 1 task, 2 waits, output limit 1, 2 lines, kill may be denied | no missed wake-up, earned answers, no silent loss, every wait ends, ended tasks are forgotten |
| `persistence` | 2 saves that may overlap, 5 inodes, 2 versions | refinement of `StateStore` through failures and crashes, cleanup keeps the state |
| `daemon` | 1 daemon after one that was killed, 2 recoveries, 1 exception, 1 child | a clean exit has cleaned up for every child, a running daemon can be found, a signal or an error ends it |
| `ipc` | 1 request, 2 sockets, 1 connection allowed, 2 launches, large messages, a follower | the pending map is exact, connections are counted and leave, refinement of `Call`: one settlement each, success only of a command that ran |
| `logs` | 2 loggers, 2 lines of size 1 or 2, buffer 2, threshold 1, 2 attempts; files of 3 lines of up to 3 characters | the timer is armed exactly when it is needed, no line twice, close awaits what it found, refinement of `LogSink`; the reader loses only lines a chunk cuts |
| `commands` | 2 processes, 2 commands, 1 file with 3 contents, 1 pending restart; 3 processes with dependencies; 2 attempts of load | who was asked to stop is gone when the command goes on; every command is answered; the properties of the pure modules |
| `unshown` | 1 process, 2 calls, 2 children, both faults, cleanup | a finding: a living child that no status shows |
| `two_daemons` | 3 daemons, one after the other | a finding: two daemons run at once |

In `tasks` the bound `MaxLines` is one above the limit of the output, so that
lines are dropped and an error line can go over the limit; two waits can have
different conditions on the same task, and a task id is used again once nothing
refers to its last use, so a wait outlives its task.  In `persistence` five
inodes are the three names and the two that writers have open; of two versions one can
be older than what it replaces.  The number of versions is a bound on `Change` and
`Restart`, so a daemon that crashes is followed by one that loads.  In `daemon` two recoveries are enough to
overlap each other and a shutdown, and to be used up; the earlier daemon has left
a PID file, a socket, both or none, and the exception comes at any moment.  A
second exception would find the shutdown begun, as one after a signal does.

In `ipc` two sockets are an old and a new connection of the client; with one
connection allowed the second is refused while the first is listed.  The second
launch lets requests of the first life meet the second.  With one request the
handlers of two chunks do not interleave; what `Call` promises is about each request
by itself, and the map is keyed by it.  In `logs` the buffer of 2 is overrun by a
line of 2 after one of 1, and 1 is above the threshold, so that full buffers,
backpressure, overlapping flushes and retries all occur; the second logger is that of
a reload.  A small file is one under 4 characters, chunks are 1 to 4 characters: lines
are cut at every place.  In `commands` two commands on two processes are enough for
each to come before, between and after the operations of the other; a load
stops all processes, the others have a list that means one process twice, by name or by
name and by namespace; every content exercises one way in which applying it ends (all of it, half of it, none), and the
application configurations have up to two odd fields, because each check looks at one
field, and merging at two.

The bounds of `Ipc`, `Logs` and `Commands` are their CONSTANTS; each says so where it
is declared, and the guard that applies it is marked "Bound".

Symmetry is used in `lifecycle` (of children and calls) and in `persistence` (of saves),
where no liveness is checked.  Deadlock is checked in the lifecycle, lock and
task runs, where a child may always end or a request always come.  It is off in
the run of `Persistence`: with the daemon down and `MaxState` versions used,
no further restart is within the bound, and the system stops.  It is off for
`Daemon`, `Ipc`, `Logs` and `Commands` for the same reason: a daemon or a client is a
process that ends and is not used again, and lines, loggers and commands run out.

`lifecycle` requests no `signal`: `sendSignalToProcess` has no caller in the
daemon, and with a denied signal it does what the code says, it runs the 'error'
handler, which forgets the living child and violates `NoChildForgotten`.  The
`live` run includes signals.

### Fairness

Microtasks run once due: weak fairness of `Microtask`.  Timers and exit events
are served by the event loop in turn with others, each enabled only when the
loop is settled: strong fairness of a call's own timers, of `ExitEvent` and of
`TimerFires`.  Nothing is assumed of requests, of the memory check, or of
children, except that SIGKILL ends a child where `lingering` is not assumed.
`EveryCallReturns` starts from a waiting call, so it needs the whole queue before
it to drain.  In `KeyedMutex` alone, the fairness of `Release` stands for
"operations end", which `EveryCallReturns` then establishes of the real ones.

In `TaskManager` the timers of waits, the cleanup interval and the events of
children that have ended are served: weak fairness, for each stays enabled until
it is.  Nothing is assumed of requests, of output, or of children ending.

In `Ipc` the events of the server's sockets, its reads, the steps of its stop and the
timers of requests are served: weak fairness of each.  Nothing is assumed of handlers,
which may never answer, of the client's user, or of kills.  In `Logs` flush timers
fire and the file system answers, with success or an error.  In `Commands` each
process whose first operation can take a step, or whose child has been killed and
still lives, takes one (`Supervision` has this fairness, and `supervision` shows that
the code has it); and each command takes the steps that are due.  Nothing is assumed
of further commands, of crashes or of auto-restarts.

In `Daemon` each daemon that can take a step of its start, of a clean-up or of a
shutdown takes one at some time: file operations and the managers' clean-up end,
or fail, and the timers of the shutdown fire.  That is one weak fairness for each
daemon.  Nothing is assumed of recoveries, requests, signals or exceptions.

### Findings

* `two_daemons`: `docs/spec.md:44` allows a user one daemon, and a test is named
  for it (`tests/daemon/procman-daemon.test.ts:138`).  A start refused because a
  daemon runs still cleans up after itself, and removes the PID file of the daemon
  that runs (`daemon-lifecycle.ts:456`).  The next start finds no daemon, takes
  the socket path over and runs beside the first.  The launches need not overlap.
* `unshown`: by `docs/spec.md:340` a process that is stopped or errored does not run, and
  where kill() returns false the code says "Process already died"
  (`process-lifecycle-manager.ts:256`).  `LivingIsShown`, a child runs only while its
  process shows it, fails in three ways.  A denied SIGTERM returns false too: the stop
  succeeds, and the child lives on, unknown (`:255`); this is the trace of the run.  A
  child that outlives SIGKILL leaves its process errored (`:274`), and a start then runs
  a second one beside it; this is the trace with `Faults = {"lingering"}`.  And with no
  fault at all (`Faults = {}`) a clean-up, which says "Stop all running processes"
  (`:401`), looks once for what is online or starting (`:402`): it does not await a stop in
  progress, and forgets its child.  `NoChildForgotten`, `OneChildPerProcess` and
  `StopMeansDead` except the children of the first two ways by name (`Denied`,
  `Abandoned`), and show that no other interleaving loses one.

## 4. Proofs

`KeyedMutexProofs`, for every set of keys and callers (no assumption).  The
inductive invariant is `IInv`: types, `MutualExclusion`, `QueueIsWaiters`
(the queue is the set of waiters, each once) and `LockedIffHeld`.  None is
inductive alone: mutual exclusion is kept by a release because the first of the
queue is waiting and nobody else holds the key, and the queue has no one twice
because a caller that joins was `out`.  From it: `MutexExcludes`,
`NoWaiterLost`, `LockedOnlyWhileHeld`, and `ImplementsFifo`, the safety part of
the refinement (initial state, and every step a step of `FifoLock` or none).

`ProcessLifecycleProofs`, from `ConstantsAssumption` (the sets are not confused
with the markers used beside them; the bounds are naturals).  `TypeCorrect`;
`UsesLock`: each step of the lifecycle model is, through the mapping of places
onto the lock's, a step of `KeyedMutex` or leaves it alone; so the lock's
invariant is an invariant here, and `NoOverlap` follows from its mutual
exclusion.  `ExitsAreAwaited` needs the three together (`LockedInv`): that the
call a listener names is still waiting for that child is kept because every
action that moves a waiting call on either spends the listener or handles the
exit, and because a second stop cannot take the listener over: it would hold the
lock at the same time.

What a status says of a child needs more, `OwnedInv`: of every call, which event of
which child it awaits, and that this child has no other listener; of every tracked
child, that it is one of its process; that a start in progress shows and its child is
tracked; that while a stop is in progress the process is not online; and that a child
without a listener belongs to a start in progress.  None of these is inductive alone:
which child a call may touch follows from the lock, and that nobody else touched it
from the listener.  From it: `NoStatusLeftBehind`, `OnlineIsReal`,
`DisposedStartsNothing` (an action property) and, under `NoDeniedSignal`, `NoneForgotten`,
`OneChildEach` and `StopsAreTrue` (an action property).  `NoDeniedSignal` says that
either `sendSignalToProcess` is not used or no signal is denied: with both, a denied one
errors a process whose child lives on, and the three are false.  The run `lifecycle`
chooses its constants so too.  The three except the children of the finding
`unshown`.  Without faults there are none:
`FaultlessStopsAreTrue` says, with nothing excepted, that a stop that succeeds leaves no
living child and that two children never run side by side; `FaultlessLivingIsShown`,
which leaves the cleanup out too, is what `unshown` refutes.

`SupervisesTruthfully` is the refinement: without faults and cleanup (`FaultFree`, which
`supervision` assumes as well) the initial states are those of `Supervision` and every
step is one of its or a stutter.  Its invariant adds to `OwnedInv` that a stop never
gives up on a child and that a stop in progress shows.

`TaskManagerProofs`, from `TaskAssumption`.  `TypeCorrect` needs arithmetic of
`AfterRead` (`DropArithmetic`: what is dropped is never more than what there is).
The inductive invariant `IInv` is the types, `NoMissedWakeup`,
`AnswersAreEarned`, `AliveRuns` and `LivingChildIsListed`.  `NoMissedWakeup` is
kept because every event that makes a condition true answers, in the same turn,
all that are registered (`AnswerWakes`); it in turn shows that whom an exit or a
read answers was really waiting (`DoneIsEarned`).  `AliveRuns` is the
strengthening: a living child's task is running unless a denied signal errored
it, without which a cleanup could be thought to forget it.  `LossIsAnnounced` is
an action property: below the limit nothing was ever dropped (`AllBuffered`).

`PersistenceProofs`, from `PersistenceAssumption`, for any number of saves, overlapping in
any way.  `TypeCorrect` needs `OpenFiles`, that a call which is copying or writing has a
file open.  The invariant of `Implements` and `CleanupIsSafe` adds that nothing newer than
the process map is on its way (`Bounded`); that two names never share an inode
(`Distinct`); that a save which has met no other is the only one (`Alone`), has open what
the backup and the temporary file name, will rename what it set out to write, and is no
older than what is stored (`SavesSafe`); and that the save a cleanup awaits stores at
least the state the cleanup saw, fails, or meets another one (`CleanupServed`).  A save
that meets another has no such promise.  `SavesSafe` recovers from it because the next
save alone empties the temporary file before it writes: whatever is left, it replaces it.

`IpcProofs`, from the assumptions of `Socket`, `IpcClient` and `IpcServer`.  `IpcInv` is the types,
`PendingIsWaiting`, and what may be under way: in every connection only requests that
were sent, and answers that report success only of commands that ran (`FlowInv`); in
the hands of a handler only requests that were sent, the first of them run if the
handler has begun (`WorkInv`); and that the listed connections are those served, within
the limit (`ServedInv`).  `PendingTruly` and `CountsConnections` follow, and
`KeepsCalls`: each step of the composition is one of `Call` or changes nothing of it.  A
success reaches the client only if the command ran because every message in a chunk was
in the connection; that the parsers and the framing invent no message is an induction
over the pieces of a stream.  It is done without an operator parameter, from the
well-foundedness of the naturals: a set of naturals that is not empty has a smallest
element (`Least`), so one that holds 0 and successors holds all (`Inducts`).

`DaemonProofs`, from `DaemonAssumption`.  `SoundInv` says of each daemon: where its start
is suspended agrees with its state; one that has met no error keeps its components, its
children and its recoveries in order (`Unerring`); and only a signal, an exception, a
failed start or the exit command ends it.  From it `ExitsClean`, for any number of
daemons that start, fail and end in any order: the only children left are those that
the clean-up which ended has missed.  `FoundWhileAlone` says, with no
hypothesis, that a daemon that runs undisturbed is found at the PID file and the
socket until another daemon is launched.  `IsReachable` is `Reachable` with one daemon
launched and any files left by earlier ones: this is the hypothesis of the run
`daemon`, and with two daemons it is false, which is the finding of `two_daemons`.

`LogsProofs`, from `LogAssumption`.  What a turn of the event loop does to a logger (fill
the buffer, flush it, begin appends, set the timer) is one relation, `TurnOf`: what was
buffered, and the lines that came, are buffered after it or in the appends it began,
but for those it refused; each once; and the timer runs exactly while the buffer holds
something.  `LogsInv` is the types; that a line is in one place only, in the buffer of
one logger or in one append, and in a file only from earlier attempts of its append
(`BuffersInv`, `AppendsInv`); what a `close` in progress waits for (`CloseInv`); that no
line is lost (`AccountInv`); and bookkeeping of which loggers are in use (`UseInv`,
`RoomInv`, `KnownInv`).  From it `TimerIsArmed`, `NoneRepeated`, `FlushesOnClose` and
`KeepsLines`, the safety part of the refinement of `LogSink`.  How the entries of a
buffer are shared out among the files is an induction like that of `Wire`.

The second half of `LogsProofs` is about `LogReader`, and says more than the run does:
`TailOfAnyLog` is about any log, of lines of any lengths, read with any limit and chunk
size of at least 1 and any types.  `LosesOnlyCuts`, from `ReaderAssumption`, is the
invariant of the run.  Every loop is shown to be the one chain of its turns (`Iterates`,
`OnlyChain`).  The text of a log is `Laid`: line n is the characters from its offset to
its newline.  A piece of that text, split, gives part by part what the piece holds of
each line it touches (`SplitSegment`).  The invariant of the loop over chunks is
`Reading`: if a is the line in which the next chunk ends, the lines from a on are
`Collected`, each as a whole or, where a chunk begins in it, in part; and what is carried
over is the text from that place to the end of line a.  It needs `Counts`: there
are never more pieces than lines, so that a piece refused because the limit is reached
belongs to none of the last lines.  `Parsed` then carries this through the
filter, where the pieces that are no entries go.

`CommandsProofs`, from `CommandsAssumption`.  `CommandsInv` is the types; `OneAtATime`; that
a process that is down has no child; that a command that is not waiting has no
operation in any line, and nobody to wait for (`AnsweredIsSettled`); that whoever a
command waits for has an operation of it in line that has still to stop it
(`LivingIsAwaited`); and `AppliesValid`.  `AskedToStopIsGone` is not inductive: it says
nothing of a command before it goes on.  An operation leaves the line with success only
where the child is gone, and the operations of other commands between them may start a
child only where none lives: so a child that a command asked to stop is never
replaced unseen.

The other theorems of `CommandsProofs` are about the pure algorithms, and say more than
the run does, which looks at bounded inputs.  Of any application with anything in all
of its fields, by cases on what a field may hold: `AcceptedIsApplied`,
`NormalizedStaysValid`.  Of any two valid configurations: `MergedStaysValid`, because each
application merged changes one of its name or adds one (`MergeOneKeeps`), and this
carries through all of them; `DerivedStaysValid` follows.  Of any finite group with any
lists of dependencies: `OrdersEveryGroup`.  Its invariant is that the visited processes
only grow and are closed under what they depend on; they can grow at most as often as
there are processes, so a level is empty in the end.  No visited process can be in a set
in which each depends on another of the set, so nothing on or behind a cycle is ordered;
and where no list repeats an entry, what is left is such a set itself.  `OrdersDependencies` is `GroupsAreOrdered` for any
finite set of members (`MembersAssumption`).  `TellsTheTruth` is `CommandLineIsTrue` for any
members and any number of attempts (`MaxAttemptsAssumption`), by cases on the outcomes.
The recursive functions are shown to be what they say by `Least` and `Iterates`, as in
`IpcProofs`; their domains begin at 1 like those of sequences.

Some theorems are about invariants that no run lists any more because the proof says
more than the run could: the types, `QueueIsWaiters`, `LockedIffHeld`,
`OneOperationPerProcess`, `OneAtATime` and `AppliesValid`.

Only model-checked:

* liveness, and with it the fairness parts of the refinements: out of the prover's reach;
* the bound of the pending restarts in `Commands` (`MaxTimers`): it is a bound of the
  model and not of the code, and the theorems do not depend on it.

## 5. Plan

Every safety property that a passing run checks is a theorem now, the safety parts of
the refinements included.  What is left: models of `ConfigWatcher` with its debounce and
of resource disposal, which nothing in the daemon constructs today.

## 6. What the models showed without a run of its own

Read from the code and kept in the models; each is what the code does.  Where a text of
the repository says otherwise it is named; these have no run of their own.

Lifecycle and tasks.

* A denied signal of `sendSignalToProcess` makes Node emit 'error', whose handler forgets
  the child and shows the process errored while it lives.
* A wait for the end of a task is answered at its 'exit' event, which Node may emit
  before the pipes are read: the answer lacks what is left.
* A cleanup drops the save that the debounce timer still holds; its own forced save
  stands for it.
* A cleanup of the lifecycle manager awaits no queued start and no pausing restart
  either; what these start before the references go is left running.  The exit command
  "stops all managed processes" by `docs/spec.md:202`.
* The save follows what it calls an atomic write pattern (`process-persistence.ts:157`,
  `:206`), but all saves write the same temporary file: one that has opened it, and
  emptied it, goes on into the state file when another renames it.  What is stored is torn
  until it has written, and for good if it cannot.  `StateStore` allows this of saves that
  overlap, and of no others.

IPC.

* The heartbeat waits for a message of type "pong"; the daemon answers with
  "response".  At the second or third tick every healthy connection is declared dead.
* Entries of a streamed log lack the field `success`; the client's guard for responses
  discards them.
* No handler of the task commands is registered with the daemon.
* A comment promises "Stop streaming when connection disconnects"
  (`component-streaming.ts:101`), but the listener waits for an event `disconnect`, and the
  server emits `disconnection` (`ipc-server-base.ts:467`).  The session stays; the next line
  of the log is sent to a closed connection, an unhandled rejection, which shuts the
  daemon down.
* A message that two chunks share is lost; a large request or answer fails by time-out.
* The command line listens to no 'error' event of its client: a refused connection ends
  it with an exception.  After a daemon that was killed has left its socket behind,
  `load` ends so instead of starting one.
* `disconnect()` returns early when the status says disconnected, and leaves the retry
  timer; handlers of a socket that has been replaced go on changing the status.

Logs.

* Nothing in the daemon constructs `ProcessLogIntegrator`: the output of processes
  reaches no log file.
* The timer of lines that come during the await of `close` is cleared: they stay in
  the buffer.  `close` does not await flushes that began before it.
* The type filter is applied to the tail, not before it; with split files, reading
  without a type returns nothing.

Configuration and commands.

* A second load of the same file returns what the first one loaded; a known process
  keeps the settings it was made with; applications that are gone from the file stay
  (`docs/spec.md:170` describes a reload).
* The validator accepts absolute log paths ("an explicit admin choice",
  `path-security-validator.ts:74`); setting up the log refuses them, after every
  process has been stopped and the applications before have been configured.
* The validator looks at `out_log` and `error_log`; the fields that are used are
  `out_file` and `error_file`.  `asserts config is ProcmanConfig` is not true of them,
  nor of fields that are null.  A name longer than 64 characters is accepted, and its
  logger kept under a shortened one.
* Normalizing makes log paths absolute, which the log manager refuses.
* Comparing reports a merged application as modified even where nothing differs:
  merging adds an empty `env`.
* A dependency that is listed twice counts twice against one edge
  (`process-group-manager.ts:406`): its process, with all that depend on it, is reported as
  circular, which the interface explains as "Processes with circular dependencies"
  (`interfaces/process-group.ts:71`).
* A target that is named twice, or by name and by namespace, is operated on twice: a
  second start fails, a second restart stops what the first has started.
* `start`, `stop`, `restart`, `list`, `log`, `clear-log` and `exit` end with 0 when there
  is no daemon; streaming and task commands end with 1.  `load` ends with 0 when its
  daemon never becomes ready.  Requests time out after five seconds, also where the
  command waits longer: the command fails and the daemon goes on.

## 7. Not modelled

For each component, `PROJECT.json` says what is left out and why.  In short: crash
recovery, orphan and zombie handling, the resource manager, the reconnection system and
the secure configuration loader are not constructed by the daemon; the configuration
watcher is not either; help texts, reports, formatting and logging have no state; the
named pipe of Windows behaves like the socket to all the models.
