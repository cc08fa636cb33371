----------------------------- MODULE CommandLine -----------------------------
(***************************************************************************)
(* The command line: src/cli.  Each command checks its arguments, sends    *)
(* one request to the daemon (load and run look first whether there is     *)
(* one; load starts it), prints what comes back and ends with an exit      *)
(* code.  A run of a command is a function of its arguments and of what    *)
(* its attempts to reach the daemon meet.                                  *)
(***************************************************************************)
EXTENDS ProcessGroups

CONSTANT MaxAttempts    \* bound: how often load looks whether its daemon is up

ASSUME MaxAttemptsAssumption == MaxAttempts \in Nat

\* What an attempt meets: no socket; one that nobody listens to, or that may not
\* be used; a daemon that does not accept it in time; one that does the command,
\* does it for some of the processes, refuses or fails, or has not answered after
\* five seconds (whatever time-out the command asked for).
Meets == {"absent", "refused", "slow", "done", "partly", "failed", "late"}

\* Connecting succeeds, and the request is sent.
Connects(m) == m \in {"done", "partly", "failed", "late"}

\* CLIIPCClient.sendCommand: a response without success is an error.
SendCommand(m) == IF m \in {"done", "partly"} THEN "answered" ELSE "error"

\* executeCommand.  The error of a refused connection comes as an event that has
\* no listener, and ends the process.
ExecuteCommand(m) ==
    CASE Connects(m) -> SendCommand(m)
      [] m = "absent" -> "noDaemon"
      [] m = "refused" -> "crash"
      [] m = "slow" -> "error"

-----------------------------------------------------------------------------
(***************************************************************************)
(* The commands: whether the request was sent, whether a daemon was        *)
(* started, and the exit code.                                             *)
(***************************************************************************)

Ended(m, codes) ==
    [sent |-> Connects(m), spawned |-> FALSE,
     code |-> IF ExecuteCommand(m) \in codes THEN 0 ELSE 1]

\* `Daemon not running' is no failure.
Forgiving(m) == Ended(m, {"answered", "noDaemon"})

\* handleCLIError: every error is a failure.
Strict(m) == Ended(m, {"answered"})

Usage == [sent |-> FALSE, spawned |-> FALSE, code |-> 1]

\* o: the option --all, the arguments, the option --namespace.
Targeted(o) == o.all \/ o.args # <<>> \/ o.namespace # "none"

Targets(o) ==
    CASE o.all -> <<>>
      [] ~o.all /\ o.args # <<>> -> o.args
      [] OTHER -> <<[kind |-> "space", of |-> o.namespace]>>

Start(o, m) == IF Targeted(o) THEN Forgiving(m) ELSE Usage

Stop(o, m) == IF Targeted(o) THEN Forgiving(m) ELSE Usage

Restart(o, m) == IF Targeted(o) THEN Forgiving(m) ELSE Usage

Exit(m) == Forgiving(m)

List(m) == Forgiving(m)

ClearLog(o, m) == IF o.args # <<>> THEN Forgiving(m) ELSE Usage

\* With a connection of its own, until a signal: here no daemon is an error.
StreamLogs(m) == Strict(m)

Log(o, stream, m) ==
    IF o.args = <<>> THEN Usage ELSE IF stream THEN StreamLogs(m) ELSE Forgiving(m)

TaskStatus(m) == Strict(m)

TaskList(m) == Strict(m)

TaskKill(m) == Strict(m)

\* A wait needs a time-out.
TaskLog(wait, timeout, m) ==
    IF wait /\ ~timeout THEN Usage ELSE Strict(m)

\* A first connection shows whether a daemon is there.
Run(o, first, m) ==
    IF o.args # <<>> /\ Connects(first) THEN Strict(m) ELSE Usage

\* The outcome of the first attempt that is none of those to be repeated.
WaitForDaemonReady(ms) ==
    LET ends == {i \in DOMAIN ms : ms[i] \in {"done", "partly", "refused"}}
    IN  IF ends = {} THEN "notReady" ELSE ExecuteCommand(ms[Min(ends)])

\* Mutant of Load: a load that fails is only reported.
LoadSilent(file, first, ms, m) ==
    IF ~file \/ first = "refused" THEN Usage ELSE [Strict(m) EXCEPT !.code = 0]

\* first: what looking for the daemon meets; ms: what waiting for it meets, once
\* it has been started.  That it does not become ready is no failure.
Load(file, first, ms, m) ==
    IF ~file \/ first = "refused" THEN Usage
    ELSE IF Connects(first) THEN Strict(m)
    ELSE CASE WaitForDaemonReady(ms) = "notReady" ->
                [sent |-> FALSE, spawned |-> TRUE, code |-> 0]
           [] WaitForDaemonReady(ms) = "crash" -> [Usage EXCEPT !.spawned = TRUE]
           [] OTHER -> [Strict(m) EXCEPT !.spawned = TRUE]

-----------------------------------------------------------------------------
(***************************************************************************)
(* Properties, of every command, option and outcome.                       *)
(***************************************************************************)

\* What `list --namespace' shows.
Shown(space, n) == {p \in DOMAIN space : space[p] = n}

Arguments == {[kind |-> "name", of |-> p] : p \in Members}

Options ==
    [all : BOOLEAN, namespace : {"none", "n1"},
     args : UNION {[1..k -> Arguments] : k \in 0..2}]

Attempts == UNION {[1..k -> Meets] : k \in 0..MaxAttempts}

\* An exit code of 0 means that the daemon has done what was asked, for all or
\* some of the processes, or that there was none; an exit code of 1, that it has
\* not, or has not yet: for no command and no outcome are the two mixed up.  Only
\* load starts a daemon, if none answered; what it tells is true as well, except
\* that a daemon which does not become ready is not a failure.
ExitCodesAreTrue ==
    \A o \in Options, m \in Meets, first \in Meets, b \in BOOLEAN :
        /\ \A r \in {Start(o, m), Stop(o, m), Restart(o, m), Exit(m), List(m),
                     ClearLog(o, m), Log(o, b, m), TaskStatus(m), TaskList(m),
                     TaskKill(m), TaskLog(o.all, b, m), Run(o, first, m)} :
            /\ r.code = 0 => m \in {"done", "partly", "absent"}
            /\ r.code = 0 /\ m # "absent" => r.sent
            /\ r.code = 1 => ~(r.sent /\ m \in {"done", "partly"})
            /\ ~r.spawned
        /\ \A ms \in Attempts :
            LET r == Load(b, first, ms, m) IN
            /\ r.code = 0 => \/ r.sent /\ m \in {"done", "partly"}
                             \/ r.spawned /\ "done" \notin ToSet(ms)
            /\ r.code = 1 => ~(r.sent /\ m \in {"done", "partly"})
            /\ r.spawned => first \in {"absent", "slow"}

\* An empty list of targets means all processes to the daemon: the command line
\* sends one for the option --all and for nothing else.  A namespace is the
\* processes that list shows for it, a name is that process.
TargetsAreTrue ==
    \A o \in Options, space \in [Members -> {"n1", "n2"}] :
        Start(o, "done").sent =>
            Meant(ResolveTargets(space, Members, Targets(o))) =
                IF o.all THEN Members
                ELSE IF o.args # <<>> THEN {o.args[i].of : i \in DOMAIN o.args}
                ELSE Shown(space, o.namespace)
=============================================================================
