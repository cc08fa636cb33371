------------------------------ MODULE Commands ------------------------------
(***************************************************************************)
(* The commands load, start, stop and restart, each on several processes:  *)
(* src/daemon/process-command-handlers.ts, component-daemon-interface.ts,  *)
(* and the batches of process-group-manager.ts.                            *)
(*                                                                         *)
(* A command becomes one operation for each of its processes, which waits  *)
(* in line for the lock of that process; the command is answered when all  *)
(* have settled.  A load stops every process it finds, and only then       *)
(* applies the configuration.  The lifecycle manager under the operations  *)
(* is its specification, Supervision; what is in a configuration, and what *)
(* is done with it, is in AppConfigs.                                      *)
(***************************************************************************)
EXTENDS AppConfigs, ProcessGroups, FiniteSetsExt

CONSTANTS
    Procs,          \* names of processes
    NoSpace,        \* of a process that has not been configured
    MaxCalls,       \* bound: the commands
    Files,          \* configuration files
    Contents,       \* a sequence: what they may hold, at different times
    TargetLists,    \* targets of the commands
    MaxTimers       \* bound: the pending restarts

Target == [kind : {"name"}, of : Procs] \cup
          [kind : {"space"}, of : Paths \cup {"default"}]

ASSUME CommandsAssumption ==
    /\ {MaxCalls, MaxTimers} \subseteq Nat
    /\ Contents \in Seq(Seq(Applications))
    /\ \A i \in DOMAIN Contents : NamesIn(Contents[i]) \subseteq Procs
    /\ TargetLists \subseteq Seq(Target)

VARIABLES
    info,           \* Procs -> the namespace in ManagedProcessInfo
    cache,          \* Files -> the loaded content, a number in Contents, or 0
    calls,          \* Calls -> a command
    queue,          \* Procs -> the operations in line, the first one running
    timers,         \* Procs -> pending restarts
    status, live    \* of Supervision

vars == <<info, cache, calls, queue, timers, status, live>>

\* The commands, in the order in which they are received.
Calls == 1..MaxCalls

\* Who starts a process again after a failure.
Timer == 0

\* A process has one child at a time.
S == INSTANCE Supervision WITH Kids <- {1}

Known == {p \in Procs : info[p] # NoSpace}

Batched == {"start", "stop", "restart"}

\* living: the processes of which the child that lived when they were asked to
\* stop still lives, and whose operation is not reported as failed.
NoCall == [kind |-> "none", phase |-> "idle", living |-> {},
           file |-> NoSpace, content |-> 0, next |-> 1]

Operation == [by : Calls \cup {Timer}, kind : Batched,
              step : {"stop", "stopping", "start", "starting"}]

SpaceOf(app) == IF Given(app.namespace) THEN app.namespace ELSE "default"

ValidContents == {i \in DOMAIN Contents : ValidateConfig(Contents[i])}

\* configureProcess: a known process keeps what it was made from.  (The map of
\* configurations, which is replaced, is read only to make a process.)
Configured(apps) ==
    [p \in Procs |-> IF p \in NamesIn(apps) /\ info[p] = NoSpace
                     THEN SpaceOf(AppOf(apps, p)) ELSE info[p]]

\* The daemon has loaded no configuration yet, or it has loaded one; its
\* processes run, or do not.
Init ==
    /\ cache \in {g \in [Files -> {0} \cup ValidContents] :
                    Cardinality({f \in Files : g[f] # 0}) <= 1}
    /\ LET apps == FlattenSeq([i \in DOMAIN Contents |->
                        IF i \in Range(cache) THEN Contents[i] ELSE <<>>])
       IN info = [p \in Procs |-> IF p \in NamesIn(apps)
                                  THEN SpaceOf(AppOf(apps, p)) ELSE NoSpace]
    /\ \E running \in {{}, Known} :
            live = [p \in Procs |-> IF p \in running THEN {1} ELSE {}]
    /\ status = [p \in Procs |-> IF live[p] = {} THEN "stopped" ELSE "online"]
    /\ calls = [c \in Calls |-> NoCall]
    /\ queue = [p \in Procs |-> <<>>]
    /\ timers = [p \in Procs |-> 0]

Phases == {"idle", "access", "waiting", "applying", "failed", "late", "done"}

Command == [kind : Batched \cup {"none", "load"}, phase : Phases,
            living : SUBSET Procs, file : Files \cup {NoSpace},
            content : 0..Len(Contents), next : Nat \ {0}]

TypeOK ==
    /\ DOMAIN info = Procs
    /\ cache \in [Files -> {0} \cup ValidContents]
    /\ calls \in [Calls -> Command]
    /\ queue \in [Procs -> Seq(Operation)]
    /\ timers \in [Procs -> Nat]
    /\ status \in [Procs -> S!Statuses]
    /\ live \in [Procs -> SUBSET {1}]

-----------------------------------------------------------------------------
(***************************************************************************)
(* The handlers of the commands.                                           *)
(***************************************************************************)

Begin(c, kind) == [by |-> c, kind |-> kind,
                   step |-> IF kind = "start" THEN "start" ELSE "stop"]

\* A batch: an operation joins the line of a process as often as it is meant.
Batch(c, kind, times) ==
    [p \in Procs |-> queue[p] \o [i \in 1..times[p] |-> Begin(c, kind)]]

Once(names) == [p \in Procs |-> IF p \in names THEN 1 ELSE 0]

NextCall(c) == calls[c] = NoCall /\ \A d \in 1..(c - 1) : calls[d] # NoCall

LivingOf(names) == {p \in names : live[p] # {}}

\* handleStartCommand, handleStopCommand, handleRestartCommand.
Receive(c, kind, targets) ==
    LET times == ResolveTargets(info, Known, targets)
        names == Meant(times) IN
    /\ NextCall(c)
    /\ calls' = [calls EXCEPT ![c].kind = kind,
                              ![c].phase = IF names = {} THEN "failed" ELSE "waiting",
                              ![c].living = IF kind = "start" THEN {}
                                            ELSE LivingOf(names)]
    /\ queue' = Batch(c, kind, times)
    /\ UNCHANGED <<info, cache, timers, status, live>>

\* handleLoadCommand, up to the first await of ConfigLoader.load.
ReceiveLoad(c, f) ==
    /\ NextCall(c)
    /\ calls' = [calls EXCEPT ![c].kind = "load", ![c].phase = "access",
                              ![c].file = f]
    /\ UNCHANGED <<info, cache, queue, timers, status, live>>

\* The file is not there, cannot be read, or is too large.
LoadRefused(c) ==
    /\ calls[c].phase = "access"
    /\ calls' = [calls EXCEPT ![c].phase = "failed"]
    /\ UNCHANGED <<info, cache, queue, timers, status, live>>

\* What was loaded before is loaded again, whatever the file holds now.  An
\* invalid content fails.
ConfigOf(f, i) == IF cache[f] # 0 THEN cache[f] ELSE i

\* load, and then, with what it returns, the stop of all processes.
LoadRead(c, i) ==
    LET f == calls[c].file
        config == ConfigOf(f, i)
        ok == config \in ValidContents
    IN  /\ calls[c].phase = "access"
        /\ cache' = [cache EXCEPT ![f] = IF ok THEN config ELSE @]
        /\ queue' = IF ok THEN Batch(c, "stop", Once(Known)) ELSE queue
        /\ calls' = [calls EXCEPT
                ![c].phase = IF ~ok THEN "failed"
                             ELSE IF Known = {} THEN "applying" ELSE "waiting",
                ![c].living = IF ok THEN LivingOf(Known) ELSE {},
                ![c].content = IF ok THEN config ELSE 0,
                ![c].file = NoSpace]
        /\ UNCHANGED <<info, timers, status, live>>

InLine(c) == \E p \in Procs : \E i \in 1..Len(queue[p]) : queue[p][i].by = c

\* Mutant of Proceed: the stops are not awaited.
ProceedAtOnce(c) ==
    /\ calls[c].phase = "waiting"
    /\ calls' = [calls EXCEPT ![c].phase =
                    IF calls[c].kind = "load" THEN "applying" ELSE "done"]
    /\ UNCHANGED <<info, cache, queue, timers, status, live>>

\* Promise.allSettled: a load ignores the results, the other commands are
\* answered with them.
Proceed(c) ==
    /\ calls[c].phase = "waiting" /\ ~InLine(c)
    /\ calls' = [calls EXCEPT ![c].phase =
                    IF calls[c].kind = "load" THEN "applying" ELSE "done"]
    /\ UNCHANGED <<info, cache, queue, timers, status, live>>

\* The loop of loadConfig, up to the next await: that of setupAppLogs.
Apply(c) ==
    LET apps == Contents[calls[c].content]
        rest == calls[c].next..Len(apps)
        last == Min({k \in rest : HasLogs(apps[k]) \/ ConfigureThrows(apps[k])}
                        \cup {Len(apps)})
        now == SubSeq(apps, calls[c].next,
                      IF ConfigureThrows(apps[last]) THEN last - 1 ELSE last)
        late == ConfigureThrows(apps[last]) \/ SetupThrows(apps[last])
    IN  /\ calls[c].phase = "applying"
        /\ info' = Configured(now)
        /\ calls' = [calls EXCEPT ![c] =
                IF ~late /\ last < Len(apps) THEN [@ EXCEPT !.next = last + 1]
                ELSE [@ EXCEPT !.phase = IF late THEN "late" ELSE "done",
                               !.next = 1, !.content = 0]]
        /\ UNCHANGED <<cache, queue, timers, status, live>>

-----------------------------------------------------------------------------
(***************************************************************************)
(* The first operation in the line of a process.                           *)
(***************************************************************************)

Doing(p, step) == queue[p] # <<>> /\ queue[p][1].step = step

To(p, step) == queue' = [queue EXCEPT ![p][1].step = step] /\ UNCHANGED calls

\* Mutant of End: an operation that fails keeps the lock.
EndIfDone(p, ok) ==
    /\ queue' = [queue EXCEPT ![p] = IF ok THEN Tail(@) ELSE @]
    /\ UNCHANGED calls

\* It settles and leaves the line.
End(p, ok) ==
    LET c == queue[p][1].by IN
    /\ queue' = [queue EXCEPT ![p] = Tail(@)]
    /\ calls' = IF ok \/ c = Timer THEN calls
                ELSE [calls EXCEPT ![c].living = @ \ {p}]

\* The stop of a restart is followed, some time later, by its start.
AfterStop(p, ok) ==
    IF ok /\ queue[p][1].kind = "restart" THEN To(p, "start") ELSE End(p, ok)

StopOp(p) ==
    /\ Doing(p, "stop")
    /\ \/ /\ p \notin Known \/ status[p] \in S!Down
          /\ AfterStop(p, p \in Known)
          /\ UNCHANGED <<status, live>>
       \/ p \in Known /\ S!Stop(p) /\ To(p, "stopping")
    /\ UNCHANGED <<info, cache, timers>>

StopEnds(p) ==
    /\ Doing(p, "stopping")
    /\ S!Notice(p) /\ AfterStop(p, TRUE)
    /\ UNCHANGED <<info, cache, timers>>

StartOp(p) ==
    /\ Doing(p, "start")
    /\ \/ /\ p \notin Known \/ status[p] \notin S!Down
          /\ End(p, FALSE) /\ UNCHANGED <<status, live>>
       \/ p \in Known /\ S!Start(p) /\ To(p, "starting")
    /\ UNCHANGED <<info, cache, timers>>

StartEnds(p) ==
    /\ Doing(p, "starting")
    /\ \/ S!Run(p) /\ End(p, TRUE)
       \/ S!Fail(p) /\ End(p, FALSE)
    /\ UNCHANGED <<info, cache, timers>>

Operate(p) ==
    StopOp(p) \/ StopEnds(p) \/ StartOp(p) \/ StartEnds(p)

-----------------------------------------------------------------------------
(***************************************************************************)
(* Children.                                                               *)
(***************************************************************************)

Die(p) ==
    /\ S!Die(p)
    /\ calls' = [c \in Calls |-> [calls[c] EXCEPT !.living = @ \ {p}]]
    /\ UNCHANGED <<info, cache, queue, timers>>

\* The exit of a child that nobody asked for: a failure may set a timer.
Crash(p) ==
    /\ status[p] = "online" /\ S!Notice(p)
    /\ \/ UNCHANGED timers
       \/ /\ status'[p] = "errored" /\ SumFunction(timers) < MaxTimers
          /\ timers' = [timers EXCEPT ![p] = @ + 1]
    /\ UNCHANGED <<info, cache, calls, queue>>

TimerFires(p) ==
    /\ timers[p] > 0
    /\ timers' = [timers EXCEPT ![p] = @ - 1]
    /\ queue' = Batch(Timer, "start", Once({p}))
    /\ UNCHANGED <<info, cache, calls, status, live>>

Next ==
    \/ \E c \in Calls :
        \/ \E kind \in Batched, ts \in TargetLists : Receive(c, kind, ts)
        \/ \E f \in Files : ReceiveLoad(c, f)
        \/ \E i \in DOMAIN Contents : LoadRead(c, i)
        \/ LoadRefused(c) \/ Proceed(c) \/ Apply(c)
    \/ \E p \in Procs : Operate(p) \/ Die(p) \/ Crash(p) \/ TimerFires(p)

\* Operations run, children that are killed die, the file system answers.
Fairness ==
    /\ \A p \in Procs :
        WF_vars(Operate(p) \/ (status[p] = "stopping" /\ Die(p)))
    /\ \A c \in Calls :
        WF_vars(\/ \E i \in DOMAIN Contents : LoadRead(c, i)
                \/ LoadRefused(c) \/ Proceed(c) \/ Apply(c))

SafeSpec == Init /\ [][Next]_vars

Spec == SafeSpec /\ Fairness

-----------------------------------------------------------------------------
(***************************************************************************)
(* Properties.                                                             *)
(***************************************************************************)

\* When a load begins to apply the configuration, and when a stop or restart is
\* answered, none of the children that lived when the processes were asked to
\* stop is left, but for those reported as failed: whatever operations of other
\* commands and of timers came before, between and after.
AskedToStopIsGone ==
    \A c \in Calls :
        calls[c].phase \in {"applying", "late", "done"} =>
            calls[c].living = {}

\* Every command is answered: each of its operations gets the lock, and
\* settles, in whatever line it waits.
EveryCommandReturns ==
    \A c \in Calls :
        calls[c].kind # "none" ~> calls[c].phase \in {"failed", "late", "done"}
=============================================================================
