------------------------ MODULE ProcessLifecycleProofs ------------------------
(***************************************************************************)
(* ProcessLifecycle for any number of processes, calls and children.       *)
(*                                                                         *)
(* In the order of the argument: the types; the calls use operationMutex   *)
(* as KeyedMutex specifies it, so that the operations of a process exclude *)
(* each other; with that, what every call awaits of which child, and so    *)
(* what a status says of the child (OwnedInv); the safety properties; and, *)
(* where the system has no faults, the steps of Supervision.               *)
(***************************************************************************)
EXTENDS ProcessLifecycle, TLAPS

\* The theorems of the keyed lock, for the lock of the lifecycle manager.
LockProofs == INSTANCE KeyedMutexProofs
                  WITH Keys <- Procs, Callers <- Calls, mutexes <- mutexes,
                       key  <- [c \in Calls |-> call[c].name],
                       at   <- [c \in Calls |-> PlaceInLock(call[c].at)]

-----------------------------------------------------------------------------
(***************************************************************************)
(* The data: what the methods of the classes return.                       *)
(***************************************************************************)

\* A fresh child and an idle call are well-formed.
LEMMA FreshTypes ==
    /\ NoChild \in Kid
    /\ NewInfo \in Info
    /\ \A p \in Procs : IdleCall(p) \in Call
  <1>1. NoChild.name \in Procs
    BY ConstantsAssumption DEF NoChild
  <1>2. NoChild \in Kid
    BY <1>1 DEF NoChild, Kid, OsStates, Endings, Listeners
  <1>3. NewInfo \in Info
    BY ConstantsAssumption DEF NewInfo, Info, Statuses, Windows
  <1>4. \A p \in Procs : IdleCall(p) \in Call
    BY DEF IdleCall, Call, Places, Kinds, Starts, Results
  <1> QED
    BY <1>2, <1>3, <1>4

\* setStatus returns a process info, with the status asked for.
LEMMA SetStatusType ==
    ASSUME NEW i \in Info, NEW s \in Statuses
    PROVE  SetStatus(i, s) \in Info /\ SetStatus(i, s).status = s
  <1>1. CASE i.status = s
    BY <1>1 DEF SetStatus
  <1>2. CASE i.status # s /\ s \in {"stopped", "errored"}
    BY <1>2 DEF SetStatus, Info
  <1>3. CASE i.status # s /\ s \notin {"stopped", "errored"}
    BY <1>3 DEF SetStatus, Info
  <1> QED
    BY <1>1, <1>2, <1>3

\* Going online returns a process info.
LEMMA OnlineType ==
    ASSUME NEW i \in Info, NEW k \in Kids \cup {NoKid}
    PROVE  Online(i, k) \in Info
  <1>1. [i EXCEPT !.pid = k] \in Info
    BY DEF Info
  <1>2. "online" \in Statuses
    BY DEF Statuses
  <1> QED
    BY <1>1, <1>2, SetStatusType DEF Online

\* Neither a success nor a failure leaves the range of the restart budget.
LEMMA BudgetType ==
    ASSUME NEW i \in Info
    PROVE  ResetFailures(i) \in Info /\ RecordFailure(i) \in Info
  <1>0. 0 \in 0..MaxRestartCount /\ "closed" \in Windows
    BY ConstantsAssumption DEF Windows
  <1>1. ResetFailures(i) \in Info
    BY <1>0 DEF ResetFailures, Info
  <1>2. PICK j \in Info : j = IF i.window = "expired" THEN ResetFailures(i) ELSE i
    BY <1>1
  <1> DEFINE n == IF j.failures < MaxRestartCount THEN j.failures + 1 ELSE j.failures
             w == IF j.window = "closed" THEN "open" ELSE j.window
             a == j.autoRestart /\ n < MaxRestartCount
  <1>3. n \in 0..MaxRestartCount /\ w \in Windows
    BY ConstantsAssumption DEF Info, Windows
  <1>4. a \in BOOLEAN
    OBVIOUS
  <1>5. RecordFailure(i) = [j EXCEPT !.failures = n, !.window = w, !.autoRestart = a]
    BY <1>2 DEF RecordFailure
  <1> HIDE DEF n, w, a
  <1>6. RecordFailure(i) \in Info
    BY <1>3, <1>4, <1>5 DEF Info
  <1> QED
    BY <1>1, <1>6

\* The exit of a child leaves a process info.
LEMMA AfterExitType ==
    ASSUME NEW i \in Info, NEW ending \in Endings
    PROVE  AfterExit(i, ending) \in Info
  <1>1. SetStatus(i, "errored") \in Info /\ SetStatus(i, "stopped") \in Info
    BY SetStatusType DEF Statuses
  <1> QED
    BY <1>1, BudgetType DEF AfterExit

-----------------------------------------------------------------------------
(***************************************************************************)
(* The calls: how the steps of an operation move them.                     *)
(***************************************************************************)
CallTable == [Calls -> Call]

\* A suspension moves one call, to the place and with the child given.
LEMMA SuspendType ==
    ASSUME call \in CallTable, NEW c \in Calls, NEW place \in Places,
           NEW k \in Kids \cup {NoKid}, Suspend(c, place, k)
    PROVE  /\ call' \in CallTable
           /\ call'[c].at = place /\ call'[c].child = k
           /\ call'[c].name = call[c].name
           /\ \A d \in Calls \ {c} : call'[d] = call[d]
  BY DEF CallTable, Suspend, Call

\* A promise that settles moves one call, which then holds its lock still.
LEMMA ResolveType ==
    ASSUME call \in CallTable, NEW c \in Calls, NEW res \in Results, Resolve(c, res)
    PROVE  /\ call' \in CallTable
           /\ call'[c].at = "resolved" /\ call'[c].name = call[c].name
           /\ \A d \in Calls \ {c} : call'[d] = call[d]
  BY DEF CallTable, Resolve, Call, Places

\* After its stop part a call has resolved, or pauses before its start.
LEMMA StoppedType ==
    ASSUME call \in CallTable, NEW c \in Calls, NEW res \in Results, Stopped(c, res)
    PROVE  /\ call' \in CallTable
           /\ call'[c].at \in {"pausing", "resolved"}
           /\ call'[c].name = call[c].name
           /\ \A d \in Calls \ {c} : call'[d] = call[d]
  <1>1. CASE Suspend(c, "pausing", NoKid)
    BY <1>1, SuspendType DEF Places
  <1>2. CASE Resolve(c, res)
    BY <1>2, ResolveType
  <1> QED
    BY <1>1, <1>2 DEF Stopped

-----------------------------------------------------------------------------
(***************************************************************************)
(* Types are preserved, action by action.  Typed says that of the          *)
(* variables an operation changes, the rest being unchanged.               *)
(***************************************************************************)
InfoTable  == [Procs -> Info]
ChildTable == [Procs -> Kids \cup {NoKid}]
KidTable   == [Kids -> Kid]

Typed ==
    /\ info \in InfoTable /\ childProcesses \in ChildTable
    /\ kid \in KidTable /\ call \in CallTable

\* The variables an operation leaves alone stay well-typed.
LEMMA StillTyped ==
    ASSUME TypeOK, Typed',
           UNCHANGED <<processes, mutexes, timers, sampling, manager>>
    PROVE  TypeOK'
  BY DEF TypeOK, Typed, InfoTable, ChildTable, KidTable, CallTable

\* Setting a status, tracking a child and changing a child keep the tables.
LEMMA TableTypes ==
    ASSUME Typed, NEW p \in Procs
    PROVE  /\ \A s \in Statuses :
                 [info EXCEPT ![p] = SetStatus(@, s)] \in InfoTable
           /\ \A k \in Kids \cup {NoKid} :
                 [childProcesses EXCEPT ![p] = k] \in ChildTable
           /\ \A k, b : b \in Kid => [kid EXCEPT ![k] = b] \in KidTable
           /\ \A k : \A l \in Listeners : [kid EXCEPT ![k].onExit = l] \in KidTable
  <1>1. \A s \in Statuses : SetStatus(info[p], s) \in Info
    BY SetStatusType DEF Typed, InfoTable
  <1>2. \A s \in Statuses : [info EXCEPT ![p] = SetStatus(@, s)] \in InfoTable
    BY <1>1 DEF Typed, InfoTable
  <1>3. \A k \in Kids \cup {NoKid} : [childProcesses EXCEPT ![p] = k] \in ChildTable
    BY DEF Typed, ChildTable
  <1>4. \A k, b : b \in Kid => [kid EXCEPT ![k] = b] \in KidTable
    BY DEF Typed, KidTable
  <1>5. ASSUME NEW k, NEW l \in Listeners
        PROVE  [kid EXCEPT ![k].onExit = l] \in KidTable
    <2>1. \A j \in Kids : [kid[j] EXCEPT !.onExit = l] \in Kid
      BY DEF Typed, KidTable, Kid
    <2> QED
      BY <2>1 DEF Typed, KidTable
  <1> QED
    BY <1>2, <1>3, <1>4, <1>5

\* A refused operation changes no table but that of the calls.
LEMMA RefuseTyped ==
    ASSUME Typed, NEW c \in Calls, Refuse(c)
    PROVE  Typed'
  <1>1. call' \in CallTable
    BY ResolveType DEF Refuse, Typed, Results
  <1> QED
    BY <1>1 DEF Refuse, Typed

\* The 'error' handler of a child keeps the status and the child tables.
LEMMA ErrorHandlerTyped ==
    ASSUME Typed, NEW p \in Procs, ErrorHandler(p)
    PROVE  info' \in InfoTable /\ childProcesses' \in ChildTable
  BY TableTypes DEF ErrorHandler, Statuses

\* startProcessInternal, up to its first await, keeps the tables well-typed.
LEMMA StartInternalTyped ==
    ASSUME Typed, NEW c \in Calls, StartInternal(c)
    PROVE  Typed'
  <1> DEFINE p == call[c].name
  <1>1. p \in Procs
    BY DEF Typed, CallTable, Call
  <1>2. CASE Refuse(c)
    BY <1>2, RefuseTyped
  <1>3. CASE SpawnThrows(c, p)
    <2>1. info' \in InfoTable
      <3>1. SetStatus(info[p], "starting") \in Info
        BY <1>1, SetStatusType DEF Typed, InfoTable, Statuses
      <3>2. SetStatus(SetStatus(info[p], "starting"), "errored") \in Info
        BY <3>1, SetStatusType DEF Statuses
      <3> QED
        BY <1>1, <1>3, <3>2 DEF SpawnThrows, Typed, InfoTable
    <2>2. childProcesses' \in ChildTable
      BY <1>1, <1>3, TableTypes DEF SpawnThrows
    <2>3. call' \in CallTable
      BY <1>3, ResolveType DEF SpawnThrows, Typed, Results
    <2> QED
      BY <1>3, <2>1, <2>2, <2>3 DEF SpawnThrows, Typed
  <1>4. CASE Spawns(c, p)
    <2>1. PICK k \in Kids, os \in {"alive", "unspawned"} :
             /\ info' = [info EXCEPT ![p] = SetStatus(@, "starting")]
             /\ childProcesses' = [childProcesses EXCEPT ![p] = k]
             /\ kid' = [kid EXCEPT ![k] = [NoChild EXCEPT !.os = os, !.name = p]]
             /\ Suspend(c, "spawning", k)
      BY <1>4 DEF Spawns
    <2>2. [NoChild EXCEPT !.os = os, !.name = p] \in Kid
      BY <1>1, FreshTypes DEF Kid, OsStates
    <2>3. info' \in InfoTable /\ childProcesses' \in ChildTable /\ kid' \in KidTable
      BY <1>1, <2>1, <2>2, TableTypes DEF Statuses
    <2>4. call' \in CallTable
      BY <2>1, SuspendType DEF Typed, Places
    <2> QED
      BY <2>3, <2>4 DEF Typed
  <1> QED
    BY <1>2, <1>3, <1>4 DEF StartInternal

\* stopProcessInternal, up to its first await, keeps the tables well-typed.
LEMMA StopInternalTyped ==
    ASSUME Typed, NEW c \in Calls, StopInternal(c)
    PROVE  Typed'
  <1> DEFINE p == call[c].name
             k == childProcesses[p]
  <1>1. p \in Procs /\ k \in Kids \cup {NoKid}
    BY DEF Typed, CallTable, Call, ChildTable
  <1>2. Stopped(c, "success") => call' \in CallTable
    BY StoppedType DEF Typed, Results
  <1>3. CASE Refuse(c)
    BY <1>3, RefuseTyped
  <1>4. CASE AlreadyStopped(c)
    BY <1>2, <1>4 DEF AlreadyStopped, Typed
  <1>5. CASE NothingToKill(c, p)
    <2>1. info' \in InfoTable
      BY <1>1, <1>5, TableTypes DEF NothingToKill, Statuses
    <2> QED
      BY <1>2, <1>5, <2>1 DEF NothingToKill, Typed
  <1>6. CASE Terminate(c, p, k)
    <2>1. info' \in InfoTable /\ kid' \in KidTable
      BY <1>1, <1>6, TableTypes DEF Terminate, Statuses, Listeners
    <2>2. call' \in CallTable
      BY <1>1, <1>6, SuspendType DEF Terminate, Typed, Places
    <2> QED
      BY <1>6, <2>1, <2>2 DEF Terminate, Typed
  <1>7. CASE TakeForDead(c, p, k)
    <2>1. info' \in InfoTable /\ childProcesses' \in ChildTable /\ kid' \in KidTable
      <3>1. PICK ear \in Listeners : kid' = [kid EXCEPT ![k].onExit = ear]
        BY <1>7 DEF TakeForDead, Listeners
      <3> QED
        BY <1>1, <1>7, <3>1, TableTypes DEF TakeForDead, Statuses
    <2> QED
      BY <1>2, <1>7, <2>1 DEF TakeForDead, Typed
  <1> QED
    BY <1>3, <1>4, <1>5, <1>6, <1>7 DEF StopInternal

\* sendSignalToProcess keeps the tables well-typed.
LEMMA SignalInternalTyped ==
    ASSUME Typed, NEW c \in Calls, SignalInternal(c)
    PROVE  Typed'
  <1> DEFINE p == call[c].name
  <1>1. p \in Procs
    BY DEF Typed, CallTable, Call
  <1>2. CASE Refuse(c)
    BY <1>2, RefuseTyped
  <1>3. CASE Resolve(c, "success") /\ UNCHANGED <<info, childProcesses, kid>>
    BY <1>3, ResolveType DEF Typed, Results
  <1>4. CASE ErrorHandler(p) /\ Resolve(c, "failure") /\ UNCHANGED kid
    <2>1. info' \in InfoTable /\ childProcesses' \in ChildTable
      BY <1>1, <1>4, ErrorHandlerTyped
    <2>2. call' \in CallTable
      BY <1>4, ResolveType DEF Typed, Results
    <2> QED
      BY <1>4, <2>1, <2>2 DEF Typed
  <1> QED
    BY <1>2, <1>3, <1>4 DEF SignalInternal

-----------------------------------------------------------------------------
\* An operation that enters, or goes on after its pause, is well-typed.
LEMMA RunTypes ==
    ASSUME TypeOK, NEW c \in Calls, Run(c) \/ PauseOver(c)
    PROVE  TypeOK'
  <1>1. Typed
    BY DEF TypeOK, Typed, InfoTable, ChildTable, KidTable, CallTable
  <1>2. Typed'
    BY <1>1, StartInternalTyped, StopInternalTyped, SignalInternalTyped
       DEF Run, PauseOver
  <1> QED
    BY <1>2, StillTyped DEF Run, PauseOver

\* The 'spawn' and 'error' events of a new child are well-typed.
LEMMA SpawnEventTypes ==
    ASSUME TypeOK, NEW c \in Calls, SpawnEvent(c) \/ SpawnErrorEvent(c)
    PROVE  TypeOK'
  <1> DEFINE p == call[c].name
             k == call[c].child
  <1>1. Typed
    BY DEF TypeOK, Typed, InfoTable, ChildTable, KidTable, CallTable
  <1>2. p \in Procs /\ k \in Kids \cup {NoKid}
    BY DEF TypeOK, Call
  <1>3. CASE SpawnEvent(c)
    <2>1. Online(info[p], k) \in Info
      BY <1>2, OnlineType DEF TypeOK
    <2>2. info' \in InfoTable
      BY <1>2, <1>3, <2>1 DEF SpawnEvent, TypeOK, InfoTable
    <2>3. kid' \in KidTable
      BY <1>1, <1>2, <1>3, TableTypes DEF SpawnEvent, Listeners
    <2>4. call' \in CallTable
      BY <1>1, <1>3, ResolveType DEF SpawnEvent, Typed, Results
    <2>5. Typed'
      BY <1>1, <1>3, <2>2, <2>3, <2>4 DEF SpawnEvent, Typed
    <2> QED
      BY <1>3, <2>5, StillTyped DEF SpawnEvent
  <1>4. CASE SpawnErrorEvent(c)
    <2>1. info' \in InfoTable /\ childProcesses' \in ChildTable
      BY <1>1, <1>2, <1>4, ErrorHandlerTyped DEF SpawnErrorEvent
    <2>2. kid' \in KidTable
      BY <1>1, <1>2, <1>4, FreshTypes, TableTypes DEF SpawnErrorEvent
    <2>3. call' \in CallTable
      BY <1>1, <1>4, ResolveType DEF SpawnErrorEvent, Typed, Results
    <2>4. Typed'
      BY <2>1, <2>2, <2>3 DEF Typed
    <2> QED
      BY <1>4, <2>4, StillTyped DEF SpawnErrorEvent
  <1> QED
    BY <1>3, <1>4

\* The timeouts of a stop are well-typed.
LEMMA TimeoutTypes ==
    ASSUME TypeOK, NEW c \in Calls, TermTimeout(c) \/ KillTimeout(c)
    PROVE  TypeOK'
  <1> DEFINE p == call[c].name
             k == call[c].child
  <1>1. Typed
    BY DEF TypeOK, Typed, InfoTable, ChildTable, KidTable, CallTable
  <1>2. p \in Procs /\ k \in Kids \cup {NoKid}
    BY DEF TypeOK, Call
  <1>3. CASE TermTimeout(c)
    <2>1. info' \in InfoTable /\ childProcesses' \in ChildTable
      BY <1>1, <1>2, <1>3, ErrorHandlerTyped DEF TermTimeout, Typed
    <2>2. call' \in CallTable
      BY <1>1, <1>2, <1>3, SuspendType DEF TermTimeout, Typed, Places
    <2>3. Typed'
      BY <1>1, <1>3, <2>1, <2>2 DEF TermTimeout, Typed
    <2> QED
      BY <1>3, <2>3, StillTyped DEF TermTimeout
  <1>4. CASE KillTimeout(c)
    <2>1. info' \in InfoTable /\ kid' \in KidTable
      BY <1>1, <1>2, <1>4, TableTypes DEF KillTimeout, Statuses, Listeners
    <2>2. call' \in CallTable
      BY <1>1, <1>4, ResolveType DEF KillTimeout, Typed, Results
    <2>3. Typed'
      BY <1>1, <1>4, <2>1, <2>2 DEF KillTimeout, Typed
    <2> QED
      BY <1>4, <2>3, StillTyped DEF KillTimeout
  <1> QED
    BY <1>3, <1>4

\* The queue of the keyed lock holds calls, whatever joins and leaves it.
LEMMA LockTypes ==
    ASSUME NEW m \in Lock!Mutex, NEW c \in Calls
    PROVE  /\ Lock!AfterAcquire(m, c) \in Lock!Mutex
           /\ Lock!Forget(Lock!AfterRelease(m)) \in Lock!Mutex
           /\ Lock!Resumed(m) \subseteq Calls
  <1>1. Lock!AfterAcquire(m, c) \in Lock!Mutex
    <2>1. Append(m.queue, c) \in Seq(Calls)
      BY DEF Lock!Mutex
    <2> QED
      BY <2>1 DEF Lock!AfterAcquire, Lock!Mutex
  <1>2. m.queue # <<>> => Tail(m.queue) \in Seq(Calls) /\ Head(m.queue) \in Calls
    BY DEF Lock!Mutex
  <1>3. Lock!AfterRelease(m) \in Lock!Mutex
    BY <1>2 DEF Lock!AfterRelease, Lock!Mutex
  <1>4. Lock!FreshMutex \in Lock!Mutex
    BY DEF Lock!FreshMutex, Lock!Mutex
  <1>5. Lock!Forget(Lock!AfterRelease(m)) \in Lock!Mutex
    BY <1>3, <1>4 DEF Lock!Forget
  <1>6. Lock!Resumed(m) \subseteq Calls
    BY <1>2 DEF Lock!Resumed
  <1> QED
    BY <1>1, <1>5, <1>6

\* A call that begins waits for the lock of its name, or has it.
LEMMA BeginTypes ==
    ASSUME TypeOK, NEW c \in Calls, NEW kind \in Kinds, NEW p \in Procs,
           Begin(c, kind, p)
    PROVE  call' \in [Calls -> Call] /\ mutexes' \in [Procs -> Lock!Mutex]
  <1> DEFINE place == IF mutexes[p].locked THEN "waiting" ELSE "granted"
             new == [at |-> place, kind |-> kind, name |-> p, child |-> NoKid,
                     result |-> "none"]
  <1>1. place \in Places
    BY DEF Places
  <1>2. new \in Call
    BY <1>1 DEF Call, Results
  <1>3. call' = [call EXCEPT ![c] = new]
    BY DEF Begin
  <1> HIDE DEF new
  <1>4. call' \in [Calls -> Call]
    BY <1>2, <1>3 DEF TypeOK
  <1>5. Lock!AfterAcquire(mutexes[p], c) \in Lock!Mutex
    BY LockTypes DEF TypeOK
  <1>6. mutexes' \in [Procs -> Lock!Mutex]
    BY <1>5 DEF Begin, TypeOK
  <1> QED
    BY <1>4, <1>6

\* A new call is well-typed, whoever makes it.
LEMMA RequestTypes ==
    ASSUME TypeOK, NEW c \in Calls, NEW p \in Procs,
           \/ \E kind \in Requests \ {"cleanup"} : Request(c, kind, p)
           \/ TimerFires(c, p)
           \/ MemoryLimitExceeded(c, p)
           \/ CleanupStop(c, p)
    PROVE  TypeOK'
  <1>1. CASE \E kind \in Requests \ {"cleanup"} : Request(c, kind, p)
    <2>1. PICK kind \in Requests \ {"cleanup"} : Request(c, kind, p)
      BY <1>1
    <2>2. kind \in Kinds
      BY ConstantsAssumption DEF Kinds
    <2>3. call' \in [Calls -> Call] /\ mutexes' \in [Procs -> Lock!Mutex]
      BY <2>1, <2>2, BeginTypes DEF Request
    <2> QED
      BY <2>1, <2>3 DEF Request, TypeOK
  <1>2. CASE TimerFires(c, p)
    <2>1. call' \in [Calls -> Call] /\ mutexes' \in [Procs -> Lock!Mutex]
      BY <1>2, BeginTypes DEF TimerFires, Kinds
    <2>2. timers' \in [Procs -> Nat]
      BY <1>2 DEF TimerFires, TypeOK
    <2> QED
      BY <1>2, <2>1, <2>2 DEF TimerFires, TypeOK
  <1>3. CASE MemoryLimitExceeded(c, p)
    <2>1. call' \in [Calls -> Call] /\ mutexes' \in [Procs -> Lock!Mutex]
      BY <1>3, BeginTypes DEF MemoryLimitExceeded, Kinds
    <2>2. sampling' \in [Procs -> BOOLEAN]
      BY <1>3 DEF MemoryLimitExceeded, TypeOK
    <2> QED
      BY <1>3, <2>1, <2>2 DEF MemoryLimitExceeded, TypeOK
  <1>4. CASE CleanupStop(c, p)
    <2>1. call' \in [Calls -> Call] /\ mutexes' \in [Procs -> Lock!Mutex]
      BY <1>4, BeginTypes DEF CleanupStop, Kinds
    <2>2. manager' \in Manager
      BY <1>4 DEF CleanupStop, TypeOK, Manager
    <2> QED
      BY <1>4, <2>1, <2>2 DEF CleanupStop, TypeOK
  <1> QED
    BY <1>1, <1>2, <1>3, <1>4

\* The exit event of a child is well-typed, whoever listens to it.
LEMMA ExitTypes ==
    ASSUME TypeOK, NEW k \in Kids, ExitEvent(k)
    PROVE  TypeOK'
  <1> DEFINE p == kid[k].name
  <1>1. Typed
    BY DEF TypeOK, Typed, InfoTable, ChildTable, KidTable, CallTable
  <1>2. p \in Procs /\ kid[k].ending \in Endings
    BY DEF TypeOK, Kid
  <1>3. kid' \in KidTable
    BY <1>1, <1>2, FreshTypes, TableTypes DEF ExitEvent
  <1>4. CASE DefaultExit(k)
    <2>1. info' \in InfoTable
      BY <1>2, <1>4, AfterExitType DEF DefaultExit, TypeOK, InfoTable
    <2>2. childProcesses' \in ChildTable
      BY <1>1, <1>2, <1>4, TableTypes DEF DefaultExit
    <2>3. timers' \in [Procs -> Nat]
      <3>1. timers[p] \in Nat /\ timers[p] + 1 \in Nat
        BY <1>2 DEF TypeOK
      <3>2. PICK n \in Nat : timers' = [timers EXCEPT ![p] = n]
        <4>1. \/ timers' = [timers EXCEPT ![p] = timers[p] + 1]
              \/ timers' = [timers EXCEPT ![p] = timers[p]]
          BY <1>4 DEF DefaultExit
        <4> QED
          BY <3>1, <4>1
      <3> QED
        BY <3>2 DEF TypeOK
    <2> QED
      BY <1>3, <1>4, <2>1, <2>2, <2>3
         DEF DefaultExit, ExitEvent, TypeOK, InfoTable, ChildTable, KidTable
  <1>5. CASE HandleExit(k)
    <2>1. info' \in InfoTable /\ childProcesses' \in ChildTable
      BY <1>1, <1>2, <1>5, TableTypes DEF HandleExit, Statuses
    <2>2. call' \in CallTable
      BY <1>1, <1>5, StoppedType DEF HandleExit, Typed, Results
    <2> QED
      BY <1>3, <1>5, <2>1, <2>2
         DEF HandleExit, ExitEvent, TypeOK, InfoTable, ChildTable, KidTable, CallTable
  <1>6. CASE IgnoreExit(k)
    BY <1>3, <1>6 DEF IgnoreExit, ExitEvent, TypeOK, KidTable
  <1> QED
    BY <1>4, <1>5, <1>6 DEF ExitEvent

\* Ends of children, configuration, and samples of memory are well-typed.
LEMMA EnvironmentTypes ==
    ASSUME TypeOK,
           \/ \E k \in Kids, ending \in Endings : Ends(k, ending)
           \/ \E p \in Procs :
                 Configure(p) \/ WindowExpires(p) \/ SampleMemory(p) \/ MemoryAccepted(p)
    PROVE  TypeOK'
  <1>1. ASSUME NEW k \in Kids, NEW ending \in Endings, Ends(k, ending)
        PROVE  TypeOK'
    <2>1. [kid[k] EXCEPT !.os = "dead", !.ending = ending] \in Kid
      BY DEF TypeOK, Kid, OsStates
    <2>2. kid' \in [Kids -> Kid]
      BY <1>1, <2>1 DEF Ends, TypeOK
    <2> QED
      BY <1>1, <2>2 DEF Ends, TypeOK
  <1>2. ASSUME NEW p \in Procs, Configure(p)
        PROVE  TypeOK'
    BY <1>2, FreshTypes DEF Configure, TypeOK
  <1>3. ASSUME NEW p \in Procs, WindowExpires(p)
        PROVE  TypeOK'
    <2>1. [info[p] EXCEPT !.window = "expired"] \in Info
      BY DEF TypeOK, Info, Windows
    <2>2. info' \in [Procs -> Info]
      BY <1>3, <2>1 DEF WindowExpires, TypeOK
    <2> QED
      BY <1>3, <2>2 DEF WindowExpires, TypeOK
  <1>4. ASSUME NEW p \in Procs, SampleMemory(p) \/ MemoryAccepted(p)
        PROVE  TypeOK'
    <2>1. sampling' \in [Procs -> BOOLEAN]
      BY <1>4 DEF SampleMemory, MemoryAccepted, TypeOK
    <2> QED
      BY <1>4, <2>1 DEF SampleMemory, MemoryAccepted, TypeOK
  <1> QED
    BY <1>1, <1>2, <1>3, <1>4

\* The steps of ProcessManager.cleanup are well-typed.
LEMMA CleanupTypes ==
    ASSUME TypeOK, CleanupBegin \/ CleanupCleared \/ CleanupDisposed
    PROVE  TypeOK'
  <1>1. CASE CleanupBegin
    <2>1. manager' \in Manager
      BY <1>1 DEF CleanupBegin, TypeOK, Manager
    <2> QED
      BY <1>1, <2>1 DEF CleanupBegin, TypeOK
  <1>2. CASE CleanupCleared
    <2>1. manager' \in Manager
      BY <1>2 DEF CleanupCleared, TypeOK, Manager
    <2> QED
      BY <1>2, <2>1 DEF CleanupCleared, TypeOK
  <1>3. CASE CleanupDisposed
    <2>1. manager' \in Manager
      BY <1>3 DEF CleanupDisposed, TypeOK, Manager
    <2>2. info' \in [Procs -> Info]
      BY <1>3, FreshTypes DEF CleanupDisposed, TypeOK
    <2> QED
      BY <1>3, <2>1, <2>2 DEF CleanupDisposed, TypeOK
  <1> QED
    BY <1>1, <1>2, <1>3

\* The release of the lock is well-typed.
LEMMA ReleaseTypes ==
    ASSUME TypeOK, NEW c \in Calls, Release(c)
    PROVE  TypeOK'
  <1> DEFINE p == call[c].name
  <1>1. p \in Procs /\ mutexes[p] \in Lock!Mutex
    BY DEF TypeOK, Call
  <1>2. mutexes' \in [Procs -> Lock!Mutex]
    BY <1>1, LockTypes DEF Release, TypeOK
  <1>3. IdleCall(p) \in Call
    BY <1>1, FreshTypes
  <1>4. \A d \in Calls : [call[d] EXCEPT !.at = "granted"] \in Call
    BY DEF TypeOK, Call, Places
  <1>5. call' \in [Calls -> Call]
    BY <1>3, <1>4 DEF Release, TypeOK
  <1>6. manager' \in Manager
    BY DEF Release, TypeOK, Manager
  <1> QED
    BY <1>2, <1>5, <1>6 DEF Release, TypeOK

\* The daemon starts well-typed.
LEMMA InitTypes == Init => TypeOK
  <1> SUFFICES ASSUME Init PROVE TypeOK
    OBVIOUS
  <1>1. NoChild.name \in Procs
    BY ConstantsAssumption DEF NoChild
  <1>2. Lock!FreshMutex \in Lock!Mutex
    BY DEF Lock!FreshMutex, Lock!Mutex
  <1>3. manager \in Manager
    BY DEF Init, Manager
  <1> QED
    BY <1>1, <1>2, <1>3, FreshTypes DEF Init, TypeOK

\* Every step keeps the types.
LEMMA NextTypes == TypeOK /\ [Next]_vars => TypeOK'
  <1> SUFFICES ASSUME TypeOK, [Next]_vars PROVE TypeOK'
    OBVIOUS
  <1>1. CASE UNCHANGED vars
    BY <1>1 DEF TypeOK, vars
  <1>2. ASSUME NEW c \in Calls, Microtask(c) \/ OwnTimer(c)
        PROVE  TypeOK'
    BY <1>2, RunTypes, SpawnEventTypes, TimeoutTypes, ReleaseTypes, RequestTypes
       DEF Microtask, OwnTimer
  <1>3. ASSUME NEW c \in Calls, NEW p \in Procs,
               \/ \E kind \in Requests \ {"cleanup"} : Request(c, kind, p)
               \/ TimerFires(c, p)
               \/ MemoryLimitExceeded(c, p)
        PROVE  TypeOK'
    BY <1>3, RequestTypes
  <1>4. ASSUME NEW k \in Kids,
               ExitEvent(k) \/ \E ending \in Endings : Ends(k, ending)
        PROVE  TypeOK'
    BY <1>4, ExitTypes, EnvironmentTypes
  <1>5. ASSUME NEW p \in Procs,
               Configure(p) \/ WindowExpires(p) \/ SampleMemory(p) \/ MemoryAccepted(p)
        PROVE  TypeOK'
    BY <1>5, EnvironmentTypes
  <1>6. CASE CleanupBegin \/ CleanupCleared \/ CleanupDisposed
    BY <1>6, CleanupTypes
  <1> QED
    BY <1>1, <1>2, <1>3, <1>4, <1>5, <1>6 DEF Next

\* Every reachable state is well-typed: a status is one of the five the code
\* knows, a tracked child and a pid are children, the restart budget stays in
\* its range, and the queues of the lock hold calls.
THEOREM TypeCorrect == SafeSpec => []TypeOK
  BY InitTypes, NextTypes, PTL DEF SafeSpec

-----------------------------------------------------------------------------
(***************************************************************************)
(* One operation of a process at a time.  The calls are shown to use       *)
(* operationMutex as KeyedMutex specifies it, step by step; its mutual     *)
(* exclusion, proved there, is then theirs.  That a step of a call is one  *)
(* of the lock needs to know where the call is, and for an exit event that *)
(* the stop it is handed to still waits for it (ListenerWaits); that, in   *)
(* turn, needs to know that a release resumes none but waiting calls,      *)
(* which is part of the invariant of the lock.  So the three are proved    *)
(* together.                                                               *)
(***************************************************************************)
LockedInv == TypeOK /\ ListenerWaits /\ Lock!IInv

\* The places between entering an operation and releasing the lock.
InOperation == {"spawning", "terminating", "killing", "pausing", "resolved"}

\* What a step of an operation does to the calls: it moves its own.
Moved(c) ==
    /\ call' \in CallTable
    /\ call'[c].name = call[c].name
    /\ call'[c].at \in InOperation
    /\ \A d \in Calls \ {c} : call'[d] = call[d]

\* Each way an operation goes on moves its call, and nothing but its call.
LEMMA MovesCall ==
    ASSUME Typed, NEW c \in Calls
    PROVE  /\ \A res \in Results : Resolve(c, res) => Moved(c)
           /\ \A res \in Results : Stopped(c, res) => Moved(c)
           /\ \A place \in {"spawning", "terminating", "killing"} :
                \A k \in Kids \cup {NoKid} : Suspend(c, place, k) => Moved(c)
  <1>1. ASSUME NEW res \in Results, Resolve(c, res) PROVE Moved(c)
    BY <1>1, ResolveType DEF Typed, Moved, InOperation
  <1>2. ASSUME NEW res \in Results, Stopped(c, res) PROVE Moved(c)
    BY <1>2, StoppedType DEF Typed, Moved, InOperation
  <1>3. ASSUME NEW place \in {"spawning", "terminating", "killing"},
               NEW k \in Kids \cup {NoKid}, Suspend(c, place, k)
        PROVE  Moved(c)
    BY <1>3, SuspendType DEF Typed, Moved, InOperation, Places
  <1> QED
    BY <1>1, <1>2, <1>3

\* An operation, up to its first await, moves its own call only.
LEMMA OperationMoves ==
    ASSUME Typed, NEW c \in Calls,
           StartInternal(c) \/ StopInternal(c) \/ SignalInternal(c)
    PROVE  Moved(c)
  <1>1. "success" \in Results /\ "failure" \in Results
    BY DEF Results
  <1>2. CASE StartInternal(c)
    BY <1>1, <1>2, MovesCall DEF StartInternal, Refuse, SpawnThrows, Spawns
  <1>3. CASE StopInternal(c)
    <2>1. childProcesses[call[c].name] \in Kids \cup {NoKid}
      BY DEF Typed, CallTable, Call, ChildTable
    <2> QED
      BY <1>1, <1>3, <2>1, MovesCall
         DEF StopInternal, Refuse, AlreadyStopped, NothingToKill, Terminate, TakeForDead
  <1>4. CASE SignalInternal(c)
    BY <1>1, <1>4, MovesCall DEF SignalInternal, Refuse
  <1> QED
    BY <1>2, <1>3, <1>4

-----------------------------------------------------------------------------
(***************************************************************************)
(* The steps of the lock.                                                  *)
(***************************************************************************)
\* A granted call that moves on enters the lock.
LEMMA Enters ==
    ASSUME TypeOK, NEW c \in Calls, call[c].at = "granted", Moved(c),
           UNCHANGED mutexes
    PROVE  Lock!Enter(c)
  <1>1. [d \in Calls |-> PlaceInLock(call'[d].at)]
          = [[d \in Calls |-> PlaceInLock(call[d].at)] EXCEPT ![c] = "inside"]
    BY DEF Moved, InOperation, PlaceInLock
  <1>2. [d \in Calls |-> call'[d].name] = [d \in Calls |-> call[d].name]
    BY DEF Moved
  <1> QED
    BY <1>1, <1>2 DEF Lock!Enter, PlaceInLock

\* A call that moves on within its operation is no step of the lock.
LEMMA StaysInside ==
    ASSUME TypeOK, NEW c \in Calls, call[c].at \in InOperation, Moved(c),
           UNCHANGED mutexes
    PROVE  UNCHANGED Lock!vars
  <1>1. [d \in Calls |-> PlaceInLock(call'[d].at)]
          = [d \in Calls |-> PlaceInLock(call[d].at)]
    BY DEF Moved, InOperation, PlaceInLock
  <1>2. [d \in Calls |-> call'[d].name] = [d \in Calls |-> call[d].name]
    BY DEF Moved
  <1> QED
    BY <1>1, <1>2 DEF Lock!vars

\* A new call acquires the lock of its name, or queues for it.
LEMMA Acquires ==
    ASSUME TypeOK, NEW c \in Calls, NEW kind \in Kinds, NEW p \in Procs,
           Begin(c, kind, p)
    PROVE  Lock!Acquire(c, p)
  <1>1. /\ call'[c].at = IF mutexes[p].locked THEN "waiting" ELSE "granted"
        /\ call'[c].name = p
        /\ \A d \in Calls \ {c} : call'[d] = call[d]
    BY DEF Begin, TypeOK
  <1>2. PlaceInLock(call[c].at) = "out"
    BY DEF Begin, Idle, PlaceInLock
  <1>3. [d \in Calls |-> PlaceInLock(call'[d].at)]
          = [[d \in Calls |-> PlaceInLock(call[d].at)]
                EXCEPT ![c] = IF mutexes[p].locked THEN "waiting" ELSE "entering"]
    BY <1>1 DEF PlaceInLock
  <1>4. [d \in Calls |-> call'[d].name]
          = [[d \in Calls |-> call[d].name] EXCEPT ![c] = p]
    BY <1>1
  <1>5. mutexes' = [mutexes EXCEPT ![p] = Lock!AfterAcquire(@, c)]
    BY DEF Begin
  <1> QED
    BY <1>2, <1>3, <1>4, <1>5 DEF Lock!Acquire

\* A call whose promise has settled releases the lock it holds.
LEMMA Releases ==
    ASSUME TypeOK, NEW c \in Calls, Release(c)
    PROVE  Lock!Release(c)
  <1> DEFINE p == call[c].name
  <1>1. /\ call[c].at = "resolved"
        /\ mutexes' = [mutexes EXCEPT ![p] = Lock!Forget(Lock!AfterRelease(@))]
        /\ call'[c] = IdleCall(p)
        /\ \A d \in Calls \ {c} :
              IF d \in Lock!Resumed(mutexes[p])
              THEN call'[d] = [call[d] EXCEPT !.at = "granted"]
              ELSE call'[d] = call[d]
    BY DEF Release
  <1>2. \A d \in Calls \ {c} :
           /\ call'[d].name = call[d].name
           /\ call'[d].at = IF d \in Lock!Resumed(mutexes[p]) THEN "granted"
                                                              ELSE call[d].at
    BY <1>1 DEF TypeOK, Call
  <1>3. call'[c].at = "idle" /\ call'[c].name = p
    BY <1>1 DEF IdleCall
  <1>4. \A d \in Calls :
           PlaceInLock(call'[d].at) =
             IF d = c THEN "out"
             ELSE IF d \in Lock!Resumed(mutexes[p]) THEN "entering"
             ELSE PlaceInLock(call[d].at)
    BY <1>2, <1>3 DEF PlaceInLock
  <1>5. [d \in Calls |-> call'[d].name] = [d \in Calls |-> call[d].name]
    BY <1>2, <1>3
  <1>6. PlaceInLock(call[c].at) = "inside"
    BY <1>1 DEF PlaceInLock
  <1> QED
    BY <1>1, <1>4, <1>5, <1>6 DEF Lock!Release

\* What leaves the calls and the lock alone is no step of the lock.
LEMMA NoLockStep ==
    ASSUME UNCHANGED <<call, mutexes>>
    PROVE  UNCHANGED Lock!vars
  BY DEF Lock!vars

\* Every step of the manager is a step of the keyed lock, or none.
LEMMA LockStep ==
    ASSUME TypeOK, ListenerWaits, [Next]_vars
    PROVE  [Lock!Next]_(Lock!vars)
  <1>0. Typed
    BY DEF TypeOK, Typed, InfoTable, ChildTable, KidTable, CallTable
  <1>1. CASE UNCHANGED vars
    BY <1>1, NoLockStep DEF vars
  <1>2. ASSUME NEW c \in Calls, Microtask(c)
        PROVE  [Lock!Next]_(Lock!vars)
    <2>1. CASE Run(c)
      <3>1. Moved(c)
        BY <1>0, <2>1, OperationMoves DEF Run
      <3>2. Lock!Enter(c)
        BY <2>1, <3>1, Enters DEF Run
      <3> QED
        BY <3>2 DEF Lock!Next
    <2>2. CASE SpawnEvent(c) \/ SpawnErrorEvent(c)
      <3>1. Moved(c)
        BY <1>0, <2>2, MovesCall DEF SpawnEvent, SpawnErrorEvent, Results
      <3>2. call[c].at \in InOperation
        BY <2>2 DEF SpawnEvent, SpawnErrorEvent, InOperation
      <3> QED
        BY <2>2, <3>1, <3>2, StaysInside DEF SpawnEvent, SpawnErrorEvent
    <2>3. CASE Release(c)
      BY <2>3, Releases DEF Lock!Next
    <2>4. ASSUME NEW p \in Procs, CleanupStop(c, p)
          PROVE  [Lock!Next]_(Lock!vars)
      <3>1. Lock!Acquire(c, p)
        BY <2>4, Acquires DEF CleanupStop, Kinds
      <3> QED
        BY <3>1 DEF Lock!Next
    <2> QED
      BY <1>2, <2>1, <2>2, <2>3, <2>4 DEF Microtask
  <1>3. ASSUME NEW c \in Calls, OwnTimer(c)
        PROVE  [Lock!Next]_(Lock!vars)
    <2>1. call[c].at \in InOperation /\ UNCHANGED mutexes
      BY <1>3 DEF OwnTimer, TermTimeout, KillTimeout, PauseOver, InOperation
    <2>2. Moved(c)
      <3>1. call[c].child \in Kids \cup {NoKid}
        BY DEF TypeOK, Call
      <3> QED
        BY <1>0, <1>3, <3>1, MovesCall, OperationMoves
           DEF OwnTimer, TermTimeout, KillTimeout, PauseOver, Results
    <2> QED
      BY <2>1, <2>2, StaysInside
  <1>4. ASSUME NEW c \in Calls, NEW p \in Procs,
               \/ \E kind \in Requests \ {"cleanup"} : Request(c, kind, p)
               \/ TimerFires(c, p)
               \/ MemoryLimitExceeded(c, p)
        PROVE  [Lock!Next]_(Lock!vars)
    <2>1. Requests \subseteq Kinds /\ "autoRestart" \in Kinds /\ "memoryRestart" \in Kinds
      BY ConstantsAssumption DEF Kinds
    <2>2. Lock!Acquire(c, p)
      BY <1>4, <2>1, Acquires DEF Request, TimerFires, MemoryLimitExceeded
    <2> QED
      BY <2>2 DEF Lock!Next
  <1>5. ASSUME NEW k \in Kids, ExitEvent(k)
        PROVE  [Lock!Next]_(Lock!vars)
    <2>1. CASE DefaultExit(k) \/ IgnoreExit(k)
      BY <1>5, <2>1, NoLockStep DEF ExitEvent, DefaultExit, IgnoreExit
    <2>2. CASE HandleExit(k)
      <3> DEFINE c == kid[k].onExit
      <3>1. c \in Calls /\ call[c].at \in InOperation
        BY <2>2 DEF HandleExit, ListenerWaits, InOperation
      <3>2. Moved(c)
        BY <1>0, <2>2, <3>1, MovesCall DEF HandleExit, Results
      <3> QED
        BY <1>5, <3>1, <3>2, StaysInside DEF ExitEvent
    <2> QED
      BY <1>5, <2>1, <2>2 DEF ExitEvent
  <1>6. CASE \/ \E k \in Kids, ending \in Endings : Ends(k, ending)
             \/ \E p \in Procs : Configure(p) \/ WindowExpires(p)
                                     \/ SampleMemory(p) \/ MemoryAccepted(p)
             \/ CleanupBegin \/ CleanupCleared \/ CleanupDisposed
    BY <1>6, NoLockStep
       DEF Ends, Configure, WindowExpires, SampleMemory, MemoryAccepted,
           CleanupBegin, CleanupCleared, CleanupDisposed
  <1> QED
    BY <1>1, <1>2, <1>3, <1>4, <1>5, <1>6 DEF Next

-----------------------------------------------------------------------------
(***************************************************************************)
(* The listeners.                                                          *)
(***************************************************************************)
AwaitsExit(c) == call[c].at \in {"terminating", "killing"}

\* The listeners of a stop that is over, which ignore the exit.
Ignoring == {"spent", "denied", "abandoned"}

\* Steps that move no waiting stop and give no exit event to a call.
LEMMA KeepsListeners ==
    ASSUME ListenerWaits,
           \A c \in Calls : AwaitsExit(c) => call'[c] = call[c],
           \A k \in Kids : kid'[k].onExit \in {kid[k].onExit, "none", "default"} \cup Ignoring
    PROVE  ListenerWaits'
  <1>1. ASSUME NEW k \in Kids, kid'[k].onExit \in Calls
        PROVE  LET c == kid'[k].onExit IN
               call'[c].at \in {"terminating", "killing"} /\ call'[c].child = k
    <2>1. kid'[k].onExit = kid[k].onExit
      BY <1>1, ConstantsAssumption DEF Ignoring
    <2> QED
      BY <1>1, <2>1 DEF ListenerWaits, AwaitsExit
  <1> QED
    BY <1>1 DEF ListenerWaits

\* A start gives no exit event to a stop.
LEMMA StartListeners ==
    ASSUME TypeOK, ListenerWaits, NEW c \in Calls, ~AwaitsExit(c), StartInternal(c)
    PROVE  ListenerWaits'
  <1>1. Typed
    BY DEF TypeOK, Typed, InfoTable, ChildTable, KidTable, CallTable
  <1>2. \A d \in Calls : AwaitsExit(d) => call'[d] = call[d]
    BY <1>1, OperationMoves DEF Moved
  <1>3. CASE UNCHANGED kid
    BY <1>2, <1>3, KeepsListeners
  <1>4. CASE Spawns(c, call[c].name)
    <2>1. PICK k \in Kids, os \in {"alive", "unspawned"} :
             kid' = [kid EXCEPT ![k] = [NoChild EXCEPT !.os = os, !.name = call[c].name]]
      BY <1>4 DEF Spawns
    <2>2. PICK b : b = [NoChild EXCEPT !.os = os, !.name = call[c].name]
      OBVIOUS
    <2>3. b.onExit = "none"
      BY <2>2 DEF NoChild
    <2>4. \A j \in Kids : kid'[j].onExit \in {kid[j].onExit, "none"}
      BY <2>1, <2>2, <2>3 DEF TypeOK
    <2> QED
      BY <1>2, <2>4, KeepsListeners
  <1> QED
    BY <1>3, <1>4 DEF StartInternal, Refuse, SpawnThrows

\* An operation takes over the exit of a child only to wait for it.
LEMMA RunListeners ==
    ASSUME TypeOK, ListenerWaits, NEW c \in Calls, Run(c) \/ PauseOver(c)
    PROVE  ListenerWaits'
  <1> DEFINE p == call[c].name
             k == childProcesses[p]
  <1>0. ~AwaitsExit(c)
    BY DEF Run, PauseOver, AwaitsExit
  <1>1. Typed
    BY DEF TypeOK, Typed, InfoTable, ChildTable, KidTable, CallTable
  <1>2. StartInternal(c) \/ StopInternal(c) \/ SignalInternal(c)
    BY DEF Run, PauseOver
  <1>3. \A d \in Calls : AwaitsExit(d) => call'[d] = call[d]
    BY <1>0, <1>1, <1>2, OperationMoves DEF Moved
  <1>4. CASE StartInternal(c)
    BY <1>0, <1>4, StartListeners
  <1>5. CASE UNCHANGED kid
    BY <1>3, <1>5, KeepsListeners
  <1>6. CASE TakeForDead(c, p, k)
    <2>1. \A j \in Kids : kid'[j].onExit \in {kid[j].onExit} \cup Ignoring
      BY <1>6 DEF TakeForDead, TypeOK, Kid, Ignoring
    <2> QED
      BY <1>3, <2>1, KeepsListeners
  <1>7. CASE Terminate(c, p, k)
    <2>1. k \in Kids \cup {NoKid}
      BY <1>1 DEF Typed, CallTable, Call, ChildTable
    <2>2. call'[c].at = "terminating" /\ call'[c].child = k
      BY <1>1, <1>7, <2>1, SuspendType DEF Terminate, Typed, Places
    <2>3. \A j \in Kids : kid'[j].onExit = IF j = k THEN c ELSE kid[j].onExit
      BY <1>7 DEF Terminate, TypeOK, Kid
    <2>4. ASSUME NEW j \in Kids, kid'[j].onExit \in Calls
          PROVE  LET d == kid'[j].onExit IN
                 call'[d].at \in {"terminating", "killing"} /\ call'[d].child = j
      <3>1. CASE j = k
        BY <2>2, <2>3, <3>1
      <3>2. CASE j # k
        BY <1>3, <2>3, <2>4, <3>2 DEF ListenerWaits, AwaitsExit
      <3> QED
        BY <3>1, <3>2
    <2> QED
      BY <2>4 DEF ListenerWaits
  <1> QED
    BY <1>2, <1>4, <1>5, <1>6, <1>7
       DEF StopInternal, SignalInternal, Refuse, AlreadyStopped, NothingToKill

\* A stop that times out for good gives up the exit it waited for.
LEMMA EventListeners ==
    ASSUME TypeOK, ListenerWaits, NEW c \in Calls,
           \/ SpawnEvent(c) \/ SpawnErrorEvent(c)
           \/ TermTimeout(c) \/ KillTimeout(c)
    PROVE  ListenerWaits'
  <1> DEFINE k == call[c].child
  <1>1. Typed
    BY DEF TypeOK, Typed, InfoTable, ChildTable, KidTable, CallTable
  <1>2. k \in Kids \cup {NoKid}
    BY DEF TypeOK, Call
  <1>3. CASE SpawnEvent(c) \/ SpawnErrorEvent(c)
    <2>1. \A d \in Calls : AwaitsExit(d) => call'[d] = call[d]
      BY <1>1, <1>3, ResolveType
         DEF Typed, Results, SpawnEvent, SpawnErrorEvent, AwaitsExit
    <2>2. \A j \in Kids : kid'[j].onExit \in {kid[j].onExit, "none", "default"}
      <3>1. CASE SpawnEvent(c)
        BY <3>1 DEF SpawnEvent, TypeOK, Kid
      <3>2. CASE SpawnErrorEvent(c)
        BY <3>2 DEF SpawnErrorEvent, NoChild, TypeOK, Kid
      <3> QED
        BY <1>3, <3>1, <3>2
    <2> QED
      BY <2>1, <2>2, KeepsListeners
  <1>4. CASE TermTimeout(c)
    <2>1. /\ call'[c].at = "killing" /\ call'[c].child = k
          /\ \A d \in Calls \ {c} : call'[d] = call[d]
      BY <1>1, <1>2, <1>4, SuspendType DEF TermTimeout, Typed, Places
    <2> QED
      BY <1>4, <2>1 DEF TermTimeout, ListenerWaits
  <1>5. CASE KillTimeout(c)
    <2>1. \A d \in Calls \ {c} : call'[d] = call[d]
      BY <1>1, <1>5, ResolveType DEF KillTimeout, Typed, Results
    <2>2. \A j \in Kids : kid'[j].onExit = IF j = k THEN "abandoned" ELSE kid[j].onExit
      BY <1>5 DEF KillTimeout, TypeOK, Kid
    <2>3. ASSUME NEW j \in Kids, kid'[j].onExit \in Calls
          PROVE  LET d == kid'[j].onExit IN
                 call'[d].at \in {"terminating", "killing"} /\ call'[d].child = j
      <3>1. j # k /\ kid'[j].onExit = kid[j].onExit
        BY <2>2, <2>3, ConstantsAssumption
      <3>2. kid[j].onExit # c
        BY <2>3, <3>1 DEF ListenerWaits
      <3> QED
        BY <2>1, <2>3, <3>1, <3>2 DEF ListenerWaits
    <2> QED
      BY <2>3 DEF ListenerWaits
  <1> QED
    BY <1>3, <1>4, <1>5

\* An exit event has one listener, which then has nothing left to wait for.
LEMMA ExitListeners ==
    ASSUME TypeOK, ListenerWaits, NEW k \in Kids, ExitEvent(k)
    PROVE  ListenerWaits'
  <1>1. Typed
    BY DEF TypeOK, Typed, InfoTable, ChildTable, KidTable, CallTable
  <1>2. \A j \in Kids : kid'[j].onExit = IF j = k THEN "none" ELSE kid[j].onExit
    BY DEF ExitEvent, NoChild, TypeOK
  <1>3. CASE UNCHANGED call
    BY <1>2, <1>3, KeepsListeners
  <1>4. CASE HandleExit(k)
    <2> DEFINE c == kid[k].onExit
    <2>1. c \in Calls
      BY <1>4 DEF HandleExit
    <2>2. \A d \in Calls \ {c} : call'[d] = call[d]
      BY <1>1, <1>4, <2>1, StoppedType DEF HandleExit, Typed, Results
    <2>3. ASSUME NEW j \in Kids, kid'[j].onExit \in Calls
          PROVE  LET d == kid'[j].onExit IN
                 call'[d].at \in {"terminating", "killing"} /\ call'[d].child = j
      <3>1. j # k /\ kid'[j].onExit = kid[j].onExit
        BY <1>2, <2>3, ConstantsAssumption
      <3>2. kid[j].onExit # c
        BY <2>1, <2>3, <3>1 DEF ListenerWaits
      <3> QED
        BY <2>2, <2>3, <3>1, <3>2 DEF ListenerWaits
    <2> QED
      BY <2>3 DEF ListenerWaits
  <1> QED
    BY <1>3, <1>4 DEF ExitEvent, DefaultExit, IgnoreExit

\* A release resumes none but calls that wait.
LEMMA ResumedWaits ==
    ASSUME LockedInv, NEW c \in Calls, NEW d \in Lock!Resumed(mutexes[call[c].name])
    PROVE  d \in Calls /\ call[d].at = "waiting"
  <1> DEFINE p == call[c].name
             m == mutexes[p]
  <1>1. p \in Procs /\ m \in Lock!Mutex
    BY DEF LockedInv, TypeOK, Call
  <1>2. m.queue \in Seq(Calls) /\ m.queue # <<>> /\ d = Head(m.queue)
    BY <1>1 DEF Lock!Resumed, Lock!Mutex
  <1>3. 1 \in 1..Len(m.queue) /\ d = m.queue[1]
    BY <1>2
  <1>4. d \in {b \in Calls : Lock!Waits(b, p)}
    BY <1>1, <1>3 DEF Lock!Members, LockedInv, Lock!IInv, Lock!QueueIsWaiters
  <1>5. PlaceInLock(call[d].at) = "waiting"
    BY <1>4 DEF Lock!Waits
  <1> QED
    BY <1>4, <1>5 DEF PlaceInLock

\* So a release disturbs no stop that awaits an exit.
LEMMA ReleaseListeners ==
    ASSUME LockedInv, NEW c \in Calls, Release(c)
    PROVE  ListenerWaits'
  <1>1. \A d \in Lock!Resumed(mutexes[call[c].name]) : d \in Calls /\ call[d].at = "waiting"
    BY ResumedWaits
  <1>2. \A d \in Calls : AwaitsExit(d) => call'[d] = call[d]
    BY <1>1 DEF Release, AwaitsExit
  <1> QED
    BY <1>2, KeepsListeners DEF Release, LockedInv

\* A new call awaits no exit, and disturbs no stop that does.
LEMMA BeginListeners ==
    ASSUME ListenerWaits, NEW c \in Calls, NEW kind, NEW p,
           Begin(c, kind, p), UNCHANGED kid
    PROVE  ListenerWaits'
  <1>1. \A d \in Calls : AwaitsExit(d) => call'[d] = call[d]
    BY DEF Begin, Idle, AwaitsExit
  <1> QED
    BY <1>1, KeepsListeners

\* No step leaves an exit to a stop that does not wait for it.
LEMMA NextListeners ==
    ASSUME LockedInv, [Next]_vars
    PROVE  ListenerWaits'
  <1>0. TypeOK /\ ListenerWaits
    BY DEF LockedInv
  <1>1. CASE UNCHANGED <<call, kid>>
    BY <1>0, <1>1, KeepsListeners
  <1>2. ASSUME NEW c \in Calls, Microtask(c)
        PROVE  ListenerWaits'
    BY <1>0, <1>2, RunListeners, EventListeners, ReleaseListeners, BeginListeners
       DEF Microtask, CleanupStop
  <1>3. ASSUME NEW c \in Calls, OwnTimer(c)
        PROVE  ListenerWaits'
    BY <1>0, <1>3, RunListeners, EventListeners DEF OwnTimer
  <1>4. ASSUME NEW c \in Calls, NEW p \in Procs,
               \/ \E kind \in Requests \ {"cleanup"} : Request(c, kind, p)
               \/ TimerFires(c, p)
               \/ MemoryLimitExceeded(c, p)
        PROVE  ListenerWaits'
    BY <1>0, <1>4, BeginListeners DEF Request, TimerFires, MemoryLimitExceeded
  <1>5. ASSUME NEW k \in Kids, ExitEvent(k)
        PROVE  ListenerWaits'
    BY <1>0, <1>5, ExitListeners
  <1>6. ASSUME NEW k \in Kids, NEW ending \in Endings, Ends(k, ending)
        PROVE  ListenerWaits'
    <2>1. \A j \in Kids : kid'[j].onExit = kid[j].onExit
      BY <1>0, <1>6 DEF Ends, TypeOK, Kid
    <2> QED
      BY <1>0, <1>6, <2>1, KeepsListeners DEF Ends
  <1>7. CASE \/ \E p \in Procs : Configure(p) \/ WindowExpires(p)
                                     \/ SampleMemory(p) \/ MemoryAccepted(p)
             \/ CleanupBegin \/ CleanupCleared \/ CleanupDisposed
    BY <1>1, <1>7
       DEF Configure, WindowExpires, SampleMemory, MemoryAccepted,
           CleanupBegin, CleanupCleared, CleanupDisposed
  <1> QED
    BY <1>1, <1>2, <1>3, <1>4, <1>5, <1>6, <1>7 DEF Next, vars

-----------------------------------------------------------------------------
(***************************************************************************)
(* The theorems of KeyedMutex, for the lock of the manager.                *)
(***************************************************************************)
\* The lock of ProcessLifecycle is the lock the theorems are about ...
LEMMA SameLock ==
    /\ Lock!IInv <=> LockProofs!IInv
    /\ Lock!Init <=> LockProofs!Init
    /\ [Lock!Next]_(Lock!vars) <=> [LockProofs!Next]_(LockProofs!vars)
  <1>1. Lock!Init <=> LockProofs!Init
    BY DEF Lock!Init, LockProofs!Init, Lock!FreshMutex, LockProofs!FreshMutex
  <1>2. Lock!TypeOK <=> LockProofs!TypeOK
    BY DEF Lock!TypeOK, LockProofs!TypeOK, Lock!Mutex, LockProofs!Mutex,
           Lock!Places, LockProofs!Places
  <1>3. Lock!MutualExclusion <=> LockProofs!MutualExclusion
    BY DEF Lock!MutualExclusion, LockProofs!MutualExclusion, Lock!Holds, LockProofs!Holds
  <1>4. Lock!QueueIsWaiters <=> LockProofs!QueueIsWaiters
    BY DEF Lock!QueueIsWaiters, LockProofs!QueueIsWaiters, Lock!Waits, LockProofs!Waits,
           Lock!Members, LockProofs!Members, Lock!Distinct, LockProofs!Distinct
  <1>5. Lock!LockedIffHeld <=> LockProofs!LockedIffHeld
    BY DEF Lock!LockedIffHeld, LockProofs!LockedIffHeld, Lock!Holds, LockProofs!Holds
  <1>6. Lock!IInv <=> LockProofs!IInv
    BY <1>2, <1>3, <1>4, <1>5 DEF Lock!IInv, LockProofs!IInv
  <1>7. Lock!Next <=> LockProofs!Next
    BY DEF Lock!Next, LockProofs!Next, Lock!Acquire, LockProofs!Acquire,
           Lock!Enter, LockProofs!Enter, Lock!Release, LockProofs!Release,
           Lock!AfterAcquire, LockProofs!AfterAcquire,
           Lock!AfterRelease, LockProofs!AfterRelease,
           Lock!Forget, LockProofs!Forget, Lock!Resumed, LockProofs!Resumed,
           Lock!FreshMutex, LockProofs!FreshMutex
  <1>8. [Lock!Next]_(Lock!vars) <=> [LockProofs!Next]_(LockProofs!vars)
    BY <1>7 DEF Lock!vars, LockProofs!vars
  <1> QED
    BY <1>1, <1>6, <1>8

\* ... in the next state too.
LEMMA SameLockPrime == Lock!IInv' <=> LockProofs!IInv'
  <1>1. Lock!IInv <=> LockProofs!IInv
    BY SameLock
  <1> QED
    BY <1>1, PTL

\* The invariant holds at the start, as the initial state of the lock does.
LEMMA InitLocked == Init => LockedInv /\ Lock!Init
  <1> SUFFICES ASSUME Init PROVE LockedInv /\ Lock!Init
    OBVIOUS
  <1>1. TypeOK
    BY InitTypes
  <1>2. ListenerWaits
    BY ConstantsAssumption DEF Init, NoChild, ListenerWaits
  <1>3. Lock!Init
    <2>1. NoChild.name \in Procs
      BY ConstantsAssumption DEF NoChild
    <2>2. \A c \in Calls : call[c].name \in Procs /\ call[c].at = "idle"
      BY <2>1 DEF Init, IdleCall
    <2> QED
      BY <2>2 DEF Init, Lock!Init, PlaceInLock
  <1>4. Lock!IInv
    BY <1>3, SameLock, LockProofs!InitIInv
  <1> QED
    BY <1>1, <1>2, <1>3, <1>4 DEF LockedInv

\* The invariant is kept, and each step is one of the lock.
LEMMA NextLocked == LockedInv /\ [Next]_vars => LockedInv' /\ [Lock!Next]_(Lock!vars)
  <1> SUFFICES ASSUME LockedInv, [Next]_vars
               PROVE  LockedInv' /\ [Lock!Next]_(Lock!vars)
    OBVIOUS
  <1>1. TypeOK'
    BY NextTypes DEF LockedInv
  <1>2. ListenerWaits'
    BY NextListeners
  <1>3. [Lock!Next]_(Lock!vars)
    BY LockStep DEF LockedInv
  <1>4. LockProofs!IInv'
    BY <1>3, SameLock, LockProofs!NextIInv DEF LockedInv
  <1>5. Lock!IInv'
    BY <1>4, SameLockPrime
  <1> QED
    BY <1>1, <1>2, <1>3, <1>5 DEF LockedInv

\* Mutual exclusion of the lock, in terms of the calls.
LEMMA ExcludesCalls == LockedInv => OneOperationPerProcess
  <1> SUFFICES ASSUME LockedInv, NEW c \in Calls, NEW d \in Calls,
                      call[c].at \notin {"idle", "waiting"},
                      call[d].at \notin {"idle", "waiting"},
                      call[c].name = call[d].name
               PROVE  c = d
    BY DEF OneOperationPerProcess
  <1>1. call[c].name \in Procs
    BY DEF LockedInv, TypeOK, Call
  <1>2. Lock!Holds(c, call[c].name) /\ Lock!Holds(d, call[c].name)
    BY DEF Lock!Holds, PlaceInLock
  <1> QED
    BY <1>1, <1>2 DEF LockedInv, Lock!IInv, Lock!MutualExclusion

\* The invariant holds in every reachable state.
LEMMA LockedAlways == SafeSpec => []LockedInv
  BY InitLocked, NextLocked, PTL DEF SafeSpec

\* The operations of the lifecycle manager use operationMutex as the class
\* specifies: acquired once, released by its holder, for the acquired name.
THEOREM UsesLock == SafeSpec => UsesKeyedMutex
  BY InitLocked, NextLocked, LockedAlways, PTL
     DEF SafeSpec, UsesKeyedMutex, Lock!SafeSpec

\* Start, stop and restart of one process never overlap, whoever asks for
\* them: a user, an auto-restart timer, a memory limit or the cleanup.
THEOREM NoOverlap == SafeSpec => []OneOperationPerProcess
  BY LockedAlways, ExcludesCalls, PTL

\* The exit of a child is never handed to a stop that has moved on.
THEOREM ExitsAreAwaited == SafeSpec => []ListenerWaits
  <1>1. LockedInv => ListenerWaits
    BY DEF LockedInv
  <1> QED
    BY <1>1, LockedAlways, PTL

-----------------------------------------------------------------------------
(***************************************************************************)
(* The children.  What the status of a process says of its child depends   *)
(* on the calls: which of them waits for which event of which child.  The  *)
(* invariant says that of every call, of every child and of every status;  *)
(* mutual exclusion of the calls of a name (LockedInv) is what keeps the   *)
(* three together.                                                         *)
(***************************************************************************)
AwaitsSpawn(c) == call[c].at = "spawning"

\* A process that runs, or whose 'exit' event is due.
Unreaped(k) == kid[k].os \in {"alive", "dead"}

\* A call that awaits an event of a child awaits it of a child of its own name,
\* which has no other listener.
ChildrenOfCalls ==
    \A c \in Calls :
        /\ AwaitsSpawn(c) =>
             /\ call[c].child \in Kids
             /\ kid[call[c].child].name = call[c].name
             /\ kid[call[c].child].os # "none"
             /\ kid[call[c].child].onExit = "none"
        /\ AwaitsExit(c) =>
             /\ call[c].child \in Kids
             /\ kid[call[c].child].name = call[c].name
             /\ Unreaped(call[c].child)
             /\ kid[call[c].child].onExit = c

\* A tracked child is one of the process, unless its events are in the past.
TrackedChildren ==
    \A p \in Procs : childProcesses[p] \in Kids =>
        \/ kid[childProcesses[p]].os = "none"
        \/ kid[childProcesses[p]].name = p

\* A start in progress shows, and its child is tracked.
StartsAreShown ==
    InService => \A c \in Calls : AwaitsSpawn(c) =>
        /\ childProcesses[call[c].name] = call[c].child
        /\ info[call[c].name].status = "starting"

\* While a stop is in progress the process is not online.
StopsAreShown ==
    InService => \A c \in Calls : AwaitsExit(c) =>
        info[call[c].name].status # "online"

\* A name that is not configured has no child and a stopped process.
UnknownIsDown ==
    InService =>
        /\ \A k \in Kids : kid[k].os # "none" => kid[k].name \in processes
        /\ \A p \in Procs : p \notin processes => info[p].status = "stopped"

\* A child that has no listener yet is that of a start in progress.
NewChildHasCall ==
    \A k \in Kids : Unreaped(k) /\ kid[k].onExit = "none" =>
        \E c \in Calls : AwaitsSpawn(c) /\ call[c].child = k

\* A child that was left alone since its start is that of an online process,
\* unless a signal that was denied has errored it.
NoDeniedSignal == "signal" \notin Requests \/ "denied" \notin Faults

HandledIsOnline ==
    InService /\ NoDeniedSignal =>
        \A k \in Kids : Unreaped(k) /\ kid[k].onExit = "default" =>
            /\ childProcesses[kid[k].name] = k
            /\ info[kid[k].name].status = "online"

\* Success is known when a call resolves, not before; signals are sent when
\* they are requested; the processes are gone when the manager is.
ResultsAreLast ==
    \A c \in Calls : call[c].result = "success" => call[c].at = "resolved"

SignalsAreRequested ==
    \A c \in Calls : call[c].kind = "signal" => "signal" \in Requests

DisposedIsEmpty == manager.phase = "disposed" => processes = {}

ChildrenInv ==
    /\ ChildrenOfCalls /\ TrackedChildren
    /\ StartsAreShown /\ StopsAreShown /\ UnknownIsDown
    /\ NewChildHasCall /\ HandledIsOnline
    /\ TransientStatusHasOwner /\ OnlineIsTracked

CallsInv == ResultsAreLast /\ SignalsAreRequested /\ DisposedIsEmpty

\* Why an exit is ignored: there is none to come, or a fault of the system.
IgnoredForCause ==
    \A k \in Kids :
        /\ kid[k].onExit = "spent" => ~Unreaped(k)
        /\ Denied(k) => "denied" \in Faults
        /\ Abandoned(k) => Faults # {}

OwnedInv ==
    LockedInv /\ OneOperationPerProcess /\ ChildrenInv /\ CallsInv /\ IgnoredForCause

-----------------------------------------------------------------------------
(***************************************************************************)
(* Frames: what a step need not look at.                                   *)
(***************************************************************************)

\* Steps that touch no status, child or listener, and no call that awaits an
\* event of a child.
LEMMA QuietSteps ==
    ASSUME OwnedInv, UNCHANGED <<childProcesses, kid>>, processes \subseteq processes',
           \A p \in Procs : /\ info'[p].status = info[p].status
                            /\ info[p].status = "online" => info'[p].pid = info[p].pid,
           InService' => InService,
           \A c \in Calls : AwaitsSpawn(c) \/ AwaitsExit(c)
                                \/ AwaitsSpawn(c)' \/ AwaitsExit(c)' => call'[c] = call[c]
    PROVE  ChildrenInv'
  <1>0. ChildrenInv
    BY DEF OwnedInv
  <1>1. \A c \in Calls :
           /\ AwaitsSpawn(c) <=> AwaitsSpawn(c)'
           /\ AwaitsExit(c) <=> AwaitsExit(c)'
           /\ AwaitsSpawn(c) \/ AwaitsExit(c) => call'[c] = call[c]
    BY DEF AwaitsSpawn, AwaitsExit
  <1>2. ChildrenOfCalls' /\ TrackedChildren'
    BY <1>0, <1>1 DEF ChildrenInv, ChildrenOfCalls, TrackedChildren, Unreaped
  <1>3. StartsAreShown' /\ StopsAreShown' /\ UnknownIsDown'
    BY <1>0, <1>1 DEF ChildrenInv, StartsAreShown, StopsAreShown, UnknownIsDown, OwnedInv, LockedInv, TypeOK, Call
  <1>4. NewChildHasCall' /\ HandledIsOnline'
    BY <1>0, <1>1 DEF ChildrenInv, NewChildHasCall, HandledIsOnline, Unreaped, OwnedInv, LockedInv, TypeOK, Kid
  <1>5. TransientStatusHasOwner'
    <2>1. \A p \in Procs : \A c \in Stopping(p) : c \in Stopping(p)'
      BY <1>1 DEF Stopping, AwaitsExit
    <2>2. \A p \in Procs : \A c \in Calls :
             call[c].name = p /\ call[c].at = "spawning"
               => call'[c].name = p /\ call'[c].at = "spawning"
      BY <1>1 DEF AwaitsSpawn
    <2> QED
      BY <1>0, <1>1, <2>1, <2>2 DEF ChildrenInv, TransientStatusHasOwner, Stopping, AwaitsExit
  <1>6. OnlineIsTracked'
    BY <1>0 DEF ChildrenInv, OnlineIsTracked
  <1> QED
    BY <1>2, <1>3, <1>4, <1>5, <1>6 DEF ChildrenInv

\* The calls of one name: one that holds its lock is alone.
LEMMA HolderIsAlone ==
    ASSUME OwnedInv, NEW c \in Calls, call[c].at \notin {"idle", "waiting"}
    PROVE  \A d \in Calls \ {c} : AwaitsSpawn(d) \/ AwaitsExit(d)
                                     => call[d].name # call[c].name
  BY DEF OwnedInv, OneOperationPerProcess, AwaitsSpawn, AwaitsExit

\* A step that ends a process: its call awaits nothing any more, its status is
\* down, and of the children only its own change, by events that end them or
\* by being given up.
LEMMA EndingSteps ==
    ASSUME OwnedInv, NEW c \in Calls, call[c].at \notin {"idle", "waiting"},
           Moved(c), call'[c].at \in {"pausing", "resolved"},
           UNCHANGED <<processes, manager>>,
           NEW p \in Procs, p = call[c].name, InService => p \in processes,
           info'[p].status \in {"stopped", "errored"},
           \A q \in Procs \ {p} : info'[q] = info[q],
           childProcesses'[p] \in {childProcesses[p], NoKid},
           \A q \in Procs \ {p} : childProcesses'[q] = childProcesses[q],
           \A k \in Kids :
              \/ kid'[k] = kid[k]
              \/ kid'[k] = NoChild /\ kid[k].name = p
              \/ /\ kid'[k].onExit \in Ignoring
                 /\ kid'[k].os = kid[k].os /\ kid'[k].name = kid[k].name
                 /\ kid[k].name = p \/ kid[k].os = "none",
           \A k \in Kids : AwaitsSpawn(c) /\ call[c].child = k => ~Unreaped(k)',
           InService /\ NoDeniedSignal =>
              \A k \in Kids : Unreaped(k)' /\ kid'[k].onExit = "default"
                                 => kid'[k].name # p
    PROVE  ChildrenInv'
  <1>0. ChildrenInv
    BY DEF OwnedInv
  <1>1. /\ \A d \in Calls \ {c} : call'[d] = call[d]
        /\ ~AwaitsSpawn(c)' /\ ~AwaitsExit(c)'
    BY DEF Moved, AwaitsSpawn, AwaitsExit
  <1>2. \A d \in Calls \ {c} : AwaitsSpawn(d) \/ AwaitsExit(d) => call[d].name # p
    BY HolderIsAlone
  <1>3. NoChild.os = "none" /\ NoChild.onExit = "none"
    BY DEF NoChild
  <1>4. InService' <=> InService
    BY DEF InService
  <1>5. ChildrenOfCalls'
    BY <1>0, <1>1, <1>2, <1>3
       DEF ChildrenInv, ChildrenOfCalls, AwaitsSpawn, AwaitsExit, Unreaped
  <1>6. TrackedChildren'
    BY <1>0, <1>3, ConstantsAssumption DEF ChildrenInv, TrackedChildren
  <1>7. StartsAreShown' /\ StopsAreShown'
    <2>1. \A d \in Calls : call[d].name \in Procs
      BY DEF OwnedInv, LockedInv, TypeOK, Call
    <2> QED
      BY <1>0, <1>1, <1>2, <1>4, <2>1
         DEF ChildrenInv, StartsAreShown, StopsAreShown, AwaitsSpawn, AwaitsExit
  <1>8. UnknownIsDown'
    BY <1>0, <1>3, <1>4 DEF ChildrenInv, UnknownIsDown
  <1>9. NewChildHasCall'
    BY <1>0, <1>1, <1>3 DEF ChildrenInv, NewChildHasCall, AwaitsSpawn, Unreaped, Ignoring
  <1>10. HandledIsOnline'
    BY <1>0, <1>3, <1>4
       DEF ChildrenInv, HandledIsOnline, Unreaped, OwnedInv, LockedInv, TypeOK, Kid
  <1>11. TransientStatusHasOwner'
    BY <1>0, <1>1, <1>2, <1>3
       DEF ChildrenInv, TransientStatusHasOwner, Stopping, ChildrenOfCalls,
           AwaitsSpawn, AwaitsExit, Unreaped
  <1>12. OnlineIsTracked'
    BY <1>0, <1>3, <1>4 DEF ChildrenInv, OnlineIsTracked
  <1> QED
    BY <1>5, <1>6, <1>7, <1>8, <1>9, <1>10, <1>11, <1>12 DEF ChildrenInv

-----------------------------------------------------------------------------
(***************************************************************************)
(* Starting.                                                               *)
(***************************************************************************)
\* setStatus, as it shows in the table.
LEMMA StatusSet ==
    ASSUME TypeOK, NEW p \in Procs, NEW s \in Statuses,
           info' = [info EXCEPT ![p] = SetStatus(@, s)]
    PROVE  info'[p].status = s /\ \A q \in Procs \ {p} : info'[q] = info[q]
  BY SetStatusType DEF TypeOK

\* What an operation that has ended without an effect leaves as it is.
LEMMA RefusedOperation ==
    ASSUME OwnedInv, NEW c \in Calls, call[c].at \in {"granted", "pausing"},
           Moved(c), call'[c].at \in {"pausing", "resolved"},
           UNCHANGED <<processes, manager, info, childProcesses, kid>>
    PROVE  ChildrenInv'
  <1>1. \A d \in Calls : AwaitsSpawn(d) \/ AwaitsExit(d)
                            \/ AwaitsSpawn(d)' \/ AwaitsExit(d)' => call'[d] = call[d]
    BY DEF Moved, AwaitsSpawn, AwaitsExit
  <1> QED
    BY <1>1, QuietSteps DEF InService

\* spawn() throws, in a process without a child.
LEMMA SpawnThrowsKeeps ==
    ASSUME OwnedInv, NEW c \in Calls, call[c].at \in {"granted", "pausing"},
           NEW p \in Procs, p = call[c].name, p \in processes,
           info[p].status \notin {"online", "starting"},
           SpawnThrows(c, p), UNCHANGED <<processes, manager>>
    PROVE  ChildrenInv'
  <1>1. /\ Moved(c) /\ call'[c].at = "resolved"
    BY MovesCall, ResolveType DEF SpawnThrows, OwnedInv, LockedInv, TypeOK, Typed,
       InfoTable, ChildTable, KidTable, CallTable, Results
  <1>2. info'[p].status = "errored" /\ \A q \in Procs \ {p} : info'[q] = info[q]
    <2>1. SetStatus(info[p], "starting") \in Info
      BY SetStatusType DEF OwnedInv, LockedInv, TypeOK, Statuses
    <2>2. SetStatus(SetStatus(info[p], "starting"), "errored").status = "errored"
      BY <2>1, SetStatusType DEF Statuses
    <2> QED
      BY <2>2 DEF SpawnThrows, OwnedInv, LockedInv, TypeOK
  <1>3. childProcesses'[p] = NoKid
        /\ \A q \in Procs \ {p} : childProcesses'[q] = childProcesses[q]
    BY DEF SpawnThrows, OwnedInv, LockedInv, TypeOK
  <1>4. kid' = kid
    BY DEF SpawnThrows
  <1>5. InService /\ NoDeniedSignal =>
          \A k \in Kids : Unreaped(k)' /\ kid'[k].onExit = "default" => kid'[k].name # p
    BY <1>4 DEF OwnedInv, ChildrenInv, HandledIsOnline, Unreaped
  <1> QED
    BY <1>1, <1>2, <1>3, <1>4, <1>5, EndingSteps DEF AwaitsSpawn

\* spawn() returns a child, in a process without one.
LEMMA SpawnsKeeps ==
    ASSUME OwnedInv, NEW c \in Calls, call[c].at \in {"granted", "pausing"},
           NEW p \in Procs, p = call[c].name, p \in processes,
           info[p].status \notin {"online", "starting"},
           Spawns(c, p), UNCHANGED <<processes, manager>>
    PROVE  ChildrenInv'
  <1>0. ChildrenInv /\ TypeOK
    BY DEF OwnedInv, LockedInv
  <1>1. PICK k \in Kids, os \in {"alive", "unspawned"} :
             /\ Fresh(k)
             /\ info' = [info EXCEPT ![p] = SetStatus(@, "starting")]
             /\ childProcesses' = [childProcesses EXCEPT ![p] = k]
             /\ kid' = [kid EXCEPT ![k] = [NoChild EXCEPT !.os = os, !.name = p]]
             /\ Suspend(c, "spawning", k)
    BY DEF Spawns
  <1>2. /\ call'[c].at = "spawning" /\ call'[c].child = k /\ call'[c].name = p
        /\ \A d \in Calls \ {c} : call'[d] = call[d]
    BY <1>0, <1>1, SuspendType DEF TypeOK, CallTable, Places
  <1>3. info'[p].status = "starting" /\ \A q \in Procs \ {p} : info'[q] = info[q]
    BY <1>0, <1>1, StatusSet DEF Statuses
  <1>4. childProcesses'[p] = k
        /\ \A q \in Procs \ {p} : childProcesses'[q] = childProcesses[q]
    BY <1>0, <1>1 DEF TypeOK
  <1>5. /\ kid'[k].os = os /\ kid'[k].name = p /\ kid'[k].onExit = "none"
        /\ \A j \in Kids \ {k} : kid'[j] = kid[j]
    BY <1>0, <1>1 DEF TypeOK, NoChild
  <1>6. kid[k].os = "none" /\ \A q \in Procs : childProcesses[q] # k
    BY <1>1 DEF Fresh
  <1>7. \A d \in Calls \ {c} : AwaitsSpawn(d) \/ AwaitsExit(d) => call[d].name # p
    BY HolderIsAlone
  <1>8. ~AwaitsSpawn(c) /\ ~AwaitsExit(c)
    BY DEF AwaitsSpawn, AwaitsExit
  <1>9. InService' <=> InService
    BY DEF InService
  <1>10. ChildrenOfCalls'
    BY <1>0, <1>2, <1>5, <1>6
       DEF ChildrenInv, ChildrenOfCalls, AwaitsSpawn, AwaitsExit, Unreaped
  <1>11. TrackedChildren'
    BY <1>0, <1>4, <1>5, <1>6 DEF ChildrenInv, TrackedChildren
  <1>12. StartsAreShown' /\ StopsAreShown'
    <2>1. \A d \in Calls : call[d].name \in Procs
      BY <1>0 DEF TypeOK, Call
    <2> QED
      BY <1>0, <1>2, <1>3, <1>4, <1>7, <1>9, <2>1
         DEF ChildrenInv, StartsAreShown, StopsAreShown, AwaitsSpawn, AwaitsExit
  <1>13. UnknownIsDown'
    BY <1>0, <1>3, <1>5, <1>9 DEF ChildrenInv, UnknownIsDown
  <1>14. NewChildHasCall'
    BY <1>0, <1>2, <1>5, <1>8 DEF ChildrenInv, NewChildHasCall, AwaitsSpawn, Unreaped
  <1>15. HandledIsOnline'
    BY <1>0, <1>3, <1>4, <1>5, <1>9
       DEF ChildrenInv, HandledIsOnline, Unreaped, TypeOK, Kid
  <1>16. TransientStatusHasOwner'
    BY <1>0, <1>2, <1>3, <1>5, <1>6, <1>7, <1>8
       DEF ChildrenInv, TransientStatusHasOwner, Stopping, ChildrenOfCalls,
           AwaitsSpawn, AwaitsExit, Unreaped
  <1>17. OnlineIsTracked'
    BY <1>0, <1>3, <1>4, <1>5, <1>6, <1>9 DEF ChildrenInv, OnlineIsTracked
  <1> QED
    BY <1>10, <1>11, <1>12, <1>13, <1>14, <1>15, <1>16, <1>17 DEF ChildrenInv

\* startProcessInternal, up to its first await.
LEMMA StartKeeps ==
    ASSUME OwnedInv, NEW c \in Calls, call[c].at \in {"granted", "pausing"},
           StartInternal(c), UNCHANGED <<processes, manager>>
    PROVE  ChildrenInv'
  <1>1. TypeOK /\ Typed /\ call[c].name \in Procs
    BY DEF OwnedInv, LockedInv, TypeOK, Typed, InfoTable, ChildTable, KidTable,
           CallTable, Call
  <1>2. CASE Refuse(c)
    <2>1. Moved(c) /\ call'[c].at = "resolved"
      BY <1>1, <1>2, MovesCall, ResolveType DEF Refuse, Typed, Results
    <2> QED
      BY <1>2, <2>1, RefusedOperation DEF Refuse
  <1> QED
    BY <1>1, <1>2, SpawnThrowsKeeps, SpawnsKeeps DEF StartInternal

\* The 'spawn' event: the process is online, with the child it has started.
LEMMA SpawnEventKeeps ==
    ASSUME OwnedInv, NEW c \in Calls, SpawnEvent(c)
    PROVE  ChildrenInv'
  <1> DEFINE p == call[c].name
             k == call[c].child
  <1>0. ChildrenInv /\ TypeOK /\ p \in Procs
    BY DEF OwnedInv, LockedInv, TypeOK, Call
  <1>1. /\ k \in Kids /\ kid[k].name = p /\ Unreaped(k) /\ kid[k].onExit = "none"
    <2>1. AwaitsSpawn(c) /\ kid[k].os # "unspawned"
      BY DEF SpawnEvent, AwaitsSpawn
    <2>2. k \in Kids /\ kid[k].name = p /\ kid[k].onExit = "none" /\ kid[k].os # "none"
      BY <1>0, <2>1 DEF ChildrenInv, ChildrenOfCalls
    <2> QED
      BY <1>0, <2>1, <2>2 DEF TypeOK, Kid, OsStates, Unreaped
  <1>2. /\ call'[c].at = "resolved" /\ call'[c].name = p
        /\ \A d \in Calls \ {c} : call'[d] = call[d]
    BY <1>0, ResolveType DEF SpawnEvent, TypeOK, CallTable, Results
  <1>3. /\ info'[p].status = "online" /\ info'[p].pid = k
        /\ \A q \in Procs \ {p} : info'[q] = info[q]
    <2>1. [info[p] EXCEPT !.pid = k].pid = k
      BY <1>0 DEF TypeOK, Info
    <2>2. Online(info[p], k).status = "online" /\ Online(info[p], k).pid = k
      BY <1>0, <2>1 DEF Online, SetStatus, TypeOK, Info
    <2> QED
      BY <1>0, <2>2 DEF SpawnEvent, TypeOK
  <1>4. /\ kid'[k].onExit = "default" /\ kid'[k].os = kid[k].os /\ kid'[k].name = p
        /\ \A j \in Kids \ {k} : kid'[j] = kid[j]
    BY <1>0, <1>1 DEF SpawnEvent, TypeOK, Kid
  <1>5. UNCHANGED <<childProcesses, processes>> /\ (InService' <=> InService)
    BY DEF SpawnEvent, InService
  <1>6. AwaitsSpawn(c) /\ ~AwaitsExit(c) /\ ~AwaitsSpawn(c)' /\ ~AwaitsExit(c)'
    BY <1>2 DEF SpawnEvent, AwaitsSpawn, AwaitsExit
  <1>7. \A d \in Calls \ {c} : AwaitsSpawn(d) \/ AwaitsExit(d) => call[d].name # p
    BY <1>6, HolderIsAlone DEF AwaitsSpawn
  <1> HIDE DEF p, k
  <1>10. ChildrenOfCalls'
    BY <1>0, <1>1, <1>2, <1>4, <1>6, <1>7
       DEF ChildrenInv, ChildrenOfCalls, AwaitsSpawn, AwaitsExit, Unreaped
  <1>11. TrackedChildren'
    BY <1>0, <1>1, <1>4, <1>5 DEF ChildrenInv, TrackedChildren
  <1>12. StartsAreShown' /\ StopsAreShown'
    <2>1. \A d \in Calls : call[d].name \in Procs
      BY <1>0 DEF TypeOK, Call
    <2> QED
      BY <1>0, <1>2, <1>3, <1>5, <1>6, <1>7, <2>1
         DEF ChildrenInv, StartsAreShown, StopsAreShown, AwaitsSpawn, AwaitsExit
  <1>13. UnknownIsDown'
    BY <1>0, <1>1, <1>3, <1>4, <1>5 DEF ChildrenInv, UnknownIsDown, Unreaped
  <1>14. NewChildHasCall'
    <2>1. k = call[c].child
      BY DEF k
    <2> QED
      BY <1>0, <1>2, <1>4, <2>1 DEF ChildrenInv, NewChildHasCall, AwaitsSpawn, Unreaped
  <1>15. HandledIsOnline'
    <2>1. InService => childProcesses[p] = k
      BY <1>0, <1>6 DEF ChildrenInv, StartsAreShown, p, k
    <2> QED
      BY <1>0, <1>3, <1>4, <1>5, <2>1
         DEF ChildrenInv, HandledIsOnline, Unreaped, TypeOK, Kid
  <1>16. TransientStatusHasOwner'
    <2>1. p = call[c].name
      BY DEF p
    <2> QED
      BY <1>0, <1>1, <1>2, <1>3, <1>4, <1>6, <1>7, <2>1
         DEF ChildrenInv, TransientStatusHasOwner, Stopping, ChildrenOfCalls,
             AwaitsSpawn, AwaitsExit, Unreaped
  <1>17. OnlineIsTracked'
    <2>1. InService => childProcesses[p] = k
      BY <1>0, <1>6 DEF ChildrenInv, StartsAreShown, p, k
    <2> QED
      BY <1>0, <1>1, <1>3, <1>4, <1>5, <2>1 DEF ChildrenInv, OnlineIsTracked, Unreaped
  <1> QED
    BY <1>10, <1>11, <1>12, <1>13, <1>14, <1>15, <1>16, <1>17 DEF ChildrenInv

\* The 'error' event of a child that could not be spawned.
LEMMA SpawnErrorKeeps ==
    ASSUME OwnedInv, NEW c \in Calls, SpawnErrorEvent(c)
    PROVE  ChildrenInv'
  <1> DEFINE p == call[c].name
  <1>0. ChildrenInv /\ TypeOK /\ p \in Procs
    BY DEF OwnedInv, LockedInv, TypeOK, Call
  <1>1. PICK k \in Kids : /\ AwaitsSpawn(c) /\ k = call[c].child
                         /\ kid[k].name = p /\ kid[k].onExit = "none"
                         /\ kid[k].os # "none"
    BY <1>0 DEF ChildrenInv, ChildrenOfCalls, SpawnErrorEvent, AwaitsSpawn
  <1>2. Moved(c) /\ call'[c].at = "resolved"
    BY <1>0, MovesCall, ResolveType
       DEF SpawnErrorEvent, TypeOK, Typed, InfoTable, ChildTable, KidTable,
           CallTable, Results
  <1>3. info'[p].status = "errored" /\ \A q \in Procs \ {p} : info'[q] = info[q]
    BY <1>0, StatusSet DEF SpawnErrorEvent, ErrorHandler, Statuses
  <1>4. childProcesses'[p] = NoKid
        /\ \A q \in Procs \ {p} : childProcesses'[q] = childProcesses[q]
    BY <1>0 DEF SpawnErrorEvent, ErrorHandler, TypeOK
  <1>5. kid'[k] = NoChild /\ \A j \in Kids \ {k} : kid'[j] = kid[j]
    BY <1>0, <1>1 DEF SpawnErrorEvent, TypeOK
  <1>6. ~Unreaped(k)'
    BY <1>5 DEF Unreaped, NoChild
  <1>7. InService => p \in processes /\ childProcesses[p] = k
    BY <1>0, <1>1 DEF ChildrenInv, UnknownIsDown, StartsAreShown
  <1>8. InService /\ NoDeniedSignal =>
          \A j \in Kids : Unreaped(j)' /\ kid'[j].onExit = "default" => kid'[j].name # p
    BY <1>0, <1>1, <1>5, <1>6, <1>7 DEF ChildrenInv, HandledIsOnline, Unreaped
  <1>9. UNCHANGED <<processes, manager>> /\ call[c].at \notin {"idle", "waiting"}
    BY DEF SpawnErrorEvent
  <1>10. \A j \in Kids : AwaitsSpawn(c) /\ call[c].child = j => ~Unreaped(j)'
    BY <1>1, <1>6
  <1>11. \A j \in Kids : \/ kid'[j] = kid[j]
                         \/ kid'[j] = NoChild /\ kid[j].name = p
    BY <1>1, <1>5
  <1> QED
    BY <1>0, <1>2, <1>3, <1>4, <1>7, <1>8, <1>9, <1>10, <1>11, EndingSteps

-----------------------------------------------------------------------------
(***************************************************************************)
(* Stopping.                                                               *)
(***************************************************************************)
\* There is no child to kill: none was left alone since its start either.
LEMMA NothingToKillKeeps ==
    ASSUME OwnedInv, NEW c \in Calls, call[c].at = "granted",
           NEW p \in Procs, p = call[c].name, p \in processes,
           childProcesses[p] = NoKid,
           NothingToKill(c, p), UNCHANGED <<processes, manager>>
    PROVE  ChildrenInv'
  <1>0. ChildrenInv /\ TypeOK /\ Typed
    BY DEF OwnedInv, LockedInv, TypeOK, Typed, InfoTable, ChildTable, KidTable,
           CallTable
  <1>1. Moved(c) /\ call'[c].at \in {"pausing", "resolved"}
    BY <1>0, MovesCall, StoppedType DEF NothingToKill, Typed, Results
  <1>2. info'[p].status = "stopped" /\ \A q \in Procs \ {p} : info'[q] = info[q]
    BY <1>0, StatusSet DEF NothingToKill, Statuses
  <1>3. UNCHANGED <<childProcesses, kid>>
    BY DEF NothingToKill
  <1>4. InService /\ NoDeniedSignal =>
          \A k \in Kids : Unreaped(k)' /\ kid'[k].onExit = "default" => kid'[k].name # p
    BY <1>0, <1>3, ConstantsAssumption DEF ChildrenInv, HandledIsOnline, Unreaped
  <1> QED
    BY <1>1, <1>2, <1>3, <1>4, EndingSteps DEF AwaitsSpawn

\* A child that is taken for dead is given up.
LEMMA TakeForDeadKeeps ==
    ASSUME OwnedInv, NEW c \in Calls, call[c].at = "granted",
           NEW p \in Procs, p = call[c].name, p \in processes,
           NEW k \in Kids, k = childProcesses[p],
           TakeForDead(c, p, k), UNCHANGED <<processes, manager>>
    PROVE  ChildrenInv'
  <1>0. ChildrenInv /\ TypeOK /\ Typed
    BY DEF OwnedInv, LockedInv, TypeOK, Typed, InfoTable, ChildTable, KidTable,
           CallTable
  <1>1. Moved(c) /\ call'[c].at \in {"pausing", "resolved"}
    BY <1>0, MovesCall, StoppedType DEF TakeForDead, Typed, Results
  <1>2. info'[p].status = "stopped" /\ \A q \in Procs \ {p} : info'[q] = info[q]
    BY <1>0, StatusSet DEF TakeForDead, Statuses
  <1>3. /\ childProcesses'[p] = NoKid
        /\ \A q \in Procs \ {p} : childProcesses'[q] = childProcesses[q]
    BY <1>0 DEF TakeForDead, TypeOK
  <1>4. /\ kid'[k].onExit \in {"spent", "denied"} /\ kid'[k].os = kid[k].os /\ kid'[k].name = kid[k].name
        /\ \A j \in Kids \ {k} : kid'[j] = kid[j]
    BY <1>0 DEF TakeForDead, TypeOK, Kid
  <1>5. kid[k].name = p \/ kid[k].os = "none"
    BY <1>0 DEF ChildrenInv, TrackedChildren
  <1>7. kid'[k].onExit \in Ignoring
    BY <1>4 DEF Ignoring
  <1>6. InService /\ NoDeniedSignal =>
          \A j \in Kids : Unreaped(j)' /\ kid'[j].onExit = "default" => kid'[j].name # p
    BY <1>0, <1>4 DEF ChildrenInv, HandledIsOnline, Unreaped
  <1> QED
    BY <1>1, <1>2, <1>3, <1>4, <1>5, <1>6, <1>7, EndingSteps DEF AwaitsSpawn

\* SIGTERM is sent: the call is the one listener of the child's exit.
LEMMA TerminateKeeps ==
    ASSUME OwnedInv, NEW c \in Calls, call[c].at = "granted",
           NEW p \in Procs, p = call[c].name, p \in processes,
           NEW k \in Kids, k = childProcesses[p],
           Terminate(c, p, k), UNCHANGED <<processes, manager>>
    PROVE  ChildrenInv'
  <1>0. ChildrenInv /\ TypeOK
    BY DEF OwnedInv, LockedInv
  <1>1. Unreaped(k) /\ kid[k].name = p
    <2>1. Unreaped(k)
      BY DEF Terminate, CanKill, Unreaped
    <2> QED
      BY <1>0, <2>1 DEF ChildrenInv, TrackedChildren, Unreaped
  <1>2. /\ call'[c].at = "terminating" /\ call'[c].child = k /\ call'[c].name = p
        /\ \A d \in Calls \ {c} : call'[d] = call[d]
    BY <1>0, SuspendType DEF Terminate, TypeOK, CallTable, Places
  <1>3. info'[p].status = "stopping" /\ \A q \in Procs \ {p} : info'[q] = info[q]
    BY <1>0, StatusSet DEF Terminate, Statuses
  <1>4. /\ kid'[k].onExit = c /\ kid'[k].os = kid[k].os /\ kid'[k].name = p
        /\ \A j \in Kids \ {k} : kid'[j] = kid[j]
    BY <1>0, <1>1 DEF Terminate, TypeOK, Kid
  <1>5. UNCHANGED <<childProcesses, processes>> /\ (InService' <=> InService)
    BY DEF Terminate, InService
  <1>6. c \notin {"none", "default"}
    BY ConstantsAssumption
  <1>7. \A d \in Calls \ {c} : AwaitsSpawn(d) \/ AwaitsExit(d) => call[d].name # p
    BY HolderIsAlone
  <1>8. ~AwaitsSpawn(c) /\ ~AwaitsExit(c) /\ ~AwaitsSpawn(c)' /\ AwaitsExit(c)'
    BY <1>2 DEF AwaitsSpawn, AwaitsExit
  <1>10. ChildrenOfCalls'
    BY <1>0, <1>1, <1>2, <1>4, <1>7, <1>8
       DEF ChildrenInv, ChildrenOfCalls, AwaitsSpawn, AwaitsExit, Unreaped
  <1>11. TrackedChildren'
    BY <1>0, <1>1, <1>4, <1>5 DEF ChildrenInv, TrackedChildren
  <1>12. StartsAreShown' /\ StopsAreShown'
    <2>1. \A d \in Calls : call[d].name \in Procs
      BY <1>0 DEF TypeOK, Call
    <2> QED
      BY <1>0, <1>2, <1>3, <1>5, <1>7, <1>8, <2>1
         DEF ChildrenInv, StartsAreShown, StopsAreShown, AwaitsSpawn, AwaitsExit
  <1>13. UnknownIsDown'
    BY <1>0, <1>1, <1>3, <1>4, <1>5 DEF ChildrenInv, UnknownIsDown, Unreaped
  <1>14. NewChildHasCall'
    BY <1>0, <1>2, <1>4, <1>6, <1>8 DEF ChildrenInv, NewChildHasCall, AwaitsSpawn, Unreaped
  <1>15. HandledIsOnline'
    BY <1>0, <1>3, <1>4, <1>5, <1>6
       DEF ChildrenInv, HandledIsOnline, Unreaped, TypeOK, Kid
  <1>16. TransientStatusHasOwner'
    BY <1>0, <1>1, <1>2, <1>3, <1>4, <1>7, <1>8
       DEF ChildrenInv, TransientStatusHasOwner, Stopping, ChildrenOfCalls,
           AwaitsSpawn, AwaitsExit, Unreaped
  <1>17. OnlineIsTracked'
    BY <1>0, <1>1, <1>3, <1>4, <1>5 DEF ChildrenInv, OnlineIsTracked
  <1> QED
    BY <1>10, <1>11, <1>12, <1>13, <1>14, <1>15, <1>16, <1>17 DEF ChildrenInv

\* stopProcessInternal, up to its first await.
LEMMA StopKeeps ==
    ASSUME OwnedInv, NEW c \in Calls, call[c].at = "granted",
           StopInternal(c), UNCHANGED <<processes, manager>>
    PROVE  ChildrenInv'
  <1> DEFINE p == call[c].name
             k == childProcesses[p]
  <1>1. TypeOK /\ Typed /\ p \in Procs
    BY DEF OwnedInv, LockedInv, TypeOK, Typed, InfoTable, ChildTable, KidTable,
           CallTable, Call
  <1>2. k \in Kids \cup {NoKid}
    BY <1>1 DEF TypeOK
  <1>3. CASE Refuse(c) \/ AlreadyStopped(c)
    <2>1. Moved(c) /\ call'[c].at \in {"pausing", "resolved"}
      BY <1>1, <1>3, MovesCall, ResolveType, StoppedType
         DEF Refuse, AlreadyStopped, Typed, Results
    <2> QED
      BY <1>3, <2>1, RefusedOperation DEF Refuse, AlreadyStopped
  <1> QED
    BY <1>1, <1>2, <1>3, NothingToKillKeeps, TerminateKeeps, TakeForDeadKeeps
       DEF StopInternal

\* A signal that is denied runs the 'error' handler, which forgets the child.
LEMMA SignalKeeps ==
    ASSUME OwnedInv, NEW c \in Calls, call[c].at = "granted",
           call[c].kind = "signal",
           SignalInternal(c), UNCHANGED <<processes, manager>>
    PROVE  ChildrenInv'
  <1> DEFINE p == call[c].name
  <1>0. ChildrenInv /\ TypeOK /\ Typed /\ p \in Procs
    BY DEF OwnedInv, LockedInv, TypeOK, Typed, InfoTable, ChildTable, KidTable,
           CallTable, Call
  <1>1. Moved(c) /\ call'[c].at = "resolved"
    BY <1>0, MovesCall, ResolveType DEF SignalInternal, Refuse, Typed, Results
  <1>2. CASE UNCHANGED <<info, childProcesses, kid>>
    BY <1>1, <1>2, RefusedOperation
  <1>3. CASE /\ p \in processes /\ TRUE \in Denials
             /\ ErrorHandler(p) /\ UNCHANGED kid
    <2>1. info'[p].status = "errored" /\ \A q \in Procs \ {p} : info'[q] = info[q]
      BY <1>0, <1>3, StatusSet DEF ErrorHandler, Statuses
    <2>2. /\ childProcesses'[p] = NoKid
          /\ \A q \in Procs \ {p} : childProcesses'[q] = childProcesses[q]
      BY <1>0, <1>3 DEF ErrorHandler, TypeOK
    <2>3. ~NoDeniedSignal
      BY <1>3 DEF NoDeniedSignal, Denials, OwnedInv, CallsInv, SignalsAreRequested
    <2> QED
      BY <1>0, <1>1, <1>3, <2>1, <2>2, <2>3, EndingSteps DEF AwaitsSpawn
  <1> QED
    BY <1>2, <1>3 DEF SignalInternal, Refuse

\* An operation that enters, or goes on after its pause.
LEMMA RunKeeps ==
    ASSUME OwnedInv, NEW c \in Calls, Run(c) \/ PauseOver(c)
    PROVE  ChildrenInv'
  BY StartKeeps, StopKeeps, SignalKeeps DEF Run, PauseOver

\* SIGKILL is sent; if it is denied the 'error' handler runs.
LEMMA TermTimeoutKeeps ==
    ASSUME OwnedInv, NEW c \in Calls, TermTimeout(c)
    PROVE  ChildrenInv'
  <1>0. ChildrenInv /\ TypeOK
    BY DEF OwnedInv, LockedInv
  <1>1. PICK p \in Procs, k \in Kids :
           /\ p = call[c].name /\ k = call[c].child
           /\ kid[k].name = p /\ Unreaped(k) /\ kid[k].onExit = c
    BY <1>0 DEF ChildrenInv, ChildrenOfCalls, TermTimeout, AwaitsExit, TypeOK, Call
  <1>2. /\ call'[c].at = "killing" /\ call'[c].child = k /\ call'[c].name = p
        /\ \A d \in Calls \ {c} : call'[d] = call[d]
    BY <1>0, <1>1, SuspendType DEF TermTimeout, TypeOK, CallTable, Places
  <1>3. AwaitsExit(c) /\ ~AwaitsSpawn(c) /\ AwaitsExit(c)' /\ ~AwaitsSpawn(c)'
    BY <1>2 DEF TermTimeout, AwaitsExit, AwaitsSpawn
  <1>4. UNCHANGED <<processes, manager, kid>> /\ (InService' <=> InService)
    BY DEF TermTimeout, InService
  <1>5. /\ \A q \in Procs \ {p} : info'[q] = info[q] /\ childProcesses'[q] = childProcesses[q]
        /\ \/ info'[p] = info[p] /\ childProcesses'[p] = childProcesses[p]
           \/ info'[p].status = "errored" /\ childProcesses'[p] = NoKid
    <2>1. CASE UNCHANGED <<info, childProcesses>>
      BY <2>1
    <2>2. CASE ErrorHandler(p)
      <3>1. info'[p].status = "errored" /\ \A q \in Procs \ {p} : info'[q] = info[q]
        BY <1>0, <2>2, StatusSet DEF ErrorHandler, Statuses
      <3>2. /\ childProcesses'[p] = NoKid
            /\ \A q \in Procs \ {p} : childProcesses'[q] = childProcesses[q]
        BY <1>0, <2>2 DEF ErrorHandler, TypeOK
      <3> QED
        BY <3>1, <3>2
    <2> QED
      BY <1>1, <2>1, <2>2 DEF TermTimeout
  <1>6. \A d \in Calls \ {c} : AwaitsSpawn(d) \/ AwaitsExit(d) => call[d].name # p
    BY <1>1, <1>3, HolderIsAlone DEF AwaitsExit
  <1>10. ChildrenOfCalls'
    BY <1>0, <1>1, <1>2, <1>3, <1>4, <1>6
       DEF ChildrenInv, ChildrenOfCalls, AwaitsSpawn, AwaitsExit, Unreaped
  <1>11. TrackedChildren'
    BY <1>0, <1>4, <1>5, ConstantsAssumption DEF ChildrenInv, TrackedChildren
  <1>12. StartsAreShown' /\ StopsAreShown'
    <2>1. \A d \in Calls : call[d].name \in Procs
      BY <1>0 DEF TypeOK, Call
    <2> QED
      BY <1>0, <1>1, <1>2, <1>3, <1>4, <1>5, <1>6, <2>1
         DEF ChildrenInv, StartsAreShown, StopsAreShown, AwaitsSpawn, AwaitsExit
  <1>13. UnknownIsDown'
    BY <1>0, <1>1, <1>4, <1>5 DEF ChildrenInv, UnknownIsDown, Unreaped
  <1>14. NewChildHasCall'
    BY <1>0, <1>2, <1>3, <1>4 DEF ChildrenInv, NewChildHasCall, AwaitsSpawn, Unreaped
  <1>15. HandledIsOnline'
    <2>1. InService => info[p].status # "online"
      BY <1>0, <1>1, <1>3 DEF ChildrenInv, StopsAreShown
    <2> QED
      BY <1>0, <1>4, <1>5, <2>1
         DEF ChildrenInv, HandledIsOnline, Unreaped, TypeOK, Kid
  <1>16. TransientStatusHasOwner'
    <2>1. \A q \in Procs : \A d \in Stopping(q) : kid[call[d].child].onExit = d =>
             d \in Stopping(q)' /\ kid'[call'[d].child].onExit = d
      BY <1>1, <1>2, <1>3, <1>4 DEF Stopping, AwaitsExit
    <2>2. \A q \in Procs, d \in Calls : call[d].name = q /\ AwaitsSpawn(d) =>
             call'[d].name = q /\ AwaitsSpawn(d)'
      BY <1>2, <1>3 DEF AwaitsSpawn
    <2>3. \A q \in Procs : info'[q].status \in {info[q].status, "errored"}
      BY <1>5
    <2> QED
      BY <1>0, <2>1, <2>2, <2>3 DEF ChildrenInv, TransientStatusHasOwner, Stopping, AwaitsSpawn
  <1>17. OnlineIsTracked'
    BY <1>0, <1>4, <1>5 DEF ChildrenInv, OnlineIsTracked
  <1> QED
    BY <1>10, <1>11, <1>12, <1>13, <1>14, <1>15, <1>16, <1>17 DEF ChildrenInv

\* The stop gives up on its child.
LEMMA KillTimeoutKeeps ==
    ASSUME OwnedInv, NEW c \in Calls, KillTimeout(c)
    PROVE  ChildrenInv'
  <1>0. ChildrenInv /\ TypeOK /\ Typed
    BY DEF OwnedInv, LockedInv, TypeOK, Typed, InfoTable, ChildTable, KidTable,
           CallTable
  <1>1. PICK p \in Procs, k \in Kids :
           /\ p = call[c].name /\ k = call[c].child
           /\ kid[k].name = p /\ Unreaped(k) /\ kid[k].onExit = c
    BY <1>0 DEF ChildrenInv, ChildrenOfCalls, KillTimeout, AwaitsExit, TypeOK, Call
  <1>2. Moved(c) /\ call'[c].at = "resolved"
    BY <1>0, MovesCall, ResolveType DEF KillTimeout, Typed, Results
  <1>3. info'[p].status = "errored" /\ \A q \in Procs \ {p} : info'[q] = info[q]
    BY <1>0, <1>1, StatusSet DEF KillTimeout, Statuses
  <1>4. /\ kid'[k].onExit = "abandoned" /\ kid'[k].os = kid[k].os /\ kid'[k].name = kid[k].name
        /\ \A j \in Kids \ {k} : kid'[j] = kid[j]
    BY <1>0, <1>1 DEF KillTimeout, TypeOK, Kid
  <1>5. /\ UNCHANGED <<processes, manager, childProcesses>>
        /\ AwaitsExit(c) /\ ~AwaitsSpawn(c)
    BY DEF KillTimeout, AwaitsExit, AwaitsSpawn
  <1>6. InService => p \in processes /\ info[p].status # "online"
    BY <1>0, <1>1, <1>5 DEF ChildrenInv, UnknownIsDown, StopsAreShown, Unreaped
  <1>7. InService /\ NoDeniedSignal =>
          \A j \in Kids : Unreaped(j)' /\ kid'[j].onExit = "default" => kid'[j].name # p
    BY <1>0, <1>4, <1>6 DEF ChildrenInv, HandledIsOnline, Unreaped
  <1> QED
    BY <1>1, <1>2, <1>3, <1>4, <1>5, <1>6, <1>7, EndingSteps DEF AwaitsExit, Ignoring

-----------------------------------------------------------------------------
(***************************************************************************)
(* The events of the operating system.                                     *)
(***************************************************************************)
\* A child that ends is as it was to everybody until its 'exit' event.
LEMMA EndsKeeps ==
    ASSUME OwnedInv, NEW k \in Kids, NEW ending \in Endings, Ends(k, ending)
    PROVE  ChildrenInv'
  <1>0. ChildrenInv /\ TypeOK
    BY DEF OwnedInv, LockedInv
  <1>1. \A j \in Kids :
           /\ kid'[j].name = kid[j].name /\ kid'[j].onExit = kid[j].onExit
           /\ Unreaped(j)' <=> Unreaped(j)
           /\ kid'[j].os = "none" <=> kid[j].os = "none"
    BY <1>0 DEF Ends, TypeOK, Kid, Unreaped
  <1>2. UNCHANGED <<processes, info, childProcesses, call, manager>>
    BY DEF Ends
  <1>3. \A d \in Calls :
           /\ AwaitsSpawn(d)' <=> AwaitsSpawn(d)
           /\ AwaitsExit(d)' <=> AwaitsExit(d)
    BY <1>2 DEF AwaitsSpawn, AwaitsExit
  <1>4. InService' <=> InService
    BY <1>2 DEF InService
  <1>5. ChildrenOfCalls'
    <2>1. ASSUME NEW d \in Calls, NEW j, j = call[d].child
          PROVE  /\ AwaitsSpawn(d) => /\ j \in Kids /\ kid'[j].name = call[d].name
                                      /\ kid'[j].os # "none" /\ kid'[j].onExit = "none"
                 /\ AwaitsExit(d) => /\ j \in Kids /\ kid'[j].name = call[d].name
                                     /\ Unreaped(j)' /\ kid'[j].onExit = d
      BY <1>0, <1>1, <2>1 DEF ChildrenInv, ChildrenOfCalls
    <2> QED
      BY <1>2, <1>3, <2>1 DEF ChildrenOfCalls, Unreaped
  <1>6. TrackedChildren'
    BY <1>0, <1>1, <1>2 DEF ChildrenInv, TrackedChildren
  <1>7. StartsAreShown' /\ StopsAreShown' /\ UnknownIsDown'
    BY <1>0, <1>1, <1>2, <1>3, <1>4
       DEF ChildrenInv, StartsAreShown, StopsAreShown, UnknownIsDown
  <1>8. NewChildHasCall' /\ HandledIsOnline'
    BY <1>0, <1>1, <1>2, <1>3, <1>4 DEF ChildrenInv, NewChildHasCall, HandledIsOnline
  <1>9. TransientStatusHasOwner'
    <2>1. \A q \in Procs : \A d \in Stopping(q) : kid[call[d].child].onExit = d =>
             d \in Stopping(q)' /\ kid'[call'[d].child].onExit = d
      BY <1>0, <1>1, <1>2 DEF Stopping, AwaitsExit, ChildrenInv, ChildrenOfCalls
    <2> QED
      BY <1>0, <1>2, <2>1 DEF ChildrenInv, TransientStatusHasOwner
  <1>10. OnlineIsTracked'
    <2>1. \A j \in Kids : kid[j].os \in {"alive", "dead"} <=> kid'[j].os \in {"alive", "dead"}
      BY <1>1 DEF Unreaped
    <2> QED
      BY <1>0, <1>1, <1>2, <1>4, <2>1 DEF ChildrenInv, OnlineIsTracked
  <1> QED
    BY <1>5, <1>6, <1>7, <1>8, <1>9, <1>10 DEF ChildrenInv

\* The exit that a stop in progress waits for ends it.
LEMMA HandleExitKeeps ==
    ASSUME OwnedInv, NEW k \in Kids, ExitEvent(k), HandleExit(k)
    PROVE  ChildrenInv'
  <1>0. ChildrenInv /\ TypeOK /\ Typed
    BY DEF OwnedInv, LockedInv, TypeOK, Typed, InfoTable, ChildTable, KidTable,
           CallTable
  <1>1. PICK c \in Calls : c = kid[k].onExit
    BY DEF HandleExit
  <1>2. PICK p \in Procs : p = kid[k].name
    BY <1>0 DEF TypeOK, Kid
  <1>3. call[c].at \in {"terminating", "killing"} /\ call[c].child = k
    BY <1>1 DEF OwnedInv, LockedInv, ListenerWaits
  <1>4. call[c].name = p
    BY <1>0, <1>2, <1>3 DEF ChildrenInv, ChildrenOfCalls, AwaitsExit
  <1>5. Moved(c) /\ call'[c].at \in {"pausing", "resolved"}
    BY <1>0, <1>1, MovesCall, StoppedType DEF HandleExit, Typed, Results
  <1>6. info'[p].status = "stopped" /\ \A q \in Procs \ {p} : info'[q] = info[q]
    BY <1>0, <1>2, StatusSet DEF HandleExit, Statuses
  <1>7. /\ childProcesses'[p] = NoKid
        /\ \A q \in Procs \ {p} : childProcesses'[q] = childProcesses[q]
    BY <1>0, <1>2 DEF HandleExit, TypeOK
  <1>8. kid'[k] = NoChild /\ \A j \in Kids \ {k} : kid'[j] = kid[j]
    BY <1>0 DEF ExitEvent, TypeOK
  <1>9. UNCHANGED <<processes, manager>>
    BY DEF ExitEvent
  <1>10. AwaitsExit(c) /\ ~AwaitsSpawn(c) /\ kid[k].os = "dead"
    BY <1>3 DEF AwaitsExit, AwaitsSpawn, ExitEvent
  <1>11. InService => p \in processes /\ info[p].status # "online"
    BY <1>0, <1>2, <1>4, <1>10 DEF ChildrenInv, UnknownIsDown, StopsAreShown
  <1>12. InService /\ NoDeniedSignal =>
           \A j \in Kids : Unreaped(j)' /\ kid'[j].onExit = "default" => kid'[j].name # p
    BY <1>0, <1>8, <1>11 DEF ChildrenInv, HandledIsOnline, Unreaped, NoChild
  <1> QED
    BY <1>2, <1>3, <1>4, <1>5, <1>6, <1>7, <1>8, <1>9, <1>10, <1>11, <1>12, EndingSteps

\* The restart budget does not touch the status.
LEMMA AfterExitStatus ==
    ASSUME NEW i \in Info, NEW ending
    PROVE  AfterExit(i, ending).status \in {"stopped", "errored"}
  <1>1. \A j \in Info : /\ ResetFailures(j).status = j.status
                        /\ RecordFailure(j).status = j.status
    <2>1. \A j \in Info : ResetFailures(j).status = j.status /\ ResetFailures(j) \in Info
      BY BudgetType DEF ResetFailures, Info
    <2>2. ASSUME NEW j \in Info PROVE RecordFailure(j).status = j.status
      <3>1. PICK h \in Info : /\ h = IF j.window = "expired" THEN ResetFailures(j) ELSE j
                              /\ h.status = j.status
        BY <2>1
      <3> QED
        BY <3>1 DEF RecordFailure, Info
    <2> QED
      BY <2>1, <2>2
  <1>2. /\ SetStatus(i, "errored") \in Info /\ SetStatus(i, "errored").status = "errored"
        /\ SetStatus(i, "stopped") \in Info /\ SetStatus(i, "stopped").status = "stopped"
    BY SetStatusType DEF Statuses
  <1> QED
    BY <1>1, <1>2 DEF AfterExit

\* The exit of a child that no stop has asked for.
LEMMA DefaultExitKeeps ==
    ASSUME OwnedInv, NEW k \in Kids, ExitEvent(k), DefaultExit(k)
    PROVE  ChildrenInv'
  <1>0. ChildrenInv /\ TypeOK
    BY DEF OwnedInv, LockedInv
  <1>1. PICK p \in Procs : p = kid[k].name
    BY <1>0 DEF TypeOK, Kid
  <1>2. info'[p].status \in {"stopped", "errored"} /\ \A q \in Procs \ {p} : info'[q] = info[q]
    BY <1>0, <1>1, AfterExitStatus DEF DefaultExit, TypeOK
  <1>3. /\ childProcesses'[p] = NoKid
        /\ \A q \in Procs \ {p} : childProcesses'[q] = childProcesses[q]
    BY <1>0, <1>1 DEF DefaultExit, TypeOK
  <1>4. kid'[k] = NoChild /\ \A j \in Kids \ {k} : kid'[j] = kid[j]
    BY <1>0 DEF ExitEvent, TypeOK
  <1>5. UNCHANGED <<processes, manager, call>> /\ (InService' <=> InService)
    BY DEF ExitEvent, DefaultExit, InService
  <1>6. \A d \in Calls :
           /\ ~AwaitsSpawn(d) /\ ~AwaitsSpawn(d)'
           /\ AwaitsExit(d)' <=> AwaitsExit(d)
           /\ AwaitsExit(d) => call[d].child # k
    <2>1. \A d \in Calls : ~AwaitsSpawn(d)
      BY DEF ExitEvent, Settled, InTurn, AwaitsSpawn
    <2>2. kid[k].onExit \notin Calls
      BY ConstantsAssumption DEF DefaultExit
    <2>3. \A d \in Calls : AwaitsExit(d) => call[d].child # k
      BY <1>0, <2>2 DEF ChildrenInv, ChildrenOfCalls
    <2> QED
      BY <1>5, <2>1, <2>3 DEF AwaitsSpawn, AwaitsExit
  <1>7. NoChild.os = "none" /\ NoChild.onExit = "none"
    BY DEF NoChild
  <1>8. Unreaped(k) /\ kid[k].onExit = "default"
    BY DEF ExitEvent, DefaultExit, Unreaped
  <1>10. ChildrenOfCalls'
    BY <1>0, <1>4, <1>5, <1>6
       DEF ChildrenInv, ChildrenOfCalls, AwaitsSpawn, AwaitsExit, Unreaped
  <1>11. TrackedChildren'
    BY <1>0, <1>3, <1>4, <1>7, ConstantsAssumption DEF ChildrenInv, TrackedChildren
  <1>12. StartsAreShown' /\ StopsAreShown'
    <2>1. \A d \in Calls : call[d].name \in Procs
      BY <1>0 DEF TypeOK, Call
    <2> QED
      BY <1>0, <1>2, <1>5, <1>6, <2>1 DEF ChildrenInv, StartsAreShown, StopsAreShown
  <1>13. UnknownIsDown'
    BY <1>0, <1>1, <1>2, <1>4, <1>5, <1>7, <1>8 DEF ChildrenInv, UnknownIsDown, Unreaped
  <1>14. NewChildHasCall'
    BY <1>0, <1>4, <1>6, <1>7 DEF ChildrenInv, NewChildHasCall, Unreaped
  <1>15. HandledIsOnline'
    BY <1>0, <1>1, <1>2, <1>3, <1>4, <1>5, <1>7, <1>8
       DEF ChildrenInv, HandledIsOnline, Unreaped, TypeOK, Kid
  <1>16. TransientStatusHasOwner'
    <2>1. \A q \in Procs : \A d \in Stopping(q) :
             d \in Stopping(q)' /\ kid'[call'[d].child].onExit = kid[call[d].child].onExit
      BY <1>0, <1>4, <1>5, <1>6 DEF Stopping, AwaitsExit, ChildrenInv, ChildrenOfCalls
    <2>2. \A q \in Procs : info'[q].status \in {info[q].status, "stopped", "errored"}
      BY <1>2
    <2> QED
      BY <1>0, <1>5, <2>1, <2>2 DEF ChildrenInv, TransientStatusHasOwner
  <1>17. OnlineIsTracked'
    BY <1>0, <1>1, <1>2, <1>3, <1>4, <1>5 DEF ChildrenInv, OnlineIsTracked
  <1> QED
    BY <1>10, <1>11, <1>12, <1>13, <1>14, <1>15, <1>16, <1>17 DEF ChildrenInv

\* The exit of a child that was given up is ignored.
LEMMA IgnoreExitKeeps ==
    ASSUME OwnedInv, NEW k \in Kids, ExitEvent(k), IgnoreExit(k)
    PROVE  ChildrenInv'
  <1>0. ChildrenInv /\ TypeOK
    BY DEF OwnedInv, LockedInv
  <1>1. kid'[k] = NoChild /\ \A j \in Kids \ {k} : kid'[j] = kid[j]
    BY <1>0 DEF ExitEvent, TypeOK
  <1>2. UNCHANGED <<processes, manager, call, info, childProcesses>>
        /\ (InService' <=> InService)
    BY DEF ExitEvent, IgnoreExit, InService
  <1>3. kid[k].onExit \in {"none"} \cup Ignoring /\ kid[k].onExit \notin Calls
    BY ConstantsAssumption DEF IgnoreExit, Ignoring
  <1>4. \A d \in Calls :
           /\ ~AwaitsSpawn(d) /\ ~AwaitsSpawn(d)'
           /\ AwaitsExit(d)' <=> AwaitsExit(d)
           /\ AwaitsExit(d) => call[d].child # k
    <2>1. \A d \in Calls : ~AwaitsSpawn(d)
      BY DEF ExitEvent, Settled, InTurn, AwaitsSpawn
    <2>2. \A d \in Calls : AwaitsExit(d) => call[d].child # k
      BY <1>0, <1>3 DEF ChildrenInv, ChildrenOfCalls
    <2> QED
      BY <1>2, <2>1, <2>2 DEF AwaitsSpawn, AwaitsExit
  <1>5. NoChild.os = "none" /\ NoChild.onExit = "none"
    BY DEF NoChild
  <1>6. ChildrenOfCalls'
    BY <1>0, <1>1, <1>2, <1>4
       DEF ChildrenInv, ChildrenOfCalls, AwaitsSpawn, AwaitsExit, Unreaped
  <1>7. TrackedChildren'
    BY <1>0, <1>1, <1>2, <1>5 DEF ChildrenInv, TrackedChildren
  <1>8. StartsAreShown' /\ StopsAreShown' /\ UnknownIsDown'
    BY <1>0, <1>1, <1>2, <1>4, <1>5
       DEF ChildrenInv, StartsAreShown, StopsAreShown, UnknownIsDown
  <1>9. NewChildHasCall' /\ HandledIsOnline'
    BY <1>0, <1>1, <1>2, <1>4, <1>5
       DEF ChildrenInv, NewChildHasCall, HandledIsOnline, Unreaped
  <1>10. TransientStatusHasOwner'
    <2>1. \A q \in Procs : \A d \in Stopping(q) :
             d \in Stopping(q)' /\ kid'[call'[d].child].onExit = kid[call[d].child].onExit
      BY <1>0, <1>1, <1>2, <1>4 DEF Stopping, AwaitsExit, ChildrenInv, ChildrenOfCalls
    <2> QED
      BY <1>0, <1>2, <2>1 DEF ChildrenInv, TransientStatusHasOwner
  <1>11. OnlineIsTracked'
    BY <1>0, <1>1, <1>2, <1>3 DEF ChildrenInv, OnlineIsTracked, Ignoring
  <1> QED
    BY <1>6, <1>7, <1>8, <1>9, <1>10, <1>11 DEF ChildrenInv

\* An exit event, whoever listens.
LEMMA ExitKeeps ==
    ASSUME OwnedInv, NEW k \in Kids, ExitEvent(k)
    PROVE  ChildrenInv'
  BY HandleExitKeeps, DefaultExitKeeps, IgnoreExitKeeps DEF ExitEvent

-----------------------------------------------------------------------------
(***************************************************************************)
(* Requests, releases and the cleanup.                                     *)
(***************************************************************************)
\* A release moves two calls, neither of which awaits an event of a child.
LEMMA ReleaseKeeps ==
    ASSUME OwnedInv, NEW c \in Calls, Release(c)
    PROVE  ChildrenInv'
  <1>1. \A d \in Lock!Resumed(mutexes[call[c].name]) : d \in Calls /\ call[d].at = "waiting"
    BY ResumedWaits DEF OwnedInv
  <1>2. \A d \in Calls : \/ call'[d] = call[d]
                         \/ /\ call[d].at \in {"waiting", "resolved"}
                            /\ call'[d].at \in {"idle", "granted"}
    <2>1. call[c].at = "resolved" /\ call'[c].at = "idle"
      BY DEF Release, IdleCall
    <2>2. ASSUME NEW d \in Calls \ {c}
          PROVE  \/ call'[d] = call[d]
                 \/ call[d].at = "waiting" /\ call'[d].at = "granted"
      BY <1>1 DEF Release, OwnedInv, LockedInv, TypeOK, Call
    <2> QED
      BY <2>1, <2>2
  <1>3. \A d \in Calls : AwaitsSpawn(d) \/ AwaitsExit(d)
                            \/ AwaitsSpawn(d)' \/ AwaitsExit(d)' => call'[d] = call[d]
    BY <1>2 DEF AwaitsSpawn, AwaitsExit
  <1>4. InService' => InService
    BY DEF Release, InService, OwnedInv, LockedInv, TypeOK, Manager
  <1> QED
    BY <1>3, <1>4, QuietSteps DEF Release

\* A new call awaits no event of a child.
LEMMA BeginKeeps ==
    ASSUME OwnedInv, NEW c \in Calls, NEW kind, NEW p, Begin(c, kind, p),
           UNCHANGED <<processes, info, childProcesses, kid>>,
           manager'.phase = manager.phase
    PROVE  ChildrenInv'
  <1>1. \A d \in Calls : AwaitsSpawn(d) \/ AwaitsExit(d)
                            \/ AwaitsSpawn(d)' \/ AwaitsExit(d)' => call'[d] = call[d]
    BY DEF Begin, Idle, AwaitsSpawn, AwaitsExit, OwnedInv, LockedInv, TypeOK
  <1>2. InService' => InService
    BY DEF InService
  <1> QED
    BY <1>1, <1>2, QuietSteps

\* The requests, and the timers that begin a call.
LEMMA RequestKeeps ==
    ASSUME OwnedInv, NEW c \in Calls, NEW p \in Procs,
           \/ \E kind \in Requests \ {"cleanup"} : Request(c, kind, p)
           \/ TimerFires(c, p)
           \/ MemoryLimitExceeded(c, p)
           \/ CleanupStop(c, p)
    PROVE  ChildrenInv'
  <1>1. manager'.phase = manager.phase
    BY DEF Request, TimerFires, MemoryLimitExceeded, CleanupStop, OwnedInv, LockedInv,
           TypeOK, Manager
  <1> QED
    BY <1>1, BeginKeeps DEF Request, TimerFires, MemoryLimitExceeded, CleanupStop

\* Configuration, the restart window, the memory check and the start of the
\* cleanup.
LEMMA QuietKeeps ==
    ASSUME OwnedInv,
           \/ \E p \in Procs : \/ Configure(p) \/ WindowExpires(p)
                               \/ SampleMemory(p) \/ MemoryAccepted(p)
           \/ CleanupBegin
    PROVE  ChildrenInv'
  <1>0. ChildrenInv /\ TypeOK
    BY DEF OwnedInv, LockedInv
  <1>1. /\ UNCHANGED <<childProcesses, kid, call>> /\ processes \subseteq processes'
        /\ InService' => InService
    BY DEF Configure, WindowExpires, SampleMemory, MemoryAccepted, CleanupBegin, InService
  <1>2. \A d \in Calls : call'[d] = call[d]
    BY <1>1
  <1>3. \A q \in Procs : /\ info'[q].status = info[q].status
                         /\ info[q].status = "online" => info'[q].pid = info[q].pid
    <2>1. CASE UNCHANGED info
      BY <2>1
    <2>2. ASSUME NEW p \in Procs, WindowExpires(p)
          PROVE  \A q \in Procs : info'[q].status = info[q].status /\ info'[q].pid = info[q].pid
      BY <1>0, <2>2 DEF WindowExpires, TypeOK, Info
    <2>3. ASSUME NEW p \in Procs, Configure(p)
          PROVE  \A q \in Procs : /\ info'[q].status = info[q].status
                                  /\ info[q].status = "online" => info'[q].pid = info[q].pid
      <3>1. info[p].status = "stopped"
        BY <1>0, <2>3 DEF Configure, ChildrenInv, UnknownIsDown, InService
      <3>2. info'[p].status = "stopped" /\ \A q \in Procs \ {p} : info'[q] = info[q]
        BY <1>0, <2>3 DEF Configure, NewInfo, TypeOK
      <3> QED
        BY <3>1, <3>2
    <2> QED
      BY <2>1, <2>2, <2>3 DEF SampleMemory, MemoryAccepted, CleanupBegin
  <1> QED
    BY <1>1, <1>2, <1>3, QuietSteps

\* When the maps are cleared the manager is out of service; the statuses that
\* are not final still have their calls.
LEMMA CleanupKeeps ==
    ASSUME OwnedInv, CleanupCleared \/ CleanupDisposed
    PROVE  ChildrenInv'
  <1>0. ChildrenInv /\ TypeOK
    BY DEF OwnedInv, LockedInv
  <1>1. UNCHANGED <<kid, call>> /\ ~InService'
    BY <1>0 DEF CleanupCleared, CleanupDisposed, InService, TypeOK, Manager
  <1>2. \A p \in Procs : childProcesses'[p] \in {childProcesses[p], NoKid}
    BY DEF CleanupCleared, CleanupDisposed
  <1>3. \A p \in Procs : info'[p] = info[p] \/ info'[p].status = "stopped"
    BY DEF CleanupCleared, CleanupDisposed, NewInfo
  <1>4. \A d \in Calls : /\ AwaitsSpawn(d)' <=> AwaitsSpawn(d)
                         /\ AwaitsExit(d)' <=> AwaitsExit(d)
    BY <1>1 DEF AwaitsSpawn, AwaitsExit
  <1>5. ChildrenOfCalls' /\ NewChildHasCall'
    BY <1>0, <1>1, <1>4 DEF ChildrenInv, ChildrenOfCalls, NewChildHasCall, Unreaped
  <1>6. TrackedChildren'
    BY <1>0, <1>1, <1>2, ConstantsAssumption DEF ChildrenInv, TrackedChildren
  <1>7. StartsAreShown' /\ StopsAreShown' /\ UnknownIsDown' /\ HandledIsOnline'
           /\ OnlineIsTracked'
    BY <1>1 DEF StartsAreShown, StopsAreShown, UnknownIsDown, HandledIsOnline,
                OnlineIsTracked
  <1>8. TransientStatusHasOwner'
    <2>1. \A p \in Procs : Stopping(p)' = Stopping(p)
      BY <1>1 DEF Stopping
    <2> QED
      BY <1>0, <1>1, <1>3, <2>1 DEF ChildrenInv, TransientStatusHasOwner
  <1> QED
    BY <1>5, <1>6, <1>7, <1>8 DEF ChildrenInv

-----------------------------------------------------------------------------
(***************************************************************************)
(* The invariant.                                                          *)
(***************************************************************************)
\* Whatever the step, the children are accounted for.
LEMMA NextChildren ==
    ASSUME OwnedInv, [Next]_vars
    PROVE  ChildrenInv'
  <1>1. CASE UNCHANGED vars
    BY <1>1 DEF vars, OwnedInv, ChildrenInv, ChildrenOfCalls, TrackedChildren,
       StartsAreShown, StopsAreShown, UnknownIsDown, NewChildHasCall, HandledIsOnline,
       TransientStatusHasOwner, OnlineIsTracked, AwaitsSpawn, AwaitsExit, Unreaped,
       InService, Stopping
  <1>2. ASSUME NEW c \in Calls, Microtask(c) \/ OwnTimer(c)
        PROVE  ChildrenInv'
    BY <1>2, RunKeeps, SpawnEventKeeps, SpawnErrorKeeps, ReleaseKeeps, RequestKeeps,
       TermTimeoutKeeps, KillTimeoutKeeps DEF Microtask, OwnTimer
  <1>3. ASSUME NEW c \in Calls, NEW p \in Procs,
               \/ \E kind \in Requests \ {"cleanup"} : Request(c, kind, p)
               \/ TimerFires(c, p)
               \/ MemoryLimitExceeded(c, p)
        PROVE  ChildrenInv'
    BY <1>3, RequestKeeps
  <1>4. ASSUME NEW k \in Kids,
               ExitEvent(k) \/ \E ending \in Endings : Ends(k, ending)
        PROVE  ChildrenInv'
    BY <1>4, ExitKeeps, EndsKeeps
  <1>5. CASE \/ \E p \in Procs : Configure(p) \/ WindowExpires(p)
                                     \/ SampleMemory(p) \/ MemoryAccepted(p)
             \/ CleanupBegin \/ CleanupCleared \/ CleanupDisposed
    BY <1>5, QuietKeeps, CleanupKeeps
  <1> QED
    BY <1>1, <1>2, <1>3, <1>4, <1>5 DEF Next

\* A call that goes on, or whose promise settles, is one of those requested.
LEMMA OperationCalls ==
    ASSUME TypeOK, CallsInv, NEW c \in Calls, call[c].at # "resolved",
           \/ \E res \in Results : Resolve(c, res)
           \/ \E place, k : Suspend(c, place, k),
           UNCHANGED <<processes, manager>>
    PROVE  CallsInv'
  <1>1. \A d \in Calls :
           /\ call'[d].kind = call[d].kind
           /\ \/ /\ call'[d].result = call[d].result
                 /\ d = c \/ call'[d].at = call[d].at
              \/ d = c /\ call'[d].at = "resolved"
    <2>1. ASSUME NEW res \in Results, Resolve(c, res)
          PROVE  /\ \A d \in Calls \ {c} : call'[d] = call[d]
                 /\ call'[c].kind = call[c].kind /\ call'[c].at = "resolved"
      BY <2>1 DEF Resolve, TypeOK, Call
    <2>2. ASSUME NEW place, NEW k, Suspend(c, place, k)
          PROVE  /\ \A d \in Calls \ {c} : call'[d] = call[d]
                 /\ call'[c].kind = call[c].kind /\ call'[c].result = call[c].result
      <3>1. PICK r : r = [call[c] EXCEPT !.at = place, !.child = k]
        OBVIOUS
      <3>2. r.kind = call[c].kind /\ r.result = call[c].result
        BY <3>1 DEF TypeOK, Call
      <3>3. call' = [call EXCEPT ![c] = r]
        BY <2>2, <3>1 DEF Suspend
      <3> QED
        BY <3>2, <3>3 DEF TypeOK
    <2> QED
      BY <2>1, <2>2
  <1> QED
    BY <1>1 DEF CallsInv, ResultsAreLast, SignalsAreRequested, DisposedIsEmpty

\* The steps of an operation settle its promise or suspend it.
LEMMA StepsOfCalls ==
    ASSUME NEW c \in Calls,
           \/ Run(c) \/ PauseOver(c) \/ SpawnEvent(c) \/ SpawnErrorEvent(c)
           \/ TermTimeout(c) \/ KillTimeout(c)
    PROVE  /\ call[c].at # "resolved"
           /\ \/ \E res \in Results : Resolve(c, res)
              \/ \E place, k : Suspend(c, place, k)
           /\ UNCHANGED <<processes, manager>>
  <1>1. /\ call[c].at # "resolved" /\ UNCHANGED <<processes, manager>>
    BY DEF Run, PauseOver, SpawnEvent, SpawnErrorEvent, TermTimeout, KillTimeout
  <1>2. "success" \in Results /\ "failure" \in Results
    BY DEF Results
  <1>3. \A res \in Results : Stopped(c, res) =>
           \/ \E r \in Results : Resolve(c, r)
           \/ \E place, k : Suspend(c, place, k)
    BY DEF Stopped
  <1>4. CASE StartInternal(c)
    BY <1>1, <1>2, <1>4 DEF StartInternal, Refuse, SpawnThrows, Spawns
  <1>5. CASE StopInternal(c)
    BY <1>1, <1>2, <1>3, <1>5
       DEF StopInternal, Refuse, AlreadyStopped, NothingToKill, Terminate, TakeForDead
  <1>6. CASE SignalInternal(c)
    BY <1>1, <1>2, <1>6 DEF SignalInternal, Refuse
  <1>7. CASE SpawnEvent(c) \/ SpawnErrorEvent(c) \/ TermTimeout(c) \/ KillTimeout(c)
    BY <1>1, <1>2, <1>7 DEF SpawnEvent, SpawnErrorEvent, TermTimeout, KillTimeout
  <1> QED
    BY <1>4, <1>5, <1>6, <1>7 DEF Run, PauseOver

\* Whatever the step, a call is one of those requested, and its success its end.
LEMMA NextCalls ==
    ASSUME OwnedInv, [Next]_vars
    PROVE  CallsInv'
  <1>0. TypeOK /\ CallsInv
    BY DEF OwnedInv, LockedInv
  <1>1. CASE UNCHANGED <<call, manager, processes>>
    BY <1>0, <1>1 DEF CallsInv, ResultsAreLast, SignalsAreRequested, DisposedIsEmpty
  <1>2. ASSUME NEW c \in Calls,
               \/ Run(c) \/ PauseOver(c) \/ SpawnEvent(c) \/ SpawnErrorEvent(c)
               \/ TermTimeout(c) \/ KillTimeout(c)
        PROVE  CallsInv'
    BY <1>0, <1>2, StepsOfCalls, OperationCalls
  <1>3. ASSUME NEW c \in Calls, Release(c)
        PROVE  CallsInv'
    <2>1. \A d \in Lock!Resumed(mutexes[call[c].name]) : call[d].at = "waiting"
      BY ResumedWaits DEF OwnedInv
    <2>2. ASSUME NEW d \in Calls
          PROVE  /\ call'[d].kind = call[d].kind \/ call'[d].kind = "start"
                 /\ call'[d].result = "success" => call'[d].at = "resolved"
      <3>1. CASE d = c
        BY <1>3, <3>1 DEF Release, IdleCall
      <3>2. CASE d # c /\ d \in Lock!Resumed(mutexes[call[c].name])
        <4>1. call'[d] = [call[d] EXCEPT !.at = "granted"] /\ call[d].at = "waiting"
          BY <1>3, <2>1, <3>2 DEF Release
        <4>2. call'[d].kind = call[d].kind /\ call'[d].result = call[d].result
          BY <1>0, <4>1 DEF TypeOK, Call
        <4> QED
          BY <1>0, <4>1, <4>2 DEF CallsInv, ResultsAreLast
      <3>3. CASE d # c /\ d \notin Lock!Resumed(mutexes[call[c].name])
        BY <1>0, <1>3, <3>3 DEF Release, CallsInv, ResultsAreLast
      <3> QED
        BY <3>1, <3>2, <3>3
    <2>3. processes' = processes /\ manager'.phase = manager.phase
      BY <1>0, <1>3 DEF Release, TypeOK, Manager
    <2> QED
      BY <1>0, <2>2, <2>3 DEF CallsInv, ResultsAreLast, SignalsAreRequested, DisposedIsEmpty
  <1>4. ASSUME NEW c \in Calls, NEW p \in Procs, NEW kind, Begin(c, kind, p),
               kind = "signal" => "signal" \in Requests,
               processes' = processes, manager'.phase = manager.phase
        PROVE  CallsInv'
    <2>1. /\ call'[c].kind = kind /\ call'[c].result = "none"
          /\ \A d \in Calls \ {c} : call'[d] = call[d]
      BY <1>0, <1>4 DEF Begin, TypeOK
    <2> QED
      BY <1>0, <1>4, <2>1 DEF CallsInv, ResultsAreLast, SignalsAreRequested, DisposedIsEmpty
  <1>5. ASSUME NEW c \in Calls, NEW p \in Procs,
               \/ \E kind \in Requests \ {"cleanup"} : Request(c, kind, p)
               \/ TimerFires(c, p)
               \/ MemoryLimitExceeded(c, p)
               \/ CleanupStop(c, p)
        PROVE  CallsInv'
    <2>1. processes' = processes /\ manager'.phase = manager.phase
      BY <1>0, <1>5 DEF Request, TimerFires, MemoryLimitExceeded, CleanupStop, TypeOK, Manager
    <2> QED
      BY <1>4, <1>5, <2>1 DEF Request, TimerFires, MemoryLimitExceeded, CleanupStop
  <1>6. ASSUME NEW k \in Kids, ExitEvent(k)
        PROVE  CallsInv'
    <2>1. CASE UNCHANGED call
      BY <1>1, <1>6, <2>1 DEF ExitEvent
    <2>2. CASE HandleExit(k)
      <3>1. PICK c \in Calls : c = kid[k].onExit /\ Stopped(c, "success")
        BY <2>2 DEF HandleExit
      <3>2. call[c].at # "resolved"
        BY <3>1 DEF OwnedInv, LockedInv, ListenerWaits
      <3>3. \/ \E r \in Results : Resolve(c, r)
            \/ \E place, j : Suspend(c, place, j)
        BY <3>1 DEF Stopped, Results
      <3> QED
        BY <1>0, <1>6, <3>2, <3>3, OperationCalls DEF ExitEvent
    <2> QED
      BY <1>6, <2>1, <2>2 DEF ExitEvent, DefaultExit, IgnoreExit
  <1>7. CASE \/ \E p \in Procs : Configure(p)
             \/ CleanupBegin \/ CleanupCleared \/ CleanupDisposed
    <2>1. UNCHANGED call /\ DisposedIsEmpty'
      BY <1>0, <1>7 DEF Configure, CleanupBegin, CleanupCleared, CleanupDisposed,
         CallsInv, DisposedIsEmpty, TypeOK, Manager
    <2> QED
      BY <1>0, <2>1 DEF CallsInv, ResultsAreLast, SignalsAreRequested
  <1>8. CASE \/ \E p \in Procs : WindowExpires(p) \/ SampleMemory(p) \/ MemoryAccepted(p)
             \/ \E k \in Kids, ending \in Endings : Ends(k, ending)
    BY <1>1, <1>8 DEF WindowExpires, SampleMemory, MemoryAccepted, Ends
  <1> QED
    BY <1>1, <1>2, <1>3, <1>5, <1>6, <1>7, <1>8 DEF Next, vars, Microtask, OwnTimer

\* At the start there are no calls and no children.
LEMMA InitOwned == Init => OwnedInv
  <1> SUFFICES ASSUME Init PROVE OwnedInv
    OBVIOUS
  <1>1. LockedInv /\ OneOperationPerProcess
    BY InitLocked, ExcludesCalls
  <1>2. /\ \A c \in Calls : ~AwaitsSpawn(c) /\ ~AwaitsExit(c)
        /\ \A c \in Calls : call[c].result = "none" /\ call[c].kind = "start"
    BY DEF Init, IdleCall, AwaitsSpawn, AwaitsExit
  <1>3. \A k \in Kids : kid[k].os = "none" /\ ~Unreaped(k)
    BY DEF Init, NoChild, Unreaped
  <1>4. \A p \in Procs : childProcesses[p] = NoKid /\ info[p].status = "stopped"
    BY DEF Init, NewInfo
  <1>5. ChildrenInv
    BY <1>2, <1>3, <1>4, ConstantsAssumption
       DEF ChildrenInv, ChildrenOfCalls, TrackedChildren, StartsAreShown, StopsAreShown,
           UnknownIsDown, NewChildHasCall, HandledIsOnline, TransientStatusHasOwner,
           OnlineIsTracked
  <1>6. CallsInv
    BY <1>2 DEF Init, CallsInv, ResultsAreLast, SignalsAreRequested, DisposedIsEmpty
  <1>7. IgnoredForCause
    BY DEF Init, NoChild, IgnoredForCause, Denied, Abandoned
  <1> QED
    BY <1>1, <1>5, <1>6, <1>7 DEF OwnedInv

\* Steps that bring no child to life and ignore no other exit without a cause.
LEMMA KeepsCause ==
    ASSUME IgnoredForCause,
           \A k \in Kids : kid'[k].onExit \in Ignoring =>
              \/ kid'[k].onExit = kid[k].onExit /\ (Unreaped(k)' => Unreaped(k))
              \/ kid'[k].onExit = "spent" /\ ~Unreaped(k)'
              \/ kid'[k].onExit = "denied" /\ "denied" \in Faults
              \/ kid'[k].onExit = "abandoned" /\ Faults # {}
    PROVE  IgnoredForCause'
  BY DEF IgnoredForCause, Ignoring, Denied, Abandoned

\* kill() finds no child only where there is none; the rest is a fault.
LEMMA NextCause == TypeOK /\ IgnoredForCause /\ [Next]_vars => IgnoredForCause'
  <1> SUFFICES ASSUME TypeOK, IgnoredForCause, [Next]_vars PROVE IgnoredForCause'
    OBVIOUS
  <1>1. CASE UNCHANGED kid
    BY <1>1 DEF IgnoredForCause, Unreaped, Denied, Abandoned
  <1>2. ASSUME NEW c \in Calls, StartInternal(c) PROVE IgnoredForCause'
    <2>1. CASE Spawns(c, call[c].name)
      <3>1. PICK l \in Kids, os \in {"alive", "unspawned"} :
               kid' = [kid EXCEPT ![l] = [NoChild EXCEPT !.os = os, !.name = call[c].name]]
        BY <2>1 DEF Spawns
      <3>2. [NoChild EXCEPT !.os = os, !.name = call[c].name].onExit = "none"
        BY DEF NoChild
      <3>3. \A k \in Kids : kid'[k] = kid[k] \/ kid'[k].onExit = "none"
        BY <3>1, <3>2 DEF TypeOK
      <3> QED
        BY <3>3, KeepsCause DEF Unreaped, Ignoring
    <2> QED
      BY <1>1, <1>2, <2>1 DEF StartInternal, Refuse, SpawnThrows
  <1>3. ASSUME NEW c \in Calls, StopInternal(c) \/ SignalInternal(c) PROVE IgnoredForCause'
    <2> DEFINE p == call[c].name
               l == childProcesses[p]
    <2>1. CASE Terminate(c, p, l)
      <3>1. c \notin Ignoring
        BY ConstantsAssumption DEF Ignoring
      <3>2. \A k \in Kids : /\ kid'[k].os = kid[k].os
                            /\ kid'[k].onExit \in {kid[k].onExit, c}
        BY <2>1 DEF Terminate, TypeOK, Kid
      <3> QED
        BY <3>1, <3>2, KeepsCause DEF Unreaped
    <2>2. CASE TakeForDead(c, p, l)
      <3>1. PICK denied \in Denials :
               /\ ~CanKill(l, denied)
               /\ kid' = [kid EXCEPT ![l].onExit = IF denied THEN "denied" ELSE "spent"]
        BY <2>2 DEF TakeForDead
      <3>2. \A k \in Kids : /\ kid'[k].os = kid[k].os
                            /\ k # l => kid'[k].onExit = kid[k].onExit
                            /\ k = l => kid'[k].onExit = IF denied THEN "denied"
                                                         ELSE "spent"
        BY <3>1 DEF TypeOK, Kid
      <3> QED
        BY <3>1, <3>2, KeepsCause DEF Unreaped, CanKill, Denials
    <2> QED
      BY <1>1, <1>3, <2>1, <2>2
         DEF StopInternal, SignalInternal, Refuse, AlreadyStopped, NothingToKill
  <1>4. ASSUME NEW c \in Calls, SpawnEvent(c) \/ KillTimeout(c) PROVE IgnoredForCause'
    <2>1. \A k \in Kids : /\ kid'[k].os = kid[k].os
                          /\ \/ kid'[k].onExit \in {kid[k].onExit, "default"}
                             \/ kid'[k].onExit = "abandoned" /\ Faults # {}
      BY <1>4 DEF SpawnEvent, KillTimeout, TypeOK, Kid
    <2> QED
      BY <2>1, KeepsCause DEF Unreaped, Ignoring
  <1>5. ASSUME NEW c \in Calls, Microtask(c) \/ OwnTimer(c) PROVE IgnoredForCause'
    <2>1. CASE SpawnErrorEvent(c)
      <3>1. \A k \in Kids : kid'[k] = kid[k] \/ kid'[k] = NoChild
        BY <2>1 DEF SpawnErrorEvent, TypeOK
      <3>2. NoChild.onExit = "none"
        BY DEF NoChild
      <3> QED
        BY <3>1, <3>2, KeepsCause DEF Unreaped, Ignoring
    <2>2. CASE TermTimeout(c) \/ Release(c) \/ \E p \in Procs : CleanupStop(c, p)
      BY <1>1, <2>2 DEF TermTimeout, Release, CleanupStop
    <2> QED
      BY <1>2, <1>3, <1>4, <1>5, <2>1, <2>2 DEF Microtask, OwnTimer, Run, PauseOver
  <1>6. ASSUME NEW l \in Kids, NEW ending, Ends(l, ending) \/ ExitEvent(l)
        PROVE  IgnoredForCause'
    <2>1. CASE Ends(l, ending)
      <3>1. \A k \in Kids : /\ kid'[k].onExit = kid[k].onExit
                            /\ Unreaped(k)' => Unreaped(k)
        BY <2>1 DEF Ends, TypeOK, Kid, Unreaped
      <3> QED
        BY <3>1, KeepsCause
    <2>2. CASE ExitEvent(l)
      <3>1. \A k \in Kids : kid'[k] = kid[k] \/ kid'[k] = NoChild
        BY <2>2 DEF ExitEvent, TypeOK
      <3>2. NoChild.onExit = "none"
        BY DEF NoChild
      <3> QED
        BY <3>1, <3>2, KeepsCause DEF Unreaped, Ignoring
    <2> QED
      BY <1>6, <2>1, <2>2
  <1> QED
    BY <1>1, <1>5, <1>6
       DEF Next, vars, Request, TimerFires, MemoryLimitExceeded, Configure,
           WindowExpires, SampleMemory, MemoryAccepted, CleanupBegin, CleanupCleared,
           CleanupDisposed

\* Every step keeps the invariant.
LEMMA NextOwned == OwnedInv /\ [Next]_vars => OwnedInv'
  <1> SUFFICES ASSUME OwnedInv, [Next]_vars PROVE OwnedInv'
    OBVIOUS
  <1>1. LockedInv'
    BY NextLocked DEF OwnedInv
  <1>2. LockedInv' => OneOperationPerProcess'
    BY ExcludesCalls, PTL
  <1>3. IgnoredForCause'
    BY NextCause DEF OwnedInv, LockedInv
  <1> QED
    BY <1>1, <1>2, <1>3, NextChildren, NextCalls DEF OwnedInv

\* The invariant holds in every reachable state.
LEMMA OwnedAlways == SafeSpec => []OwnedInv
  BY InitOwned, NextOwned, PTL DEF SafeSpec

-----------------------------------------------------------------------------
(***************************************************************************)
(* What the invariant says of the processes.                               *)
(***************************************************************************)
\* "starting" and "stopping" are never left behind: a call that will move the
\* process on is in progress, and a stopping call is the listener of the exit
\* it waits for, however starts, stops, timeouts and exits interleave.
THEOREM NoStatusLeftBehind == SafeSpec => []TransientStatusHasOwner
  <1>1. OwnedInv => TransientStatusHasOwner
    BY DEF OwnedInv, ChildrenInv
  <1> QED
    BY <1>1, OwnedAlways, PTL

\* A process is online only with a tracked child of its own, whose exit event
\* is still to come and has the default handler for its listener.
THEOREM OnlineIsReal == SafeSpec => []OnlineIsTracked
  <1>1. OwnedInv => OnlineIsTracked
    BY DEF OwnedInv, ChildrenInv
  <1> QED
    BY <1>1, OwnedAlways, PTL

\* A stop of the child is over.
GivenUp(k) == kid[k].onExit \in Ignoring

\* A child that lives though a stop of it is over was abandoned or denied.
LEMMA GivenUpHow ==
    ASSUME OwnedInv, NEW k \in Kids, Unreaped(k), GivenUp(k)
    PROVE  Abandoned(k) \/ Denied(k)
  BY DEF OwnedInv, IgnoredForCause, GivenUp, Ignoring, Abandoned, Denied

\* What the manager knows of a child that runs or whose exit is due: its start
\* is in progress, or it is online, or a stop waits for its exit, or gave up.
LEMMA KnownChild ==
    ASSUME OwnedInv, InService, NoDeniedSignal, NEW k \in Kids, Unreaped(k)
    PROVE  \/ /\ childProcesses[kid[k].name] = k
              /\ info[kid[k].name].status \in {"starting", "online"}
           \/ kid[k].onExit \in Stopping(kid[k].name)
           \/ GivenUp(k)
  <1>1. kid[k].onExit \in {"none", "default"} \cup Ignoring \cup Calls
    BY DEF OwnedInv, LockedInv, TypeOK, Kid, Listeners, Ignoring
  <1>2. CASE kid[k].onExit = "none"
    <2>1. PICK c \in Calls : AwaitsSpawn(c) /\ call[c].child = k
      BY <1>2 DEF OwnedInv, ChildrenInv, NewChildHasCall
    <2> QED
      BY <2>1 DEF OwnedInv, ChildrenInv, ChildrenOfCalls, StartsAreShown
  <1>3. CASE kid[k].onExit = "default"
    BY <1>3 DEF OwnedInv, ChildrenInv, HandledIsOnline
  <1>4. CASE kid[k].onExit \in Ignoring
    BY <1>4 DEF GivenUp
  <1>5. CASE kid[k].onExit \in Calls
    <2>1. PICK c \in Calls : c = kid[k].onExit
      BY <1>5
    <2>2. call[c].at \in {"terminating", "killing"} /\ call[c].child = k
      BY <2>1 DEF OwnedInv, LockedInv, ListenerWaits
    <2> QED
      BY <2>1, <2>2 DEF OwnedInv, ChildrenInv, ChildrenOfCalls, AwaitsExit, Stopping
  <1> QED
    BY <1>1, <1>2, <1>3, <1>4, <1>5

\* Where no operation sends a signal that is denied, a living child is tracked,
\* or a stop waits for its exit, or a stop of it failed because it outlived
\* SIGKILL, or its SIGTERM was denied and the stop took it for dead; until
\* cleanup clears the maps.
THEOREM NoneForgotten ==
    ASSUME NoDeniedSignal
    PROVE  SafeSpec => []NoChildForgotten
  <1>1. OwnedInv => NoChildForgotten
    BY KnownChild, GivenUpHow DEF NoChildForgotten, Alive, Unreaped
  <1> QED
    BY <1>1, OwnedAlways, PTL

\* No two children of a process run of which neither was given up.
LEMMA AloneAlive ==
    ASSUME OwnedInv, NoDeniedSignal, InService, NEW p \in Procs,
           NEW k \in Alive(p), NEW l \in Alive(p), ~GivenUp(k), ~GivenUp(l)
    PROVE  k = l
  <1>1. /\ k \in Kids /\ kid[k].name = p /\ Unreaped(k)
        /\ l \in Kids /\ kid[l].name = p /\ Unreaped(l)
    BY DEF Alive, Unreaped
  <1>2. \A c \in Calls : call[c].name \in Procs
    BY DEF OwnedInv, LockedInv, TypeOK, Call
  <1>3. /\ \/ childProcesses[p] = k /\ info[p].status \in {"starting", "online"}
           \/ kid[k].onExit \in Stopping(p)
        /\ \/ childProcesses[p] = l /\ info[p].status \in {"starting", "online"}
           \/ kid[l].onExit \in Stopping(p)
    BY <1>1, KnownChild
  <1>4. \A c \in Stopping(p) : c \in Calls /\ AwaitsExit(c) /\ call[c].name = p
    BY DEF Stopping, AwaitsExit
  <1>5. \A c, d \in Stopping(p) : c = d
    BY <1>4 DEF OwnedInv, OneOperationPerProcess, AwaitsExit
  <1>6. \A j \in Kids : kid[j].onExit \in Calls => call[kid[j].onExit].child = j
    BY DEF OwnedInv, LockedInv, ListenerWaits
  <1>7. ASSUME NEW c \in Stopping(p) PROVE info[p].status \notin {"starting", "online"}
    <2>1. info[p].status # "online"
      BY <1>4 DEF OwnedInv, ChildrenInv, StopsAreShown
    <2>2. info[p].status # "starting"
      BY <1>4, <1>7
         DEF OwnedInv, ChildrenInv, TransientStatusHasOwner, OneOperationPerProcess,
             AwaitsExit
    <2> QED
      BY <2>1, <2>2
  <1> QED
    BY <1>1, <1>3, <1>4, <1>5, <1>6, <1>7

\* Of two living children of one process, one outlived the SIGKILL of a stop that
\* failed, or its SIGTERM was denied and the stop took it for dead.
THEOREM OneChildEach ==
    ASSUME NoDeniedSignal
    PROVE  SafeSpec => []OneChildPerProcess
  <1>1. ASSUME OwnedInv, InService, NEW p \in Procs, NEW k \in Alive(p),
               NEW l \in Alive(p), k # l
        PROVE  \E older \in {k, l} : Abandoned(older) \/ Denied(older)
    <2>1. PICK older \in {k, l} : GivenUp(older)
      BY <1>1, AloneAlive
    <2>2. older \in Kids /\ Unreaped(older)
      BY DEF Alive, Unreaped
    <2> QED
      BY <1>1, <2>1, <2>2, GivenUpHow
  <1>2. OwnedInv => OneChildPerProcess
    BY <1>1 DEF OneChildPerProcess
  <1> QED
    BY <1>2, OwnedAlways, PTL

\* The living children of a process while a call has its lock: the one that the
\* call is stopping, or the tracked one of a process that is up.
LEMMA HolderKnows ==
    ASSUME OwnedInv, InService, NoDeniedSignal, NEW c \in Calls,
           call[c].at \in {"granted", "pausing", "terminating", "killing"},
           NEW k \in Kids, Unreaped(k), kid[k].name = call[c].name, ~GivenUp(k)
    PROVE  \/ /\ childProcesses[call[c].name] = k
              /\ info[call[c].name].status = "online"
              /\ ~AwaitsExit(c)
           \/ AwaitsExit(c) /\ call[c].child = k
  <1> DEFINE p == call[c].name
  <1>0. p \in Procs
    BY DEF OwnedInv, LockedInv, TypeOK, Call
  <1>1. \A d \in Calls \ {c} : AwaitsSpawn(d) \/ AwaitsExit(d) => call[d].name # p
    BY HolderIsAlone
  <1>2. info[p].status # "starting"
    BY <1>0, <1>1 DEF OwnedInv, ChildrenInv, TransientStatusHasOwner, AwaitsSpawn
  <1>3. CASE childProcesses[p] = k /\ info[p].status \in {"starting", "online"}
    BY <1>2, <1>3 DEF OwnedInv, ChildrenInv, StopsAreShown
  <1>4. CASE kid[k].onExit \in Stopping(p)
    <2>1. PICK d \in Calls : d = kid[k].onExit /\ AwaitsExit(d) /\ call[d].name = p
      BY <1>4 DEF Stopping, AwaitsExit
    <2>2. d = c /\ call[d].child = k
      BY <1>1, <2>1 DEF OwnedInv, LockedInv, ListenerWaits
    <2> QED
      BY <2>1, <2>2
  <1> QED
    BY <1>3, <1>4, KnownChild

\* A process that is up, or is being stopped, when a call has just got its lock is
\* online: whatever start or stop there was is over.
LEMMA GrantedIsOnline ==
    ASSUME OwnedInv, InService, NEW c \in Calls, call[c].at \in {"granted", "pausing"},
           info[call[c].name].status \notin {"stopped", "errored"}
    PROVE  /\ info[call[c].name].status = "online"
           /\ childProcesses[call[c].name] \in Kids
  <1> DEFINE p == call[c].name
  <1>0. p \in Procs /\ info[p].status \in Statuses
    BY DEF OwnedInv, LockedInv, TypeOK, Call, Info
  <1>1. \A d \in Calls \ {c} : AwaitsSpawn(d) \/ AwaitsExit(d) => call[d].name # p
    BY HolderIsAlone
  <1>2. info[p].status # "starting"
    BY <1>0, <1>1 DEF OwnedInv, ChildrenInv, TransientStatusHasOwner, AwaitsSpawn
  <1>3. info[p].status # "stopping"
    BY <1>0, <1>1 DEF OwnedInv, ChildrenInv, TransientStatusHasOwner, AwaitsExit, Stopping
  <1> QED
    BY <1>0, <1>2, <1>3 DEF Statuses, OwnedInv, ChildrenInv, OnlineIsTracked

\* A call whose stop part is over leaves no living child but those abandoned
\* before, and those denied.
LEMMA StopEnds ==
    ASSUME OwnedInv, NoDeniedSignal, InService, NEW c \in Calls,
           call[c].kind \in Stops \cup Restarts,
           call[c].at = "granted", Run(c),
           call'[c].at = "pausing" \/ call'[c].result = "success",
           NEW k \in Kids, kid'[k].os = "alive", kid'[k].name = call[c].name
    PROVE  Abandoned(k) \/ Denied(k)'
  <1> DEFINE p == call[c].name
             l == childProcesses[p]
  <1>0. TypeOK /\ Typed /\ p \in Procs /\ l \in Kids \cup {NoKid}
    BY DEF OwnedInv, LockedInv, TypeOK, Typed, InfoTable, ChildTable, KidTable,
           CallTable, Call
  <1>1. StopInternal(c)
    BY DEF Run, Starts, Stops, Restarts
  <1>2. ~AwaitsExit(c)
    BY DEF AwaitsExit
  <1>3. ~Refuse(c)
    BY <1>0 DEF Refuse, Resolve, TypeOK, Call
  <1>4. CASE info[p].status \in {"stopped", "errored"} /\ AlreadyStopped(c)
    <2>1. kid' = kid
      BY <1>4 DEF AlreadyStopped
    <2>2. Unreaped(k) /\ GivenUp(k)
      BY <1>2, <1>4, <2>1, HolderKnows DEF Unreaped
    <2> QED
      BY <2>1, <2>2, GivenUpHow DEF Denied
  <1>5. CASE info[p].status \notin {"stopped", "errored"} /\ l = NoKid
    BY <1>5, GrantedIsOnline, ConstantsAssumption
  <1>6. CASE Terminate(c, p, l)
    <2>1. call'[c].at = "terminating" /\ call'[c].result = call[c].result
      BY <1>0, <1>6 DEF Terminate, Suspend, TypeOK, Call
    <2> QED
      BY <2>1 DEF OwnedInv, CallsInv, ResultsAreLast
  <1>7. CASE TakeForDead(c, p, l)
    <2>1. PICK denied \in Denials :
             /\ ~CanKill(l, denied)
             /\ kid' = [kid EXCEPT ![l].onExit = IF denied THEN "denied" ELSE "spent"]
      BY <1>7 DEF TakeForDead
    <2>2. Unreaped(k) /\ kid[k].name = p
      BY <1>0, <2>1 DEF TypeOK, Kid, Unreaped
    <2>3. CASE k = l
      <3>1. denied
        BY <2>1, <2>2, <2>3 DEF CanKill, Unreaped
      <3> QED
        BY <1>0, <2>1, <2>3, <3>1 DEF TypeOK, Kid, Denied
    <2>4. CASE k # l
      <3>1. kid'[k] = kid[k]
        BY <1>0, <2>1, <2>4 DEF TypeOK
      <3>2. GivenUp(k)
        BY <1>2, <2>2, <2>4, HolderKnows
      <3> QED
        BY <2>2, <3>1, <3>2, GivenUpHow DEF Denied
    <2> QED
      BY <2>3, <2>4
  <1> QED
    BY <1>1, <1>3, <1>4, <1>5, <1>6, <1>7 DEF StopInternal

\* A call that is stopping a child leaves none behind when its exit comes.
LEMMA StopExits ==
    ASSUME OwnedInv, NoDeniedSignal, InService, NEW l \in Kids, ExitEvent(l),
           HandleExit(l), NEW c \in Calls, c = kid[l].onExit,
           NEW k \in Kids, kid'[k].os = "alive", kid'[k].name = call[c].name
    PROVE  Abandoned(k) \/ Denied(k)'
  <1>1. kid'[l] = NoChild /\ \A j \in Kids \ {l} : kid'[j] = kid[j]
    BY DEF ExitEvent, OwnedInv, LockedInv, TypeOK
  <1>2. k # l /\ kid'[k] = kid[k]
    BY <1>1 DEF NoChild
  <1>3. AwaitsExit(c) /\ call[c].child = l /\ call[c].at \in {"terminating", "killing"}
    BY DEF OwnedInv, LockedInv, ListenerWaits, AwaitsExit
  <1>4. Unreaped(k) /\ GivenUp(k)
    BY <1>2, <1>3, HolderKnows DEF Unreaped
  <1> QED
    BY <1>2, <1>4, GivenUpHow DEF Denied

\* When a call has stopped a process, no child of it runs but those on which an
\* earlier stop failed, and those whose SIGTERM was denied.
THEOREM StopsAreTrue ==
    ASSUME NoDeniedSignal
    PROVE  SafeSpec => StopMeansDead
  <1>1. ASSUME OwnedInv, [Next]_vars, InService, NEW c \in Calls,
               NEW p \in Procs, EndsStop(c, p), NEW k \in Alive(p)'
        PROVE  Abandoned(k) \/ Denied(k)'
    <2> USE DEF EndsStop
    <2>0. TypeOK /\ Typed
      BY <1>1 DEF OwnedInv, LockedInv, TypeOK, Typed, InfoTable, ChildTable, KidTable,
             CallTable
    <2>1. call'[c] # call[c]
      BY <1>1 DEF OwnedInv, CallsInv, ResultsAreLast
    <2>2. k \in Kids /\ kid'[k].os = "alive" /\ kid'[k].name = p
      BY <1>1 DEF Alive
    <2>3. ASSUME NEW d \in Calls, Microtask(d) \/ OwnTimer(d)
          PROVE  Abandoned(k) \/ Denied(k)'
      <3>1. CASE Release(d)
        <4>1. \A e \in Lock!Resumed(mutexes[call[d].name]) : call[e].at = "waiting"
          BY <1>1, ResumedWaits DEF OwnedInv
        <4> QED
          BY <1>1, <2>1, <3>1, <4>1 DEF Release
      <3>2. CASE \E q \in Procs : CleanupStop(d, q)
        BY <1>1, <2>0, <2>1, <3>2 DEF CleanupStop, Begin, Idle, TypeOK
      <3>3. CASE Run(d) \/ PauseOver(d)
        <4>1. Moved(d)
          BY <2>0, <3>3, OperationMoves DEF Run, PauseOver
        <4>2. d = c /\ Run(c) /\ call[c].at = "granted" /\ call'[c].name = call[c].name
          BY <1>1, <2>1, <3>3, <4>1 DEF Moved, Run, PauseOver
        <4> QED
          BY <1>1, <2>2, <4>2, StopEnds
      <3>4. CASE SpawnEvent(d) \/ SpawnErrorEvent(d)
        <4>1. \A e \in Calls \ {d} : call'[e] = call[e]
          BY <2>0, <3>4, ResolveType DEF SpawnEvent, SpawnErrorEvent, Typed, Results
        <4> QED
          BY <1>1, <2>1, <3>4, <4>1 DEF SpawnEvent, SpawnErrorEvent
      <3>5. CASE TermTimeout(d)
        <4>1. /\ \A e \in Calls \ {d} : call'[e] = call[e]
              /\ call'[d].at = "killing" /\ call'[d].result = call[d].result
          BY <2>0, <3>5 DEF TermTimeout, Suspend, TypeOK, Call
        <4> QED
          BY <1>1, <2>1, <3>5, <4>1 DEF TermTimeout, OwnedInv, CallsInv, ResultsAreLast
      <3>6. CASE KillTimeout(d)
        <4>1. /\ \A e \in Calls \ {d} : call'[e] = call[e]
              /\ call'[d].at = "resolved" /\ call'[d].result = "failure"
          BY <2>0, <3>6 DEF KillTimeout, Resolve, TypeOK, Call
        <4> QED
          BY <1>1, <2>1, <4>1
      <3> QED
        BY <2>3, <3>1, <3>2, <3>3, <3>4, <3>5, <3>6 DEF Microtask, OwnTimer
    <2>4. ASSUME NEW d \in Calls, NEW q \in Procs, NEW kind, Begin(d, kind, q)
          PROVE  Abandoned(k) \/ Denied(k)'
      BY <1>1, <2>0, <2>1, <2>4 DEF Begin, Idle, TypeOK
    <2>5. ASSUME NEW l \in Kids, ExitEvent(l)
          PROVE  Abandoned(k) \/ Denied(k)'
      <3>1. HandleExit(l)
        BY <2>1, <2>5 DEF ExitEvent, DefaultExit, IgnoreExit
      <3>2. PICK d \in Calls : d = kid[l].onExit /\ Stopped(d, "success")
        BY <3>1 DEF HandleExit
      <3>3. call'[d].name = call[d].name /\ \A e \in Calls \ {d} : call'[e] = call[e]
        BY <2>0, <3>2, StoppedType DEF Typed, Results
      <3> QED
        BY <1>1, <2>1, <2>2, <2>5, <3>1, <3>2, <3>3, StopExits
    <2>6. call' # call
      BY <2>1
    <2> QED
      BY <1>1, <2>3, <2>4, <2>5, <2>6
         DEF Next, vars, Request, TimerFires, MemoryLimitExceeded, Ends, Configure,
             WindowExpires, SampleMemory, MemoryAccepted, CleanupBegin, CleanupCleared,
             CleanupDisposed
  <1>2. OwnedInv /\ [Next]_vars =>
          [ InService => \A c \in Calls, p \in Procs :
              EndsStop(c, p) =>
                \A k \in Alive(p)' : Abandoned(k) \/ Denied(k)' ]_vars
    BY <1>1
  <1> QED
    BY <1>2, OwnedAlways, PTL DEF SafeSpec, StopMeansDead

\* Without faults of the system nothing is excepted: a stop that succeeds leaves
\* no living child, and two children of a process never run side by side, until
\* cleanup clears the maps.
THEOREM FaultlessStopsAreTrue ==
    ASSUME Faults = {}
    PROVE  SafeSpec => /\ StoppedIsDead
                       /\ [](InService => \A p \in Procs : \A k, l \in Alive(p) : k = l)
  <1> DEFINE Alone == InService => \A p \in Procs : \A k, l \in Alive(p) : k = l
             Step == InService => \A c \in Calls, p \in Procs :
                       EndsStop(c, p) => Alive(p)' = {}
             Excepting == InService => \A c \in Calls, p \in Procs :
                       EndsStop(c, p) =>
                         \A k \in Alive(p)' : Abandoned(k) \/ Denied(k)'
  <1>1. OwnedInv => \A k \in Kids : ~Denied(k) /\ ~Abandoned(k)
    BY DEF OwnedInv, IgnoredForCause
  <1>2. OwnedInv /\ OneChildPerProcess => Alone
    BY <1>1 DEF OneChildPerProcess, Alive
  <1>3. OwnedInv' => \A k \in Kids : ~Denied(k)'
    BY DEF OwnedInv, IgnoredForCause
  <1>4. OwnedInv /\ OwnedInv' /\ [Excepting]_vars => [Step]_vars
    BY <1>1, <1>3 DEF Alive
  <1>5. NoDeniedSignal
    BY DEF NoDeniedSignal
  <1>6. SafeSpec => StopMeansDead /\ []OneChildPerProcess
    BY <1>5, StopsAreTrue, OneChildEach
  <1> QED
    BY <1>2, <1>4, <1>6, OwnedAlways, PTL DEF StopMeansDead, StoppedIsDead

-----------------------------------------------------------------------------
\* A child that runs ran before, or a start of a configured process made it.
LEMMA OnlyStartsSpawn ==
    ASSUME TypeOK, [Next]_vars, NEW k \in Kids, kid'[k].os = "alive"
    PROVE  \/ kid[k].os = "alive" /\ kid'[k].name = kid[k].name
           \/ \E c \in Calls :
                /\ StartInternal(c) /\ Spawns(c, call[c].name)
                /\ call[c].name \in processes /\ kid'[k].name = call[c].name
  <1>1. CASE UNCHANGED kid
    BY <1>1
  <1>2. ASSUME NEW c \in Calls, NEW l, NEW on, kid' = [kid EXCEPT ![l].onExit = on]
        PROVE  kid[k].os = "alive" /\ kid'[k].name = kid[k].name
    BY <1>2 DEF TypeOK, Kid
  <1>3. ASSUME NEW c \in Calls, StartInternal(c)
        PROVE  \/ kid[k].os = "alive" /\ kid'[k].name = kid[k].name
               \/ /\ StartInternal(c) /\ Spawns(c, call[c].name)
                  /\ call[c].name \in processes /\ kid'[k].name = call[c].name
    <2>1. CASE Spawns(c, call[c].name) /\ call[c].name \in processes
      <3>1. PICK l \in Kids, os \in {"alive", "unspawned"} :
               kid' = [kid EXCEPT ![l] = [NoChild EXCEPT !.os = os, !.name = call[c].name]]
        BY <2>1 DEF Spawns
      <3>2. [NoChild EXCEPT !.os = os, !.name = call[c].name].name = call[c].name
        BY DEF NoChild
      <3>3. kid'[k] = kid[k] \/ kid'[k].name = call[c].name
        BY <3>1, <3>2 DEF TypeOK
      <3> QED
        BY <1>3, <2>1, <3>3
    <2> QED
      BY <1>1, <1>3, <2>1 DEF StartInternal, Refuse, SpawnThrows
  <1>4. ASSUME NEW c \in Calls, Microtask(c) \/ OwnTimer(c)
        PROVE  \/ kid[k].os = "alive" /\ kid'[k].name = kid[k].name
               \/ \E d \in Calls :
                    /\ StartInternal(d) /\ Spawns(d, call[d].name)
                    /\ call[d].name \in processes /\ kid'[k].name = call[d].name
    <2>1. CASE StopInternal(c) \/ SignalInternal(c)
      BY <1>1, <1>2, <2>1
         DEF StopInternal, SignalInternal, Refuse, AlreadyStopped, NothingToKill,
             Terminate, TakeForDead
    <2>2. CASE SpawnErrorEvent(c)
      BY <2>2 DEF SpawnErrorEvent, NoChild, TypeOK
    <2>3. CASE SpawnEvent(c) \/ TermTimeout(c) \/ KillTimeout(c) \/ Release(c)
                 \/ \E p \in Procs : CleanupStop(c, p)
      BY <1>1, <1>2, <2>3 DEF SpawnEvent, TermTimeout, KillTimeout, Release, CleanupStop
    <2> QED
      BY <1>3, <1>4, <2>1, <2>2, <2>3 DEF Microtask, OwnTimer, Run, PauseOver
  <1>5. ASSUME NEW l \in Kids, NEW ending, Ends(l, ending) \/ ExitEvent(l)
        PROVE  kid[k].os = "alive" /\ kid'[k].name = kid[k].name
    <2>1. CASE Ends(l, ending)
      BY <2>1 DEF Ends, TypeOK, Kid
    <2>2. CASE ExitEvent(l)
      BY <2>2 DEF ExitEvent, NoChild, TypeOK
    <2> QED
      BY <1>5, <2>1, <2>2
  <1> QED
    BY <1>1, <1>4, <1>5
       DEF Next, vars, Request, TimerFires, MemoryLimitExceeded, Configure,
           WindowExpires, SampleMemory, MemoryAccepted, CleanupBegin, CleanupCleared,
           CleanupDisposed

\* When the manager is disposed of nothing is started any more, whatever
\* auto-restarts, queued calls and pausing restarts there are.
THEOREM DisposedStartsNothing == SafeSpec => NothingStartsAfterCleanup
  <1>1. OwnedInv /\ [Next]_vars =>
          [ manager.phase = "disposed" =>
              \A p \in Procs : Alive(p)' \subseteq Alive(p) ]_vars
    <2> SUFFICES ASSUME OwnedInv, [Next]_vars, manager.phase = "disposed",
                        NEW p \in Procs, NEW k \in Alive(p)'
                 PROVE  k \in Alive(p)
      OBVIOUS
    <2>1. processes = {} /\ TypeOK
      BY DEF OwnedInv, LockedInv, CallsInv, DisposedIsEmpty
    <2>2. k \in Kids /\ kid'[k].os = "alive" /\ kid'[k].name = p
      BY DEF Alive
    <2>3. kid[k].os = "alive" /\ kid'[k].name = kid[k].name
      BY <2>1, <2>2, OnlyStartsSpawn
    <2> QED
      BY <2>2, <2>3 DEF Alive
  <1> QED
    BY <1>1, OwnedAlways, PTL DEF SafeSpec, NothingStartsAfterCleanup

-----------------------------------------------------------------------------
(***************************************************************************)
(* Supervision.  Where the system has no faults, and until the manager is  *)
(* cleaned up, no stop gives up on a child and a stop in progress shows;   *)
(* so the status of a process and its living children move as the abstract *)
(* specification says.                                                     *)
(***************************************************************************)
FaultFree == Faults = {} /\ "cleanup" \notin Requests

NeverGivesUp == \A k \in Kids : Unreaped(k) => ~GivenUp(k)

StopsShow == \A c \in Calls : AwaitsExit(c) => info[call[c].name].status = "stopping"

SupervisedInv ==
    OwnedInv /\ NeverGivesUp /\ StopsShow /\ manager.phase = "running"

\* What each step must do.
SupervisedStep ==
    NeverGivesUp' /\ StopsShow' /\ [Supervise!Next]_(Supervise!vars)

\* Of one process, the children and the status.
LEMMA SuperviseStep ==
    ASSUME NEW p \in Procs,
           \A q \in Procs \ {p} : info'[q].status = info[q].status /\ Alive(q)' = Alive(q),
           \/ /\ info[p].status \in {"stopped", "errored"} /\ Alive(p) = {}
              /\ info'[p].status = "starting"
              /\ Alive(p)' = {} \/ \E k \in Kids : Alive(p)' = {k}
           \/ /\ info[p].status \in {"stopped", "errored", "starting"} /\ Alive(p) = {}
              /\ info'[p].status = "errored" /\ Alive(p)' = {}
           \/ /\ info[p].status = "starting" /\ info'[p].status = "online"
              /\ Alive(p)' = Alive(p)
           \/ /\ info[p].status = "online" /\ info'[p].status = "stopping"
              /\ Alive(p)' = Alive(p)
           \/ /\ info[p].status = "online" /\ Alive(p) = {}
              /\ info'[p].status \in {"stopped", "errored"} /\ Alive(p)' = {}
           \/ /\ info[p].status = "stopping" /\ Alive(p) = {}
              /\ info'[p].status = "stopped" /\ Alive(p)' = {}
           \/ /\ info'[p].status = info[p].status
              /\ Alive(p) # {} /\ Alive(p)' = {}
           \/ info'[p].status = info[p].status /\ Alive(p)' = Alive(p)
    PROVE  [Supervise!Next]_(Supervise!vars)
  <1> DEFINE st == [q \in Procs |-> info[q].status]
             lv == [q \in Procs |-> Alive(q)]
             st1 == [q \in Procs |-> info'[q].status]
             lv1 == [q \in Procs |-> Alive(q)']
             a  == Alive(p)
             a1 == Alive(p)'
             s  == info[p].status
             s1 == info'[p].status
  <1>1. /\ st1 = [st EXCEPT ![p] = s1] /\ lv1 = [lv EXCEPT ![p] = a1]
        /\ st[p] = s /\ lv[p] = a
    OBVIOUS
  <1>2. s1 = s => st1 = st
    OBVIOUS
  <1>3. a1 = a => lv1 = lv
    OBVIOUS
  <1>4. st' = st1 /\ lv' = lv1
    OBVIOUS
  <1> HIDE DEF st, lv, st1, lv1, a, a1, s, s1
  <1>5. \/ s \in {"stopped", "errored"} /\ a = {} /\ s1 = "starting"
           /\ (a1 = {} \/ \E k \in Kids : a1 = {k})
        \/ s \in {"stopped", "errored", "starting"} /\ a = {} /\ s1 = "errored" /\ a1 = {}
        \/ s = "starting" /\ s1 = "online" /\ a1 = a
        \/ s = "online" /\ s1 = "stopping" /\ a1 = a
        \/ s = "online" /\ a = {} /\ s1 \in {"stopped", "errored"} /\ a1 = {}
        \/ s = "stopping" /\ a = {} /\ s1 = "stopped" /\ a1 = {}
        \/ s1 = s /\ a # {} /\ a1 = {}
        \/ s1 = s /\ a1 = a
    BY DEF a, a1, s, s1
  <1>6. CASE s \in {"stopped", "errored"} /\ a = {} /\ s1 = "starting"
             /\ (a1 = {} \/ \E k \in Kids : a1 = {k})
    <2>1. Supervise!Start(p)
      BY <1>1, <1>4, <1>6 DEF Supervise!Start, Supervise!Down, st, lv, st1, lv1
    <2> QED
      BY <2>1 DEF Supervise!Next
  <1>7. CASE s \in {"stopped", "errored", "starting"} /\ a = {} /\ s1 = "errored" /\ a1 = {}
    <2>1. Supervise!Fail(p)
      BY <1>1, <1>3, <1>4, <1>7 DEF Supervise!Fail, Supervise!Down, st, lv, st1, lv1
    <2> QED
      BY <2>1 DEF Supervise!Next
  <1>8. CASE s = "starting" /\ s1 = "online" /\ a1 = a
    <2>1. Supervise!Run(p)
      BY <1>1, <1>3, <1>4, <1>8 DEF Supervise!Run, st, lv, st1, lv1
    <2> QED
      BY <2>1 DEF Supervise!Next
  <1>9. CASE s = "online" /\ s1 = "stopping" /\ a1 = a
    <2>1. Supervise!Stop(p)
      BY <1>1, <1>3, <1>4, <1>9 DEF Supervise!Stop, st, lv, st1, lv1
    <2> QED
      BY <2>1 DEF Supervise!Next
  <1>10. CASE \/ s = "online" /\ a = {} /\ s1 \in {"stopped", "errored"} /\ a1 = {}
              \/ s = "stopping" /\ a = {} /\ s1 = "stopped" /\ a1 = {}
    <2>1. Supervise!Notice(p)
      BY <1>1, <1>3, <1>4, <1>10 DEF Supervise!Notice, st, lv, st1, lv1
    <2> QED
      BY <2>1 DEF Supervise!Next
  <1>11. CASE s1 = s /\ a # {} /\ a1 = {}
    <2>1. Supervise!Die(p)
      BY <1>1, <1>2, <1>4, <1>11 DEF Supervise!Die, st, lv, st1, lv1
    <2> QED
      BY <2>1 DEF Supervise!Next
  <1>12. CASE s1 = s /\ a1 = a
    BY <1>2, <1>3, <1>4, <1>12 DEF Supervise!vars, st, lv, st1, lv1
  <1> QED
    BY <1>5, <1>6, <1>7, <1>8, <1>9, <1>10, <1>11, <1>12

\* Steps that show nothing: the statuses and the living children stay.
LEMMA SilentSteps ==
    ASSUME SupervisedInv,
           \A q \in Procs : info'[q].status = info[q].status,
           \A k \in Kids : /\ kid'[k].os = "alive" <=> kid[k].os = "alive"
                           /\ kid[k].os = "alive" => kid'[k].name = kid[k].name,
           \A k \in Kids : Unreaped(k)' /\ GivenUp(k)' => Unreaped(k) /\ GivenUp(k),
           \A c \in Calls : AwaitsExit(c)' =>
               AwaitsExit(c) /\ call'[c].name = call[c].name
    PROVE  SupervisedStep
  <1>1. \A q \in Procs : Alive(q)' = Alive(q)
    BY DEF Alive
  <1>2. PICK p \in Procs : TRUE
    BY ConstantsAssumption
  <1>3. [Supervise!Next]_(Supervise!vars)
    BY <1>1, <1>2, SuperviseStep
  <1>4. \A c \in Calls : call[c].name \in Procs
    BY DEF SupervisedInv, OwnedInv, LockedInv, TypeOK, Call
  <1>5. NeverGivesUp' /\ StopsShow'
    BY <1>4 DEF SupervisedInv, NeverGivesUp, StopsShow
  <1> QED
    BY <1>3, <1>5 DEF SupervisedStep

\* A process whose lock a call holds has no living child, but for the one it
\* tracks while online, or that the call is stopping.
LEMMA HolderAlive ==
    ASSUME SupervisedInv, FaultFree, NEW c \in Calls,
           call[c].at \in {"granted", "pausing", "terminating", "killing"},
           NEW p \in Procs, p = call[c].name, NEW k \in Alive(p)
    PROVE  \/ childProcesses[p] = k /\ info[p].status = "online" /\ ~AwaitsExit(c)
           \/ AwaitsExit(c) /\ call[c].child = k
  <1>1. InService /\ NoDeniedSignal
    BY DEF SupervisedInv, InService, FaultFree, NoDeniedSignal
  <1>2. k \in Kids /\ Unreaped(k) /\ ~GivenUp(k) /\ kid[k].name = p
    BY DEF Alive, Unreaped, SupervisedInv, NeverGivesUp
  <1> QED
    BY <1>1, <1>2, HolderKnows DEF SupervisedInv

\* No other call stops a process whose lock a call holds.
LEMMA OthersShow ==
    ASSUME SupervisedInv, NEW c \in Calls, call[c].at \notin {"idle", "waiting"},
           Moved(c), NEW p \in Procs, p = call[c].name,
           \A q \in Procs \ {p} : info'[q].status = info[q].status,
           AwaitsExit(c)' => info'[p].status = "stopping"
    PROVE  StopsShow'
  <1>1. \A d \in Calls \ {c} : AwaitsExit(d) => call[d].name # p
    BY HolderIsAlone DEF SupervisedInv
  <1>2. \A d \in Calls \ {c} : call'[d] = call[d]
    BY DEF Moved
  <1>3. \A d \in Calls : call[d].name \in Procs
    BY DEF SupervisedInv, OwnedInv, LockedInv, TypeOK, Call
  <1>4. call'[c].name = p
    BY DEF Moved
  <1>5. \A d \in Calls \ {c} : AwaitsExit(d)' => AwaitsExit(d)
    BY <1>2 DEF AwaitsExit
  <1> QED
    BY <1>1, <1>2, <1>3, <1>4, <1>5 DEF StopsShow, SupervisedInv

\* A start: refused, failed, or with a child.
LEMMA StartSupervised ==
    ASSUME SupervisedInv, FaultFree, NEW c \in Calls,
           call[c].at \in {"granted", "pausing"}, StartInternal(c)
    PROVE  SupervisedStep
  <1>0. TypeOK /\ Typed /\ InService /\ OwnedInv
    BY DEF SupervisedInv, OwnedInv, LockedInv, TypeOK, Typed, InfoTable, ChildTable,
           KidTable, CallTable, InService
  <1>1. PICK p \in Procs : p = call[c].name
    BY <1>0 DEF TypeOK, Call
  <1>2. Moved(c)
    BY <1>0, OperationMoves
  <1>3. CASE Refuse(c)
    <2>1. call'[c].at = "resolved"
      BY <1>0, <1>3, ResolveType DEF Refuse, Typed, Results
    <2>2. \A d \in Calls : AwaitsExit(d)' => AwaitsExit(d) /\ call'[d].name = call[d].name
      BY <1>2, <2>1 DEF Moved, AwaitsExit
    <2> QED
      BY <1>3, <2>2, SilentSteps DEF Refuse, Unreaped, GivenUp
  <1>4. CASE info[p].status \notin {"online", "starting"} /\ ~Refuse(c)
    <2>1. info[p].status \in {"stopped", "errored"}
      BY <1>0, <1>1, <1>4, GrantedIsOnline
    <2>2. Alive(p) = {}
      BY <1>1, <2>1, HolderAlive DEF AwaitsExit
    <2>3. CASE SpawnThrows(c, p)
      <3>1. info'[p].status = "errored" /\ \A q \in Procs \ {p} : info'[q] = info[q]
        <4>1. SetStatus(info[p], "starting") \in Info
          BY <1>0, SetStatusType DEF TypeOK, Statuses
        <4>2. SetStatus(SetStatus(info[p], "starting"), "errored").status = "errored"
          BY <4>1, SetStatusType DEF Statuses
        <4> QED
          BY <1>0, <2>3, <4>2 DEF SpawnThrows, TypeOK
      <3>2. kid' = kid /\ \A q \in Procs : Alive(q)' = Alive(q)
        BY <2>3 DEF SpawnThrows, Alive
      <3>3. call'[c].at = "resolved"
        BY <1>0, <2>3, ResolveType DEF SpawnThrows, Typed, Results
      <3>4. StopsShow'
        BY <1>1, <1>2, <3>1, <3>3, OthersShow DEF AwaitsExit
      <3>5. NeverGivesUp'
        BY <3>2 DEF SupervisedInv, NeverGivesUp, Unreaped, GivenUp
      <3> QED
        BY <2>1, <2>2, <3>1, <3>2, <3>4, <3>5, SuperviseStep DEF SupervisedStep
    <2>4. CASE Spawns(c, p)
      <3>1. PICK k \in Kids, os \in {"alive", "unspawned"} :
               /\ Fresh(k)
               /\ info' = [info EXCEPT ![p] = SetStatus(@, "starting")]
               /\ kid' = [kid EXCEPT ![k] = [NoChild EXCEPT !.os = os, !.name = p]]
               /\ Suspend(c, "spawning", k)
        BY <2>4 DEF Spawns
      <3>2. info'[p].status = "starting" /\ \A q \in Procs \ {p} : info'[q] = info[q]
        BY <1>0, <3>1, StatusSet DEF Statuses
      <3>3. /\ kid'[k].os = os /\ kid'[k].name = p /\ kid'[k].onExit = "none"
            /\ \A j \in Kids \ {k} : kid'[j] = kid[j]
            /\ kid[k].os = "none"
        BY <1>0, <3>1 DEF TypeOK, NoChild, Fresh
      <3>4. /\ \A q \in Procs \ {p} : Alive(q)' = Alive(q)
            /\ Alive(p)' = {} \/ Alive(p)' = {k}
        BY <2>2, <3>3 DEF Alive
      <3>5. call'[c].at = "spawning"
        BY <1>0, <3>1, SuspendType DEF TypeOK, CallTable, Places
      <3>6. StopsShow'
        BY <1>1, <1>2, <3>2, <3>5, OthersShow DEF AwaitsExit
      <3>7. NeverGivesUp'
        BY <3>3 DEF SupervisedInv, NeverGivesUp, Unreaped, GivenUp, Ignoring
      <3> QED
        BY <2>1, <2>2, <3>2, <3>4, <3>6, <3>7, SuperviseStep DEF SupervisedStep
    <2> QED
      BY <1>1, <1>4, <2>3, <2>4 DEF StartInternal
  <1> QED
    BY <1>1, <1>3, <1>4 DEF StartInternal

\* A stop: of nothing, or of an online process with its child.
LEMMA StopSupervised ==
    ASSUME SupervisedInv, FaultFree, NEW c \in Calls, call[c].at = "granted",
           StopInternal(c)
    PROVE  SupervisedStep
  <1>0. TypeOK /\ Typed /\ InService /\ OwnedInv
    BY DEF SupervisedInv, OwnedInv, LockedInv, TypeOK, Typed, InfoTable, ChildTable,
           KidTable, CallTable, InService
  <1>1. PICK p, k : p \in Procs /\ p = call[c].name /\ k = childProcesses[p]
    BY <1>0 DEF TypeOK, Call
  <1>2. Moved(c)
    BY <1>0, OperationMoves
  <1>3. CASE Refuse(c) \/ AlreadyStopped(c)
    <2>1. call'[c].at \in {"pausing", "resolved"}
      BY <1>0, <1>3, ResolveType, StoppedType DEF Refuse, AlreadyStopped, Typed, Results
    <2>2. \A d \in Calls : AwaitsExit(d)' => AwaitsExit(d) /\ call'[d].name = call[d].name
      BY <1>2, <2>1 DEF Moved, AwaitsExit
    <2> QED
      BY <1>3, <2>2, SilentSteps DEF Refuse, AlreadyStopped, Unreaped, GivenUp
  <1>4. CASE info[p].status \notin {"stopped", "errored"} /\ ~Refuse(c) /\ ~AlreadyStopped(c)
    <2>1. info[p].status = "online" /\ k \in Kids /\ kid[k].os \in {"alive", "dead"}
      BY <1>0, <1>1, <1>4, GrantedIsOnline DEF OwnedInv, ChildrenInv, OnlineIsTracked
    <2>2. k # NoKid /\ ~TakeForDead(c, p, k)
      BY <2>1, ConstantsAssumption DEF TakeForDead, CanKill, Denials, FaultFree
    <2>3. Terminate(c, p, k)
      BY <1>1, <1>4, <2>2 DEF StopInternal
    <2>4. info'[p].status = "stopping" /\ \A q \in Procs \ {p} : info'[q] = info[q]
      BY <1>0, <1>1, <2>3, StatusSet DEF Terminate, Statuses
    <2>5. /\ kid'[k].onExit = c
          /\ \A j \in Kids : /\ kid'[j].os = kid[j].os /\ kid'[j].name = kid[j].name
                             /\ j = k \/ kid'[j].onExit = kid[j].onExit
      BY <1>0, <2>1, <2>3 DEF Terminate, TypeOK, Kid
    <2>6. \A q \in Procs : Alive(q)' = Alive(q)
      BY <2>5 DEF Alive
    <2>7. NeverGivesUp'
      BY <2>5, ConstantsAssumption DEF SupervisedInv, NeverGivesUp, Unreaped, GivenUp, Ignoring
    <2>8. StopsShow'
      BY <1>1, <1>2, <2>4, OthersShow
    <2> QED
      BY <1>1, <2>1, <2>4, <2>6, <2>7, <2>8, SuperviseStep DEF SupervisedStep
  <1> QED
    BY <1>1, <1>3, <1>4 DEF StopInternal

\* A signal that is not denied shows nothing.
LEMMA SignalSupervised ==
    ASSUME SupervisedInv, FaultFree, NEW c \in Calls, SignalInternal(c)
    PROVE  SupervisedStep
  <1>0. TypeOK /\ Typed
    BY DEF SupervisedInv, OwnedInv, LockedInv, TypeOK, Typed, InfoTable, ChildTable,
           KidTable, CallTable
  <1>1. UNCHANGED <<info, kid>>
    BY DEF SignalInternal, Refuse, Denials, FaultFree
  <1>2. Moved(c) /\ call'[c].at = "resolved"
    BY <1>0, OperationMoves, ResolveType DEF SignalInternal, Refuse, Typed, Results
  <1>3. \A d \in Calls : AwaitsExit(d)' => AwaitsExit(d) /\ call'[d].name = call[d].name
    BY <1>2 DEF Moved, AwaitsExit
  <1> QED
    BY <1>1, <1>3, SilentSteps DEF Unreaped, GivenUp

\* The 'spawn' event puts a process online, the 'error' event ends a start.
LEMMA SpawnSupervised ==
    ASSUME SupervisedInv, FaultFree, NEW c \in Calls, SpawnEvent(c) \/ SpawnErrorEvent(c)
    PROVE  SupervisedStep
  <1>0. TypeOK /\ Typed /\ InService /\ OwnedInv /\ AwaitsSpawn(c) /\ NoDeniedSignal
    BY DEF SupervisedInv, OwnedInv, LockedInv, TypeOK, Typed, InfoTable, ChildTable,
           KidTable, CallTable, InService, AwaitsSpawn, SpawnEvent, SpawnErrorEvent,
           NoDeniedSignal, FaultFree
  <1>1. PICK p \in Procs, k \in Kids : /\ p = call[c].name /\ k = call[c].child
                                       /\ kid[k].name = p
    BY <1>0 DEF TypeOK, Call, OwnedInv, ChildrenInv, ChildrenOfCalls
  <1>2. childProcesses[p] = k /\ info[p].status = "starting"
    BY <1>0, <1>1 DEF OwnedInv, ChildrenInv, StartsAreShown
  <1>3. Moved(c) /\ call'[c].at = "resolved"
    BY <1>0, MovesCall, ResolveType DEF SpawnEvent, SpawnErrorEvent, Typed, Results
  <1>4. call[c].at \notin {"idle", "waiting"} /\ ~AwaitsExit(c)'
    BY <1>0, <1>3 DEF AwaitsSpawn, AwaitsExit
  <1>5. CASE SpawnEvent(c)
    <2>1. info'[p].status = "online" /\ \A q \in Procs \ {p} : info'[q] = info[q]
      <3>1. [info[p] EXCEPT !.pid = k] \in Info
        BY <1>0 DEF TypeOK, Info
      <3>2. Online(info[p], k).status = "online"
        BY <3>1, SetStatusType DEF Online, Statuses
      <3> QED
        BY <1>0, <1>1, <1>5, <3>2 DEF SpawnEvent, TypeOK
    <2>2. \A j \in Kids : /\ kid'[j].os = kid[j].os /\ kid'[j].name = kid[j].name
                          /\ kid'[j].onExit \in {kid[j].onExit, "default"}
      BY <1>0, <1>5 DEF SpawnEvent, TypeOK, Kid
    <2>3. \A q \in Procs : Alive(q)' = Alive(q)
      BY <2>2 DEF Alive
    <2>4. NeverGivesUp'
      BY <2>2 DEF SupervisedInv, NeverGivesUp, Unreaped, GivenUp, Ignoring
    <2>5. StopsShow'
      BY <1>1, <1>3, <1>4, <2>1, OthersShow
    <2> QED
      BY <1>2, <2>1, <2>3, <2>4, <2>5, SuperviseStep DEF SupervisedStep
  <1>6. CASE SpawnErrorEvent(c)
    <2>1. info'[p].status = "errored" /\ \A q \in Procs \ {p} : info'[q] = info[q]
      BY <1>0, <1>1, <1>6, StatusSet DEF SpawnErrorEvent, ErrorHandler, Statuses
    <2>2. /\ kid[k].os = "unspawned" /\ kid'[k] = NoChild
          /\ \A j \in Kids \ {k} : kid'[j] = kid[j]
      BY <1>0, <1>1, <1>6 DEF SpawnErrorEvent, TypeOK
    <2>3. \A q \in Procs : Alive(q)' = Alive(q)
      BY <2>2 DEF Alive, NoChild
    <2>4. Alive(p) = {}
      <3>1. SUFFICES ASSUME NEW l \in Alive(p) PROVE FALSE
        OBVIOUS
      <3>2. l \in Kids /\ l # k /\ kid[l].name = p /\ Unreaped(l) /\ ~GivenUp(l)
        BY <2>2 DEF Alive, Unreaped, SupervisedInv, NeverGivesUp
      <3>3. kid[l].onExit \in Stopping(p)
        BY <1>0, <1>2, <3>2, KnownChild
      <3> QED
        BY <1>0, <1>1, <1>4, <3>3, HolderIsAlone DEF Stopping, AwaitsExit, AwaitsSpawn
    <2>5. NeverGivesUp'
      BY <2>2 DEF SupervisedInv, NeverGivesUp, Unreaped, GivenUp, NoChild
    <2>6. StopsShow'
      BY <1>1, <1>3, <1>4, <2>1, OthersShow
    <2> QED
      BY <1>2, <2>1, <2>3, <2>4, <2>5, <2>6, SuperviseStep DEF SupervisedStep
  <1> QED
    BY <1>5, <1>6

\* The end of a child that was the one of its process.
LEMMA EndSupervised ==
    ASSUME SupervisedInv, FaultFree, NEW k \in Kids, NEW ending \in Endings,
           Ends(k, ending)
    PROVE  SupervisedStep
  <1>0. TypeOK /\ InService /\ NoDeniedSignal /\ OwnedInv
    BY DEF SupervisedInv, OwnedInv, LockedInv, InService, NoDeniedSignal, FaultFree
  <1>1. PICK p \in Procs : p = kid[k].name
    BY <1>0 DEF TypeOK, Kid
  <1>2. \A j \in Kids : /\ kid'[j].name = kid[j].name /\ kid'[j].onExit = kid[j].onExit
                        /\ kid'[j].os = IF j = k THEN "dead" ELSE kid[j].os
    BY <1>0 DEF Ends, TypeOK, Kid
  <1>3. k \in Alive(p)
    BY <1>1 DEF Ends, Alive
  <1>4. \A l \in Alive(p) : l = k
    <2>1. \A l \in Alive(p) : ~GivenUp(l)
      BY DEF SupervisedInv, NeverGivesUp, Alive, Unreaped
    <2> QED
      BY <1>0, <1>3, <2>1, AloneAlive DEF OneChildPerProcess
  <1>5. Alive(p)' = {} /\ \A q \in Procs \ {p} : Alive(q)' = Alive(q)
    BY <1>1, <1>2, <1>3, <1>4 DEF Alive
  <1>6. NeverGivesUp'
    BY <1>2 DEF Ends, SupervisedInv, NeverGivesUp, Unreaped, GivenUp
  <1>7. StopsShow'
    BY DEF Ends, SupervisedInv, StopsShow, AwaitsExit
  <1>8. info' = info
    BY DEF Ends
  <1> QED
    BY <1>3, <1>5, <1>6, <1>7, <1>8, SuperviseStep DEF SupervisedStep

\* The exit event of a child is noticed when no other child of it lives.
LEMMA ExitSupervised ==
    ASSUME SupervisedInv, FaultFree, NEW k \in Kids, ExitEvent(k)
    PROVE  SupervisedStep
  <1>0. TypeOK /\ Typed /\ InService /\ NoDeniedSignal /\ OwnedInv
    BY DEF SupervisedInv, OwnedInv, LockedInv, TypeOK, Typed, InfoTable, ChildTable,
           KidTable, CallTable, InService, NoDeniedSignal, FaultFree
  <1>1. PICK p \in Procs : p = kid[k].name
    BY <1>0 DEF TypeOK, Kid
  <1>2. /\ kid[k].os = "dead" /\ kid'[k] = NoChild
        /\ \A j \in Kids \ {k} : kid'[j] = kid[j]
    BY <1>0 DEF ExitEvent, TypeOK
  <1>3. \A q \in Procs : Alive(q)' = Alive(q)
    BY <1>2 DEF Alive, NoChild
  <1>4. NeverGivesUp'
    BY <1>2 DEF SupervisedInv, NeverGivesUp, Unreaped, GivenUp, NoChild
  <1>5. CASE HandleExit(k)
    <2>1. PICK c \in Calls : c = kid[k].onExit
      BY <1>5 DEF HandleExit
    <2>2. call[c].at \in {"terminating", "killing"} /\ call[c].child = k
      BY <1>0, <2>1 DEF OwnedInv, LockedInv, ListenerWaits
    <2>3. AwaitsExit(c) /\ call[c].name = p
      BY <1>0, <1>1, <2>2 DEF AwaitsExit, OwnedInv, ChildrenInv, ChildrenOfCalls
    <2>4. Moved(c) /\ call'[c].at \in {"pausing", "resolved"}
      BY <1>0, <1>5, <2>1, MovesCall, StoppedType DEF HandleExit, Typed, Results
    <2>5. info'[p].status = "stopped" /\ \A q \in Procs \ {p} : info'[q] = info[q]
      BY <1>0, <1>1, <1>5, StatusSet DEF HandleExit, Statuses
    <2>6. info[p].status = "stopping"
      BY <2>3 DEF SupervisedInv, StopsShow
    <2>7. Alive(p) = {}
      <3>1. \A l \in Alive(p) : l = k
        BY <2>2, <2>3, HolderAlive
      <3> QED
        BY <1>2, <3>1 DEF Alive
    <2>8. StopsShow'
      BY <2>2, <2>3, <2>4, <2>5, OthersShow DEF AwaitsExit
    <2> QED
      BY <1>3, <1>4, <2>5, <2>6, <2>7, <2>8, SuperviseStep DEF SupervisedStep
  <1>6. CASE DefaultExit(k)
    <2>1. childProcesses[p] = k /\ info[p].status = "online"
      BY <1>0, <1>1, <1>2, <1>6 DEF DefaultExit, OwnedInv, ChildrenInv, HandledIsOnline, Unreaped
    <2>2. info'[p].status \in {"stopped", "errored"} /\ \A q \in Procs \ {p} : info'[q] = info[q]
      BY <1>0, <1>1, <1>6, AfterExitStatus DEF DefaultExit, TypeOK
    <2>3. \A c \in Calls : AwaitsExit(c) => call[c].name # p
      BY <2>1 DEF SupervisedInv, StopsShow
    <2>4. Alive(p) = {}
      <3>1. SUFFICES ASSUME NEW l \in Alive(p) PROVE FALSE
        OBVIOUS
      <3>2. l \in Kids /\ l # k /\ kid[l].name = p /\ Unreaped(l) /\ ~GivenUp(l)
        BY <1>2 DEF Alive, Unreaped, SupervisedInv, NeverGivesUp
      <3>3. kid[l].onExit \in Stopping(p)
        BY <1>0, <2>1, <3>2, KnownChild
      <3> QED
        BY <2>3, <3>3 DEF Stopping, AwaitsExit
    <2>5. call' = call /\ \A c \in Calls : call[c].name \in Procs
      BY <1>0, <1>6 DEF DefaultExit, TypeOK, Call
    <2>6. StopsShow'
      BY <2>2, <2>3, <2>5 DEF SupervisedInv, StopsShow, AwaitsExit
    <2> QED
      BY <1>3, <1>4, <2>1, <2>2, <2>4, <2>6, SuperviseStep DEF SupervisedStep
  <1>7. CASE IgnoreExit(k)
    <2>1. UNCHANGED <<info, call>>
      BY <1>7 DEF IgnoreExit
    <2>2. \A d \in Calls : AwaitsExit(d)' => AwaitsExit(d) /\ call'[d].name = call[d].name
      BY <2>1 DEF AwaitsExit
    <2> QED
      BY <1>2, <2>1, <2>2, SilentSteps DEF NoChild, Unreaped, GivenUp
  <1> QED
    BY <1>5, <1>6, <1>7 DEF ExitEvent

\* What remains touches no status and no child.
LEMMA OtherSupervised ==
    ASSUME SupervisedInv, FaultFree,
           \/ \E c \in Calls : \/ Release(c) \/ TermTimeout(c) \/ KillTimeout(c)
                               \/ \E p \in Procs : CleanupStop(c, p)
           \/ \E c \in Calls, p \in Procs :
                \/ \E kind \in Requests \ {"cleanup"} : Request(c, kind, p)
                \/ TimerFires(c, p)
                \/ MemoryLimitExceeded(c, p)
           \/ \E p \in Procs :
                Configure(p) \/ WindowExpires(p) \/ SampleMemory(p) \/ MemoryAccepted(p)
           \/ CleanupBegin \/ CleanupCleared \/ CleanupDisposed
           \/ UNCHANGED vars
    PROVE  SupervisedStep
  <1>0. TypeOK /\ OwnedInv /\ manager.phase = "running"
    BY DEF SupervisedInv, OwnedInv, LockedInv
  <1>1. ~CleanupBegin /\ ~CleanupCleared /\ ~CleanupDisposed
    BY <1>0 DEF CleanupBegin, CleanupCleared, CleanupDisposed, StopsDone, FaultFree
  <1>2. \A c \in Calls : ~KillTimeout(c)
    BY DEF KillTimeout, FaultFree
  <1>3. kid' = kid
    BY <1>1, <1>2
       DEF Release, TermTimeout, CleanupStop, Request, TimerFires, MemoryLimitExceeded,
           Configure, WindowExpires, SampleMemory, MemoryAccepted, vars
  <1>4. \A q \in Procs : info'[q].status = info[q].status
    <2>1. CASE UNCHANGED info
      BY <2>1
    <2>2. ASSUME NEW p \in Procs, WindowExpires(p)
          PROVE  \A q \in Procs : info'[q].status = info[q].status
      BY <1>0, <2>2 DEF WindowExpires, TypeOK, Info
    <2>3. ASSUME NEW p \in Procs, Configure(p)
          PROVE  \A q \in Procs : info'[q].status = info[q].status
      <3>1. info[p].status = "stopped"
        BY <1>0, <2>3 DEF Configure, OwnedInv, ChildrenInv, UnknownIsDown, InService
      <3>2. info'[p].status = "stopped" /\ \A q \in Procs \ {p} : info'[q] = info[q]
        BY <1>0, <2>3 DEF Configure, NewInfo, TypeOK
      <3> QED
        BY <3>1, <3>2
    <2> QED
      BY <1>1, <1>2, <2>1, <2>2, <2>3
         DEF Release, TermTimeout, CleanupStop, Request, TimerFires, MemoryLimitExceeded,
             SampleMemory, MemoryAccepted, vars, FaultFree
  <1>5. \A d \in Calls : AwaitsExit(d)' => AwaitsExit(d) /\ call'[d].name = call[d].name
    <2>1. CASE UNCHANGED call
      BY <2>1 DEF AwaitsExit
    <2>2. ASSUME NEW c \in Calls, NEW kind, NEW p, Begin(c, kind, p)
          PROVE  \A d \in Calls : AwaitsExit(d)' => AwaitsExit(d) /\ call'[d].name = call[d].name
      BY <1>0, <2>2 DEF Begin, AwaitsExit, TypeOK
    <2>3. ASSUME NEW c \in Calls, TermTimeout(c)
          PROVE  \A d \in Calls : AwaitsExit(d)' => AwaitsExit(d) /\ call'[d].name = call[d].name
      BY <1>0, <2>3 DEF TermTimeout, Suspend, AwaitsExit, TypeOK, Call
    <2>4. ASSUME NEW c \in Calls, Release(c), NEW d \in Calls, AwaitsExit(d)'
          PROVE  AwaitsExit(d) /\ call'[d].name = call[d].name
      <3>1. d # c
        BY <2>4 DEF Release, IdleCall, AwaitsExit
      <3>2. d \notin Lock!Resumed(mutexes[call[c].name])
        BY <1>0, <2>4, <3>1 DEF Release, AwaitsExit, TypeOK, Call
      <3> QED
        BY <2>4, <3>1, <3>2 DEF Release, AwaitsExit
    <2> QED
      BY <1>1, <1>2, <2>1, <2>2, <2>3, <2>4
         DEF CleanupStop, Request, TimerFires, MemoryLimitExceeded, Configure,
             WindowExpires, SampleMemory, MemoryAccepted, vars
  <1> QED
    BY <1>3, <1>4, <1>5, SilentSteps DEF Unreaped, GivenUp

\* Every step of the manager is one of the abstract specification.
LEMMA NextSupervised ==
    ASSUME FaultFree, SupervisedInv, [Next]_vars
    PROVE  SupervisedInv' /\ [Supervise!Next]_(Supervise!vars)
  <1>1. OwnedInv'
    BY NextOwned DEF SupervisedInv
  <1>2. manager'.phase = "running"
    <2>1. manager.phase = "running" /\ manager \in Manager
      BY DEF SupervisedInv, OwnedInv, LockedInv, TypeOK
    <2>2. ~CleanupBegin /\ ~CleanupCleared /\ ~CleanupDisposed
      BY <2>1 DEF CleanupBegin, CleanupCleared, CleanupDisposed, StopsDone, FaultFree
    <2>3. \A c \in Calls : Release(c) \/ (\E p \in Procs : CleanupStop(c, p))
             => manager'.phase = "running"
      BY <2>1 DEF Release, CleanupStop, Manager
    <2> QED
      BY <2>1, <2>2, <2>3
         DEF Next, vars, Microtask, OwnTimer, Run, PauseOver, SpawnEvent, SpawnErrorEvent,
             TermTimeout, KillTimeout, Request, TimerFires, MemoryLimitExceeded, ExitEvent,
             Ends, Configure, WindowExpires, SampleMemory, MemoryAccepted
  <1>3. SupervisedStep
    <2>1. ASSUME NEW c \in Calls, Run(c) \/ PauseOver(c)
          PROVE  SupervisedStep
      BY <2>1, StartSupervised, StopSupervised, SignalSupervised DEF Run, PauseOver
    <2> QED
      BY <2>1, SpawnSupervised, EndSupervised, ExitSupervised, OtherSupervised
         DEF Next, Microtask, OwnTimer
  <1> QED
    BY <1>1, <1>2, <1>3 DEF SupervisedInv, SupervisedStep

\* Without faults of the system, what the manager shows of its processes is a
\* truthful account of their children: a child is started only where none
\* lives, and a process is down only when its child is gone.
THEOREM SupervisesTruthfully ==
    ASSUME FaultFree
    PROVE  SafeSpec => Supervise!SafeSpec
  <1>1. Init => SupervisedInv /\ Supervise!Init
    <2>1. SUFFICES ASSUME Init PROVE SupervisedInv /\ Supervise!Init
      OBVIOUS
    <2>2. OwnedInv
      BY <2>1, InitOwned
    <2>3. \A k \in Kids : kid[k].os = "none"
      BY <2>1 DEF Init, NoChild
    <2>4. \A c \in Calls : ~AwaitsExit(c)
      BY <2>1 DEF Init, IdleCall, AwaitsExit
    <2>5. Supervise!Init
      <3>1. \A p \in Procs : info[p].status = "stopped" /\ Alive(p) = {}
        BY <2>1, <2>3 DEF Init, NewInfo, Alive
      <3> QED
        BY <3>1 DEF Supervise!Init
    <2> QED
      BY <2>1, <2>2, <2>3, <2>4, <2>5
         DEF SupervisedInv, NeverGivesUp, StopsShow, Unreaped, Init
  <1>2. SupervisedInv /\ [Next]_vars
          => SupervisedInv' /\ [Supervise!Next]_(Supervise!vars)
    BY NextSupervised
  <1> QED
    BY <1>1, <1>2, PTL DEF SafeSpec, Supervise!SafeSpec

\* Without faults and clean-up a child runs only while its process shows it: what
\* the documentation says of the states.
THEOREM FaultlessLivingIsShown ==
    ASSUME FaultFree
    PROVE  SafeSpec => []LivingIsShown
  <1>1. SupervisedInv => LivingIsShown
    <2> SUFFICES ASSUME SupervisedInv, NEW p \in Procs, NEW k \in Alive(p)
                 PROVE  /\ p \in processes
                        /\ info[p].status \in {"starting", "online", "stopping"}
      BY DEF LivingIsShown
    <2>1. InService /\ NoDeniedSignal /\ k \in Kids /\ Unreaped(k) /\ kid[k].name = p
      BY DEF SupervisedInv, InService, FaultFree, NoDeniedSignal, Alive, Unreaped
    <2>2. p \in processes
      BY <2>1 DEF SupervisedInv, OwnedInv, ChildrenInv, UnknownIsDown, Unreaped
    <2>3. CASE kid[k].onExit \in Stopping(p)
      BY <2>2, <2>3 DEF SupervisedInv, StopsShow, Stopping, AwaitsExit
    <2> QED
      BY <2>1, <2>2, <2>3, KnownChild DEF SupervisedInv, NeverGivesUp
  <1>2. Init => SupervisedInv
    BY InitOwned
       DEF Init, NoChild, IdleCall, SupervisedInv, NeverGivesUp, StopsShow, Unreaped,
           AwaitsExit
  <1>3. SupervisedInv /\ [Next]_vars => SupervisedInv'
    BY NextSupervised
  <1> QED
    BY <1>1, <1>2, <1>3, PTL DEF SafeSpec
=============================================================================
