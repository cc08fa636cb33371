------------------------- MODULE TaskManagerProofs -------------------------
(***************************************************************************)
(* Proofs about TaskManager, for any number of tasks and requests and any  *)
(* limit of the output: types, no missed wake-up, no early answer, no      *)
(* silent loss of output, and living children in the map.                  *)
(***************************************************************************)
EXTENDS TaskManager, SequenceTheorems, TLAPS

\* The buffer holds all that was ever put in, or it is full.
Buffered(m) == m.pushed = Len(m.output) \/ Len(m.output) >= MaxOutputLines

-----------------------------------------------------------------------------
(***************************************************************************)
(* Output.                                                                 *)
(***************************************************************************)

\* How many of `total' lines are dropped when there were `size' of them before.
LEMMA DropArithmetic ==
    ASSUME NEW size \in Nat, NEW total \in Nat, NEW limit \in Nat, size <= total,
           NEW kept, kept = IF size > limit THEN size ELSE limit,
           NEW drop, drop = IF total > kept THEN total - kept ELSE 0
    PROVE  /\ drop \in Nat /\ drop <= total
           /\ size >= limit => total - drop >= limit
           /\ drop = 0 \/ total - drop >= limit
<1>1. CASE size > limit
    BY <1>1
<1>2. CASE ~(size > limit)
    BY <1>2
<1> QED
    BY <1>1, <1>2

LEMMA AfterReadProperties ==
    ASSUME NEW m \in Task, NEW chunk \in Seq(Lines)
    PROVE  /\ AfterRead(m, chunk) \in Task
           /\ AfterRead(m, chunk).status = m.status
           /\ Buffered(m) => Buffered(AfterRead(m, chunk))
<1> DEFINE all == m.output \o chunk
           size == Len(m.output)
           kept == IF size > MaxOutputLines THEN size ELSE MaxOutputLines
           drop == IF Len(all) > kept THEN Len(all) - kept ELSE 0
           out == SubSeq(all, drop + 1, Len(all))
<1>1. all \in Seq(Lines) /\ Len(all) = size + Len(chunk) /\ size \in Nat /\ Len(chunk) \in Nat
    BY ConcatProperties, LenProperties DEF Task
<1>2. /\ drop \in Nat /\ drop <= Len(all)
      /\ size >= MaxOutputLines => Len(all) - drop >= MaxOutputLines
      /\ drop = 0 \/ Len(all) - drop >= MaxOutputLines
    <2> HIDE DEF all, size
    <2>1. size <= Len(all) /\ Len(all) \in Nat /\ MaxOutputLines \in Nat
        BY <1>1, TaskAssumption
    <2> HIDE DEF kept, drop
    <2>2. kept = (IF size > MaxOutputLines THEN size ELSE MaxOutputLines)
        BY DEF kept
    <2>3. drop = (IF Len(all) > kept THEN Len(all) - kept ELSE 0)
        BY DEF drop
    <2> QED
        BY <1>1, <2>1, <2>2, <2>3, DropArithmetic
<1>3. out \in Seq(Lines) /\ Len(out) = Len(all) - drop
    <2> HIDE DEF all, drop
    <2>1. \A i \in drop + 1 .. Len(all) : all[i] \in Lines
        BY <1>1, <1>2, ElementOfSeq
    <2> QED
        BY <1>1, <1>2, <2>1, SubSeqProperties
<1>4. AfterRead(m, chunk) = [status |-> m.status, process |-> m.process, age |-> m.age,
                             output |-> out, pushed |-> m.pushed + Len(chunk)]
    BY DEF AfterRead
<1>5. AfterRead(m, chunk) \in Task
    <2> HIDE DEF out
    <2> QED
        BY <1>1, <1>3, <1>4 DEF Task
<1>6. ASSUME Buffered(m) PROVE Buffered(AfterRead(m, chunk))
    <2>1. m.pushed + Len(chunk) = Len(out) \/ Len(out) >= MaxOutputLines
        <3>1. m.pushed \in Nat /\ (m.pushed = size \/ size >= MaxOutputLines)
            BY <1>6 DEF Buffered, Task
        <3> HIDE DEF out, all, size, drop
        <3> QED
            BY <1>1, <1>2, <1>3, <3>1
    <2> HIDE DEF out
    <2> QED
        BY <1>4, <2>1 DEF Buffered
<1> HIDE DEF out
<1> QED
    BY <1>4, <1>5, <1>6

LEMMA AfterErrorProperties ==
    ASSUME NEW m \in Task
    PROVE  /\ AfterError(m) \in Task
           /\ AfterError(m).status = "errored"
           /\ Buffered(m) => Buffered(AfterError(m))
<1>1. "plain" \in Lines
    BY DEF Lines
<1>2. /\ Append(m.output, "plain") \in Seq(Lines)
      /\ Len(Append(m.output, "plain")) = Len(m.output) + 1
      /\ Len(m.output) \in Nat
    BY <1>1, AppendProperties, LenProperties DEF Task
<1> QED
    BY <1>2, TaskAssumption DEF AfterError, Task, Statuses, Ages, Buffered

LEMMA AfterExitProperties ==
    ASSUME NEW m \in Task, NEW c \in Child
    PROVE  /\ AfterExit(m, c.ending) \in Task
           /\ AfterExit(m, c.ending).status # "running"
           /\ Buffered(m) => Buffered(AfterExit(m, c.ending))
BY DEF AfterExit, Ending, Task, Child, Statuses, Ages, Buffered

\* An answer says whether the buffer is full, and how many lines it holds.
LEMMA ReplyProperties ==
    ASSUME NEW m \in Task, NEW c \in Conditions, NEW timedOut \in BOOLEAN
    PROVE  /\ LogResponse(m, c, timedOut) \in Reply
           /\ LogResponse(m, c, timedOut).status = m.status
           /\ LogResponse(m, c, timedOut).lines = Len(m.output)
           /\ LogResponse(m, c, timedOut).timedOut = timedOut
           /\ LogResponse(m, c, timedOut).truncated <=> Len(m.output) >= MaxOutputLines
           /\ LogResponse(m, c, timedOut).matched <=> c.match /\ HasMatch(m.output)
<1> DEFINE matched == c.match /\ HasMatch(m.output)
           truncated == Len(m.output) >= MaxOutputLines
<1>1. matched \in BOOLEAN /\ truncated \in BOOLEAN
    OBVIOUS
<1>2. Len(m.output) \in Nat
    BY LenProperties DEF Task
<1>3. LogResponse(m, c, timedOut) =
        [timedOut |-> timedOut, status |-> m.status, matched |-> matched,
         truncated |-> truncated, lines |-> Len(m.output)]
    BY DEF LogResponse
<1> HIDE DEF matched, truncated
<1>4. m.status \in Statuses \cup {"unknown"}
    BY DEF Task
<1>5. LogResponse(m, c, timedOut) \in Reply
    BY <1>1, <1>2, <1>3, <1>4 DEF Reply
<1>6. /\ LogResponse(m, c, timedOut).matched = matched
      /\ LogResponse(m, c, timedOut).truncated = truncated
    BY <1>3
<1>7. /\ LogResponse(m, c, timedOut).status = m.status
      /\ LogResponse(m, c, timedOut).lines = Len(m.output)
      /\ LogResponse(m, c, timedOut).timedOut = timedOut
    BY <1>3
<1> QED
    BY <1>5, <1>6, <1>7 DEF matched, truncated

-----------------------------------------------------------------------------
(***************************************************************************)
(* Types, and what goes with them.                                         *)
(***************************************************************************)

WaitsHaveTask == \A w \in Waits : wait[w].at # "idle" => wait[w].task \in Tasks

AllBuffered == \A t \in Tasks : Buffered(task[t])

Typed == TypeOK /\ WaitsHaveTask /\ AllBuffered

\* The waits that are answered get a reply built from their tasks.
LEMMA AnswerProperties ==
    ASSUME TypeOK, WaitsHaveTask, NEW tasks \in [Tasks -> Task],
           NEW who \in SUBSET Waits, \A w \in who : wait[w].task \in Tasks,
           Answer(who, tasks)
    PROVE  /\ wait' \in [Waits -> Wait]
           /\ WaitsHaveTask'
           /\ \A w \in who : /\ wait'[w] = Done(w, tasks[wait[w].task], FALSE)
                             /\ wait'[w].at = "answered"
           /\ \A w \in Waits \ who : wait'[w] = wait[w]
<1>1. ASSUME NEW w \in who
      PROVE  /\ Done(w, tasks[wait[w].task], FALSE) \in Wait
             /\ Done(w, tasks[wait[w].task], FALSE).at = "answered"
             /\ Done(w, tasks[wait[w].task], FALSE).task = wait[w].task
    <2>1. LogResponse(tasks[wait[w].task], wait[w].cond, FALSE) \in Reply
        BY ReplyProperties DEF TypeOK, Wait
    <2> HIDE DEF LogResponse
    <2> QED
        BY <2>1 DEF Done, TypeOK, Wait
<1> QED
    BY <1>1 DEF Answer, TypeOK, WaitsHaveTask

LEMMA InitTyped == Init => Typed
<1> SUFFICES ASSUME Init PROVE Typed
    OBVIOUS
<1>1. <<>> \in Seq(Lines) /\ Len(<<>>) = 0
    BY EmptySeq
<1>2. NewTask(FALSE) \in Task /\ Buffered(NewTask(FALSE))
    BY <1>1 DEF NewTask, Task, Statuses, Ages, Buffered
<1>3. NewChild("none") \in Child
    BY <1>1 DEF NewChild, Child
<1>4. IdleWait \in Wait /\ IdleWait.at = "idle"
    BY DEF IdleWait, Wait, UntilEnd, Conditions, Unknown, Reply
<1> QED
    BY <1>2, <1>3, <1>4 DEF Init, Typed, TypeOK, WaitsHaveTask, AllBuffered

LEMMA PipeTyped ==
    ASSUME NEW pipe \in Seq(Lines), NEW n \in 0..Len(pipe), NEW cut \in BOOLEAN
    PROVE  Chunk(pipe, n, cut) \in Seq(Lines) /\ Rest(pipe, n, cut) \in Seq(Lines)
<1> DEFINE from == IF cut THEN n + 2 ELSE n + 1
<1>1. Half(cut) \in Seq(Lines)
    <2>1. <<>> \in Seq(Lines) /\ "plain" \in Lines
        BY EmptySeq DEF Lines
    <2>2. Append(<<>>, "plain") \in Seq(Lines)
        BY <2>1, AppendProperties
    <2>3. <<"plain">> = Append(<<>>, "plain")
        OBVIOUS
    <2> QED
        BY <2>1, <2>2, <2>3 DEF Half
<1>2. Len(pipe) \in Nat /\ n \in Nat /\ n <= Len(pipe)
    <2>1. Len(pipe) \in Nat
        BY LenProperties
    <2> QED
        BY <2>1
<1>3. from \in {n + 1, n + 2}
    OBVIOUS
<1> HIDE DEF from
<1>4. from \in Int /\ from >= 1
    BY <1>2, <1>3
<1>5. /\ \A i \in 1..n : pipe[i] \in Lines
      /\ \A i \in from..Len(pipe) : pipe[i] \in Lines
    BY <1>2, <1>4, ElementOfSeq
<1>6. SubSeq(pipe, 1, n) \in Seq(Lines) /\ SubSeq(pipe, from, Len(pipe)) \in Seq(Lines)
    BY <1>2, <1>4, <1>5, SubSeqProperties
<1> QED
    BY <1>1, <1>6, ConcatProperties DEF Chunk, Rest, from

\* What the actions of the children and of runTask preserve.
LEMMA TaskStepTyped ==
    ASSUME Typed, NEW t \in Tasks,
           \/ RunTask(t) \/ Read(t) \/ ExitEvent(t) \/ ErrorEvent(t)
           \/ KillDenied(t) \/ Expire(t)
           \/ \E line \in Lines : Write(t, line)
           \/ \E ending \in {"code0", "failure", "signal"} : Ends(t, ending)
    PROVE  Typed'
<1>0. /\ TypeOK /\ WaitsHaveTask /\ AllBuffered
      /\ task[t] \in Task /\ child[t] \in Child /\ Buffered(task[t])
      /\ \A w \in Listeners(t) : w \in Waits /\ wait[w].task = t
    BY DEF Typed, TypeOK, AllBuffered, Listeners
<1>1. CASE RunTask(t)
    <2>1. PICK state \in {"none", "unspawned", "alive"} :
              /\ task' = [task EXCEPT ![t] = NewTask(state # "none")]
              /\ child' = [child EXCEPT ![t] = NewChild(state)]
        BY <1>1 DEF RunTask
    <2>2. <<>> \in Seq(Lines) /\ Len(<<>>) = 0
        BY EmptySeq
    <2>3. NewTask(state # "none") \in Task /\ Buffered(NewTask(state # "none"))
        BY <2>2 DEF NewTask, Task, Statuses, Ages, Buffered
    <2>4. NewChild(state) \in Child
        BY <2>2 DEF NewChild, Child
    <2> QED
        BY <1>0, <1>1, <2>1, <2>3, <2>4
           DEF RunTask, Typed, TypeOK, WaitsHaveTask, AllBuffered
<1>2. CASE Read(t)
    <2>1. PICK n \in 0..Len(child[t].pipe), cut \in BOOLEAN :
            LET m == AfterRead(task[t], Chunk(child[t].pipe, n, cut))
                served == {w \in Listeners(t) : Met(m, wait[w].cond)}
            IN  /\ child' = [child EXCEPT ![t].pipe = Rest(child[t].pipe, n, cut)]
                /\ task' = [task EXCEPT ![t] = m]
                /\ Answer(served, task')
                /\ listening' = listening \ served
                /\ UNCHANGED <<listed, cleanupTimer>>
        BY <1>2 DEF Read
    <2> DEFINE m == AfterRead(task[t], Chunk(child[t].pipe, n, cut))
               served == {w \in Listeners(t) : Met(m, wait[w].cond)}
    <2>2. /\ Chunk(child[t].pipe, n, cut) \in Seq(Lines)
          /\ Rest(child[t].pipe, n, cut) \in Seq(Lines)
        BY <1>0, PipeTyped DEF Child
    <2>3. m \in Task /\ Buffered(m)
        BY <1>0, <2>2, AfterReadProperties
    <2>4. /\ served \in SUBSET Waits /\ \A w \in served : wait[w].task \in Tasks
          /\ Answer(served, task') /\ task' = [task EXCEPT ![t] = m]
        BY <1>0, <2>1
    <2> HIDE DEF m, served
    <2>5. task' \in [Tasks -> Task] /\ AllBuffered'
        BY <1>0, <2>3, <2>4 DEF TypeOK, AllBuffered
    <2>6. wait' \in [Waits -> Wait] /\ WaitsHaveTask'
        BY <1>0, <2>4, <2>5, AnswerProperties
    <2>7. child' \in [Tasks -> Child]
        BY <1>0, <2>1, <2>2 DEF TypeOK, Child
    <2>8. listed' \subseteq Tasks /\ listening' \subseteq Waits /\ cleanupTimer' \in BOOLEAN
        BY <1>0, <2>1 DEF TypeOK
    <2> QED
        BY <2>5, <2>6, <2>7, <2>8 DEF Typed, TypeOK
<1>3. CASE ExitEvent(t)
    <2>1. task' \in [Tasks -> Task] /\ AllBuffered'
        BY <1>0, <1>3, AfterExitProperties DEF ExitEvent, TypeOK, AllBuffered
    <2>2. wait' \in [Waits -> Wait] /\ WaitsHaveTask'
        BY <1>0, <1>3, <2>1, AnswerProperties DEF ExitEvent
    <2> QED
        BY <1>0, <1>3, <2>1, <2>2 DEF ExitEvent, Typed, TypeOK, Child
<1>4. CASE ErrorEvent(t)
    <2>1. task' \in [Tasks -> Task] /\ AllBuffered'
        BY <1>0, <1>4, AfterErrorProperties DEF ErrorEvent, TypeOK, AllBuffered
    <2>2. wait' \in [Waits -> Wait] /\ WaitsHaveTask'
        BY <1>0, <1>4, <2>1, AnswerProperties DEF ErrorEvent
    <2> QED
        BY <1>0, <1>4, <2>1, <2>2 DEF ErrorEvent, Typed, TypeOK, Child
<1>5. CASE KillDenied(t)
    <2>1. task' \in [Tasks -> Task] /\ AllBuffered'
        BY <1>0, <1>5, AfterErrorProperties DEF KillDenied, TypeOK, AllBuffered
    <2>2. wait' \in [Waits -> Wait] /\ WaitsHaveTask'
        BY <1>0, <1>5, <2>1, AnswerProperties DEF KillDenied
    <2> QED
        BY <1>0, <1>5, <2>1, <2>2 DEF KillDenied, Typed, TypeOK
<1>6. CASE Expire(t)
    BY <1>0, <1>6
       DEF Expire, Typed, TypeOK, WaitsHaveTask, AllBuffered, Task, Ages, Buffered
<1>7. ASSUME NEW line \in Lines, Write(t, line) PROVE Typed'
    <2>1. Append(child[t].pipe, line) \in Seq(Lines)
        BY <1>0, AppendProperties DEF Child
    <2> QED
        BY <1>0, <1>7, <2>1 DEF Write, Typed, TypeOK, WaitsHaveTask, AllBuffered, Child
<1>8. ASSUME NEW ending \in {"code0", "failure", "signal"}, Ends(t, ending) PROVE Typed'
    BY <1>0, <1>8 DEF Ends, Typed, TypeOK, WaitsHaveTask, AllBuffered, Child
<1> QED
    BY <1>1, <1>2, <1>3, <1>4, <1>5, <1>6, <1>7, <1>8

\* The actions of getTaskLog.
LEMMA RequestStepTyped ==
    ASSUME Typed, NEW w \in Waits,
           \/ \E t \in Tasks : Query(w, t) \/ \E c \in Conditions : GetLog(w, t, c)
           \/ Timeout(w) \/ Collect(w)
    PROVE  Typed'
<1>0. TypeOK /\ WaitsHaveTask /\ AllBuffered /\ wait[w] \in Wait
    BY DEF Typed, TypeOK
<1>1. Unknown \in Reply /\ UntilEnd \in Conditions
    BY DEF Unknown, Reply, UntilEnd, Conditions
<1>2. ASSUME NEW t \in Tasks, Query(w, t) PROVE Typed'
    <2> DEFINE reply == IF t \in listed THEN LogResponse(task[t], UntilEnd, FALSE) ELSE Unknown
    <2>1. reply \in Reply
        BY <1>0, <1>1, ReplyProperties DEF TypeOK
    <2> DEFINE new == [at |-> "answered", task |-> t, cond |-> UntilEnd, now |-> TRUE,
                       reply |-> reply]
    <2>2. wait' = [wait EXCEPT ![w] = new]
        BY <1>2 DEF Query
    <2> HIDE DEF reply
    <2>3. new \in Wait /\ new.task = t
        BY <1>1, <2>1 DEF Wait
    <2> HIDE DEF new
    <2>4. wait' \in [Waits -> Wait] /\ WaitsHaveTask'
        BY <1>0, <2>2, <2>3 DEF TypeOK, WaitsHaveTask
    <2> QED
        BY <1>0, <1>2, <2>4 DEF Query, Typed, TypeOK, AllBuffered
<1>3. ASSUME NEW t \in Tasks, NEW c \in Conditions, GetLog(w, t, c) PROVE Typed'
    <2> DEFINE met == task[t].status # "running" \/ Met(task[t], c)
               new == [at |-> IF met THEN "answered" ELSE "waiting", task |-> t, cond |-> c,
                       now |-> FALSE,
                       reply |-> IF met THEN LogResponse(task[t], c, FALSE) ELSE Unknown]
    <2>1. LogResponse(task[t], c, FALSE) \in Reply
        BY <1>0, ReplyProperties DEF TypeOK
    <2>2. wait' = [wait EXCEPT ![w] = new] /\ listening' \in {listening, listening \cup {w}}
        BY <1>3 DEF GetLog
    <2>3. new \in Wait /\ new.task = t
        <3> HIDE DEF met, LogResponse
        <3> QED
            BY <1>1, <2>1 DEF Wait
    <2> HIDE DEF new
    <2>4. wait' \in [Waits -> Wait] /\ WaitsHaveTask'
        BY <1>0, <2>2, <2>3 DEF TypeOK, WaitsHaveTask
    <2> QED
        BY <1>0, <1>3, <2>2, <2>4 DEF GetLog, Typed, TypeOK, AllBuffered
<1>4. CASE Timeout(w)
    <2>1. Done(w, task[wait[w].task], TRUE) \in Wait
        <3>1. LogResponse(task[wait[w].task], wait[w].cond, TRUE) \in Reply
            BY <1>0, <1>4, ReplyProperties DEF Timeout, TypeOK, WaitsHaveTask, Wait
        <3> HIDE DEF LogResponse
        <3> QED
            BY <1>0, <1>4, <3>1 DEF Done, Timeout, WaitsHaveTask, Wait
    <2> QED
        BY <1>0, <1>4, <2>1 DEF Timeout, Typed, TypeOK, WaitsHaveTask, AllBuffered, Done
<1>5. CASE Collect(w)
    BY <1>0, <1>1, <1>5
       DEF Collect, Typed, TypeOK, WaitsHaveTask, AllBuffered, IdleWait, Wait
<1> QED
    BY <1>2, <1>3, <1>4, <1>5

LEMMA DisposeTyped == ASSUME Typed, Dispose PROVE Typed'
<1>0. TypeOK /\ WaitsHaveTask /\ AllBuffered
    BY DEF Typed
<1>1. PICK denied \in SUBSET {t \in listed : Deniable(t)} :
          LET served == {w \in listening : wait[w].task \in denied} IN
          /\ task' = [t \in Tasks |-> IF t \in denied THEN AfterError(task[t]) ELSE task[t]]
          /\ Answer(served, task')
    BY DEF Dispose
<1>2. task' \in [Tasks -> Task] /\ AllBuffered'
    BY <1>0, <1>1, AfterErrorProperties DEF TypeOK, AllBuffered
<1>3. wait' \in [Waits -> Wait] /\ WaitsHaveTask'
    BY <1>0, <1>1, <1>2, AnswerProperties DEF TypeOK
<1> QED
    BY <1>0, <1>2, <1>3 DEF Dispose, Typed, TypeOK

LEMMA NextTyped == Typed /\ [Next]_vars => Typed'
<1> SUFFICES ASSUME Typed, [Next]_vars PROVE Typed'
    OBVIOUS
<1>1. CASE UNCHANGED vars
    BY <1>1 DEF vars, Typed, TypeOK, WaitsHaveTask, AllBuffered, Buffered
<1>2. ASSUME NEW t \in Tasks, NEW w \in Waits,
             Query(w, t) \/ \E c \in Conditions : GetLog(w, t, c)
      PROVE  Typed'
    BY <1>2, RequestStepTyped
<1>3. ASSUME NEW w \in Waits, Timeout(w) \/ Collect(w) PROVE Typed'
    BY <1>3, RequestStepTyped
<1>4. CASE CleanupCompletedTasks
    BY <1>4 DEF CleanupCompletedTasks, Typed, TypeOK, WaitsHaveTask, AllBuffered, Buffered
<1>5. CASE Dispose
    BY <1>5, DisposeTyped
<1> QED
    BY <1>1, <1>2, <1>3, <1>4, <1>5, TaskStepTyped DEF Next

\* Every variable keeps its type: the output of a task stays a sequence of
\* lines, and whoever waits, waits for a task.
THEOREM TypeCorrect == SafeSpec => []TypeOK
<1>1. SafeSpec => []Typed
    BY InitTyped, NextTyped, PTL DEF SafeSpec
<1>2. Typed => TypeOK
    BY DEF Typed
<1> QED
    BY <1>1, <1>2, PTL

-----------------------------------------------------------------------------
(***************************************************************************)
(* Safety.                                                                 *)
(***************************************************************************)

\* A living child's task is running, or a denied signal marked it as errored.
AliveRuns ==
    \A t \in Tasks : child[t].state = "alive" => task[t].status \in {"running", "errored"}

IInv == Typed /\ NoMissedWakeup /\ AnswersAreEarned /\ AliveRuns /\ LivingChildIsListed

\* An answer is earned when its task has ended or its condition is met.
LEMMA DoneIsEarned ==
    ASSUME TypeOK, NEW w \in Waits, NEW m \in Task,
           m.status # "running" \/ Met(m, wait[w].cond)
    PROVE  LET a == Done(w, m, FALSE) IN
           a.reply.status = "running" =>
              \/ a.cond.lines > 0 /\ a.reply.lines >= a.cond.lines
              \/ a.cond.match /\ a.reply.matched
<1>1. LET r == LogResponse(m, wait[w].cond, FALSE) IN
      /\ r.status = m.status /\ r.lines = Len(m.output)
      /\ r.matched <=> wait[w].cond.match /\ HasMatch(m.output)
    BY ReplyProperties DEF TypeOK, Wait
<1>2. /\ Done(w, m, FALSE).cond = wait[w].cond
      /\ Done(w, m, FALSE).reply = LogResponse(m, wait[w].cond, FALSE)
    BY DEF Done
<1> HIDE DEF LogResponse, Done
<1> QED
    BY <1>1, <1>2 DEF Met

\* Answering waits whose task has ended or whose condition is met.
LEMMA AnswerEarned ==
    ASSUME TypeOK, WaitsHaveTask, AnswersAreEarned, NEW tasks \in [Tasks -> Task],
           NEW who \in SUBSET Waits, \A w \in who : wait[w].task \in Tasks,
           Answer(who, tasks),
           \A w \in who : LET m == tasks[wait[w].task] IN
               m.status # "running" \/ Met(m, wait[w].cond)
    PROVE  AnswersAreEarned'
<1> SUFFICES ASSUME NEW w \in Waits,
                    wait'[w].at = "answered", ~wait'[w].now,
                    ~wait'[w].reply.timedOut, wait'[w].reply.status = "running"
             PROVE  \/ wait'[w].cond.lines > 0 /\ wait'[w].reply.lines >= wait'[w].cond.lines
                    \/ wait'[w].cond.match /\ wait'[w].reply.matched
    BY DEF AnswersAreEarned
<1>1. CASE w \in who
    <2>1. wait'[w] = Done(w, tasks[wait[w].task], FALSE)
        BY <1>1, AnswerProperties
    <2> QED
        BY <1>1, <2>1, DoneIsEarned
<1>2. CASE w \notin who
    <2>1. wait'[w] = wait[w]
        BY <1>2, AnswerProperties
    <2> QED
        BY <2>1 DEF AnswersAreEarned
<1> QED
    BY <1>1, <1>2

\* Events of task t wake every wait on it that can no longer stay.
LEMMA AnswerWakes ==
    ASSUME TypeOK, WaitsHaveTask, NoMissedWakeup, task' \in [Tasks -> Task],
           NEW who \in SUBSET Waits, \A w \in who : wait[w].task \in Tasks,
           Answer(who, task'), listening' = listening \ who,
           UNCHANGED <<listed, cleanupTimer>>,
           NEW t \in Tasks, \A r \in Tasks \ {t} : task'[r] = task[r],
           \A w \in Listeners(t) \ who : wait[w].at = "waiting" =>
               task'[t].status = "running" /\ ~Met(task'[t], wait[w].cond)
    PROVE  NoMissedWakeup'
<1> SUFFICES ASSUME NEW w \in Waits, wait'[w].at = "waiting"
             PROVE  LET r == wait'[w].task IN
                    IF r \in listed
                    THEN /\ w \in listening'
                         /\ task'[r].status = "running"
                         /\ ~Met(task'[r], wait'[w].cond)
                    ELSE ~cleanupTimer /\ w \notin listening'
    BY DEF NoMissedWakeup
<1>1. w \notin who /\ wait'[w] = wait[w]
    BY AnswerProperties
<1>2. wait[w].task \in Tasks /\ wait[w].at = "waiting"
    BY <1>1 DEF WaitsHaveTask
<1>3. CASE wait[w].task = t
    BY <1>1, <1>2, <1>3 DEF NoMissedWakeup, Listeners
<1>4. CASE wait[w].task # t
    BY <1>1, <1>2, <1>4 DEF NoMissedWakeup
<1> QED
    BY <1>3, <1>4

\* What the events that answer waits change.
LEMMA EventInv ==
    ASSUME IInv, NEW t \in Tasks, Read(t) \/ ExitEvent(t) \/ ErrorEvent(t) \/ KillDenied(t)
    PROVE  NoMissedWakeup' /\ AnswersAreEarned'
<1>0. /\ Typed /\ Typed' /\ TypeOK /\ TypeOK' /\ WaitsHaveTask
      /\ NoMissedWakeup /\ AnswersAreEarned /\ task' \in [Tasks -> Task]
      /\ task[t] \in Task /\ child[t] \in Child
      /\ Listeners(t) \in SUBSET Waits /\ \A w \in Listeners(t) : wait[w].task = t
    BY TaskStepTyped DEF IInv, Typed, TypeOK, Listeners
<1>1. CASE Read(t)
    <2>1. PICK n \in 0..Len(child[t].pipe), cut \in BOOLEAN :
            LET m == AfterRead(task[t], Chunk(child[t].pipe, n, cut))
                served == {w \in Listeners(t) : Met(m, wait[w].cond)}
            IN  /\ task' = [task EXCEPT ![t] = m]
                /\ Answer(served, task')
                /\ listening' = listening \ served
                /\ UNCHANGED <<listed, cleanupTimer>>
        BY <1>1 DEF Read
    <2> DEFINE m == AfterRead(task[t], Chunk(child[t].pipe, n, cut))
               served == {w \in Listeners(t) : Met(m, wait[w].cond)}
    <2>2. m.status = task[t].status
        BY <1>0, PipeTyped, AfterReadProperties DEF Child
    <2>3. /\ served \in SUBSET Waits /\ \A w \in served : wait[w].task = t
          /\ \A w \in served : Met(m, wait[w].cond)
          /\ \A w \in Listeners(t) \ served : ~Met(m, wait[w].cond)
          /\ task' = [task EXCEPT ![t] = m] /\ Answer(served, task')
          /\ listening' = listening \ served /\ UNCHANGED <<listed, cleanupTimer>>
        BY <1>0, <2>1
    <2> HIDE DEF m, served
    <2>4. task'[t] = m /\ \A r \in Tasks \ {t} : task'[r] = task[r]
        BY <1>0, <2>3 DEF TypeOK
    <2>5. \A w \in Listeners(t) : wait[w].at = "waiting" => task[t].status = "running"
        BY <1>0 DEF NoMissedWakeup, Listeners
    <2>6. NoMissedWakeup'
        <3>1. \A w \in served : wait[w].task \in Tasks
            BY <2>3
        <3>2. \A w \in Listeners(t) \ served : wait[w].at = "waiting" =>
                 task'[t].status = "running" /\ ~Met(task'[t], wait[w].cond)
            BY <2>2, <2>3, <2>4, <2>5
        <3> QED
            BY <1>0, <2>3, <2>4, <3>1, <3>2, AnswerWakes
    <2>7. AnswersAreEarned'
        <3>1. \A w \in served : wait[w].task \in Tasks /\ Met(task'[wait[w].task], wait[w].cond)
            BY <2>3, <2>4
        <3> QED
            BY <1>0, <2>3, <3>1, AnswerEarned
    <2> QED
        BY <2>6, <2>7
<1>2. ASSUME ExitEvent(t) \/ ErrorEvent(t) \/ KillDenied(t)
      PROVE  NoMissedWakeup' /\ AnswersAreEarned'
    <2>1. /\ Answer(Listeners(t), task') /\ listening' = listening \ Listeners(t)
          /\ UNCHANGED <<listed, cleanupTimer>>
          /\ \A r \in Tasks \ {t} : task'[r] = task[r]
        BY <1>0, <1>2 DEF ExitEvent, ErrorEvent, KillDenied, TypeOK
    <2>2. task'[t].status # "running"
        BY <1>0, <1>2, AfterExitProperties, AfterErrorProperties
           DEF ExitEvent, ErrorEvent, KillDenied, TypeOK
    <2>3. NoMissedWakeup'
        BY <1>0, <2>1, AnswerWakes
    <2>4. AnswersAreEarned'
        BY <1>0, <2>1, <2>2, AnswerEarned
    <2> QED
        BY <2>3, <2>4
<1> QED
    BY <1>1, <1>2

\* A request waits only when its condition is not met.
LEMMA RequestInv ==
    ASSUME IInv, NEW w \in Waits,
           \/ \E t \in Tasks : Query(w, t) \/ \E c \in Conditions : GetLog(w, t, c)
           \/ Timeout(w) \/ Collect(w)
    PROVE  NoMissedWakeup' /\ AnswersAreEarned'
<1>0. /\ Typed /\ TypeOK /\ WaitsHaveTask /\ NoMissedWakeup /\ AnswersAreEarned
      /\ wait \in [Waits -> Wait]
    BY DEF IInv, Typed, TypeOK
<1>1. ASSUME NEW t \in Tasks, Query(w, t) PROVE NoMissedWakeup' /\ AnswersAreEarned'
    <2>1. /\ wait'[w].at = "answered" /\ wait'[w].now
          /\ \A v \in Waits \ {w} : wait'[v] = wait[v]
        BY <1>0, <1>1 DEF Query
    <2> QED
        BY <1>0, <1>1, <2>1 DEF Query, NoMissedWakeup, AnswersAreEarned
<1>2. ASSUME NEW t \in Tasks, NEW c \in Conditions, GetLog(w, t, c)
      PROVE  NoMissedWakeup' /\ AnswersAreEarned'
    <2> DEFINE met == task[t].status # "running" \/ Met(task[t], c)
               r == LogResponse(task[t], c, FALSE)
    <2>1. /\ r.status = task[t].status /\ r.lines = Len(task[t].output)
          /\ r.matched <=> c.match /\ HasMatch(task[t].output)
        BY <1>0, ReplyProperties DEF TypeOK
    <2>2. /\ wait'[w].task = t /\ wait'[w].cond = c
          /\ met => wait'[w].at = "answered" /\ wait'[w].reply = r
          /\ ~met => wait'[w].at = "waiting"
          /\ \A v \in Waits \ {w} : wait'[v] = wait[v]
          /\ listening' = IF met THEN listening ELSE listening \cup {w}
        <3> HIDE DEF r, met
        <3>1. wait' = [wait EXCEPT ![w] =
                 [at |-> IF met THEN "answered" ELSE "waiting",
                  task |-> t, cond |-> c, now |-> FALSE,
                  reply |-> IF met THEN r ELSE Unknown]]
            BY <1>2 DEF GetLog, met, r
        <3>2. listening' = IF met THEN listening ELSE listening \cup {w}
            BY <1>2 DEF GetLog, met
        <3> QED
            BY <1>0, <3>1, <3>2
    <2> HIDE DEF r
    <2>3. NoMissedWakeup'
        BY <1>0, <1>2, <2>2 DEF GetLog, NoMissedWakeup
    <2>4. AnswersAreEarned'
        BY <1>0, <2>1, <2>2 DEF AnswersAreEarned, Met
    <2> QED
        BY <2>3, <2>4
<1>3. CASE Timeout(w)
    <2>1. /\ wait'[w].at = "answered" /\ wait'[w].reply.timedOut
          /\ \A v \in Waits \ {w} : wait'[v] = wait[v]
        <3>1. wait[w].cond \in Conditions /\ task[wait[w].task] \in Task
            BY <1>0, <1>3 DEF Timeout, WaitsHaveTask, TypeOK, Wait
        <3>2. LogResponse(task[wait[w].task], wait[w].cond, TRUE).timedOut
            BY <3>1, ReplyProperties
        <3> HIDE DEF LogResponse
        <3> QED
            BY <1>0, <1>3, <3>2 DEF Timeout, Done
    <2> QED
        BY <1>0, <1>3, <2>1 DEF Timeout, NoMissedWakeup, AnswersAreEarned
<1>4. CASE Collect(w)
    BY <1>0, <1>4 DEF Collect, IdleWait, NoMissedWakeup, AnswersAreEarned
<1> QED
    BY <1>1, <1>2, <1>3, <1>4

LEMMA DisposeInv ==
    ASSUME IInv, Dispose
    PROVE  NoMissedWakeup' /\ AnswersAreEarned' /\ AliveRuns' /\ LivingChildIsListed'
<1>0. /\ Typed /\ Typed' /\ TypeOK /\ WaitsHaveTask /\ NoMissedWakeup /\ AnswersAreEarned
      /\ AliveRuns /\ task' \in [Tasks -> Task]
    BY DisposeTyped DEF IInv, Typed, TypeOK
<1>1. PICK denied \in SUBSET {t \in listed : Deniable(t)} :
          LET served == {w \in listening : wait[w].task \in denied} IN
          /\ task' = [t \in Tasks |-> IF t \in denied THEN AfterError(task[t]) ELSE task[t]]
          /\ Answer(served, task')
    BY DEF Dispose
<1> DEFINE served == {w \in listening : wait[w].task \in denied}
<1>2. /\ served \in SUBSET Waits /\ \A w \in served : wait[w].task \in Tasks
      /\ \A t \in denied : t \in Tasks /\ task'[t].status = "errored"
      /\ \A t \in Tasks : task'[t].status \in {"errored", task[t].status}
    BY <1>0, <1>1, AfterErrorProperties DEF TypeOK
<1>3. AnswersAreEarned'
    <2>1. \A w \in served : task'[wait[w].task].status # "running"
        BY <1>2
    <2> QED
        BY <1>0, <1>1, <1>2, <2>1, AnswerEarned
<1>4. \A w \in Waits : wait'[w].at = "waiting" => wait'[w] = wait[w]
    BY <1>0, <1>1, <1>2, AnswerProperties
<1>5. NoMissedWakeup'
    BY <1>0, <1>4 DEF Dispose, NoMissedWakeup
<1>6. AliveRuns'
    BY <1>0, <1>2 DEF Dispose, AliveRuns
<1>7. LivingChildIsListed'
    BY DEF Dispose, LivingChildIsListed
<1> QED
    BY <1>3, <1>5, <1>6, <1>7

\* Children and the map of tasks.
LEMMA ChildInv ==
    ASSUME IInv, NEW t \in Tasks,
           \/ RunTask(t) \/ Read(t) \/ ExitEvent(t) \/ ErrorEvent(t)
           \/ KillDenied(t) \/ Expire(t)
           \/ \E line \in Lines : Write(t, line)
           \/ \E ending \in {"code0", "failure", "signal"} : Ends(t, ending)
    PROVE  AliveRuns' /\ LivingChildIsListed'
<1>0. /\ TypeOK /\ AliveRuns /\ LivingChildIsListed
      /\ task[t] \in Task /\ child[t] \in Child
    BY DEF IInv, Typed, TypeOK
<1>1. CASE RunTask(t)
    <2>1. /\ listed' = listed \cup {t} /\ UNCHANGED cleanupTimer
          /\ task'[t].status = "running"
          /\ \A r \in Tasks \ {t} : task'[r] = task[r] /\ child'[r] = child[r]
        BY <1>0, <1>1 DEF RunTask, NewTask, TypeOK
    <2> QED
        BY <1>0, <2>1 DEF AliveRuns, LivingChildIsListed
<1>2. CASE Read(t)
    <2>1. PICK n \in 0..Len(child[t].pipe), cut \in BOOLEAN :
            /\ child' = [child EXCEPT ![t].pipe = Rest(child[t].pipe, n, cut)]
            /\ task' = [task EXCEPT ![t] = AfterRead(task[t], Chunk(child[t].pipe, n, cut))]
        BY <1>2 DEF Read
    <2>2. AfterRead(task[t], Chunk(child[t].pipe, n, cut)).status = task[t].status
        BY <1>0, PipeTyped, AfterReadProperties DEF Child
    <2> HIDE DEF AfterRead
    <2>3. \A r \in Tasks : task'[r].status = task[r].status /\ child'[r].state = child[r].state
        BY <1>0, <2>1, <2>2 DEF TypeOK, Child
    <2> QED
        BY <1>0, <1>2, <2>3 DEF Read, AliveRuns, LivingChildIsListed
<1>3. CASE ExitEvent(t)
    BY <1>0, <1>3 DEF ExitEvent, TypeOK, AliveRuns, LivingChildIsListed
<1>4. CASE ErrorEvent(t)
    BY <1>0, <1>4 DEF ErrorEvent, TypeOK, AliveRuns, LivingChildIsListed
<1>5. CASE KillDenied(t)
    BY <1>0, <1>5, AfterErrorProperties DEF KillDenied, TypeOK, AliveRuns, LivingChildIsListed
<1>6. CASE Expire(t)
    BY <1>0, <1>6 DEF Expire, TypeOK, Task, AliveRuns, LivingChildIsListed
<1>7. ASSUME NEW line \in Lines, Write(t, line) PROVE AliveRuns' /\ LivingChildIsListed'
    BY <1>0, <1>7 DEF Write, TypeOK, Child, AliveRuns, LivingChildIsListed
<1>8. ASSUME NEW ending \in {"code0", "failure", "signal"}, Ends(t, ending)
      PROVE  AliveRuns' /\ LivingChildIsListed'
    BY <1>0, <1>8 DEF Ends, TypeOK, AliveRuns, LivingChildIsListed
<1> QED
    BY <1>1, <1>2, <1>3, <1>4, <1>5, <1>6, <1>7, <1>8

LEMMA InitHolds == Init => IInv
<1> SUFFICES ASSUME Init PROVE IInv
    OBVIOUS
<1>1. NoMissedWakeup /\ AnswersAreEarned
    BY DEF Init, NoMissedWakeup, AnswersAreEarned, IdleWait
<1>2. AliveRuns /\ LivingChildIsListed
    BY DEF Init, AliveRuns, LivingChildIsListed, NewChild
<1> QED
    BY <1>1, <1>2, InitTyped DEF IInv

LEMMA NextInv == IInv /\ [Next]_vars => IInv'
<1> SUFFICES ASSUME IInv, [Next]_vars PROVE IInv'
    OBVIOUS
<1>0. /\ Typed /\ Typed' /\ TypeOK /\ NoMissedWakeup /\ AnswersAreEarned
      /\ AliveRuns /\ LivingChildIsListed
    BY NextTyped DEF IInv, Typed
<1>1. ASSUME NEW t \in Tasks, Read(t) \/ ExitEvent(t) \/ ErrorEvent(t) \/ KillDenied(t)
      PROVE  IInv'
    BY <1>0, <1>1, EventInv, ChildInv DEF IInv
<1>2. ASSUME NEW t \in Tasks, RunTask(t) PROVE IInv'
    <2>1. NoMissedWakeup' /\ AnswersAreEarned'
        BY <1>0, <1>2 DEF RunTask, Unused, TypeOK, NoMissedWakeup, AnswersAreEarned
    <2> QED
        BY <1>0, <1>2, <2>1, ChildInv DEF IInv
<1>3. ASSUME NEW t \in Tasks,
             \/ Expire(t) \/ \E line \in Lines : Write(t, line)
             \/ \E ending \in {"code0", "failure", "signal"} : Ends(t, ending)
      PROVE  IInv'
    <2>1. /\ UNCHANGED <<wait, listed, listening, cleanupTimer>>
          /\ \A r \in Tasks : task'[r].status = task[r].status /\ task'[r].output = task[r].output
        <3>1. CASE Expire(t)
            BY <1>0, <3>1 DEF Expire, TypeOK, Task
        <3>2. ASSUME NEW line \in Lines, Write(t, line)
              PROVE  UNCHANGED <<task, wait, listed, listening, cleanupTimer>>
            BY <3>2 DEF Write
        <3>3. ASSUME NEW ending \in {"code0", "failure", "signal"}, Ends(t, ending)
              PROVE  UNCHANGED <<task, wait, listed, listening, cleanupTimer>>
            BY <3>3 DEF Ends
        <3> QED
            BY <1>3, <3>1, <3>2, <3>3
    <2>2. AnswersAreEarned'
        BY <1>0, <2>1 DEF AnswersAreEarned
    <2>3. \A r \in Tasks, c \in Conditions : Met(task'[r], c) <=> Met(task[r], c)
        BY <2>1 DEF Met, HasMatch
    <2>4. \A w \in Waits : wait[w].cond \in Conditions
        BY <1>0 DEF TypeOK, Wait
    <2>5. NoMissedWakeup'
        <3>1. \A r \in listed : r \in Tasks
            BY <1>0 DEF TypeOK
        <3>2. \A w \in Waits : wait'[w] = wait[w]
            BY <2>1
        <3>3. ASSUME NEW w \in Waits, wait[w].task \in listed
              PROVE  /\ task'[wait[w].task].status = task[wait[w].task].status
                     /\ Met(task'[wait[w].task], wait[w].cond)
                           <=> Met(task[wait[w].task], wait[w].cond)
            BY <2>1, <2>3, <2>4, <3>1, <3>3
        <3> HIDE DEF Met
        <3> QED
            BY <1>0, <2>1, <3>2, <3>3 DEF NoMissedWakeup
    <2> QED
        BY <1>0, <1>3, <2>2, <2>5, ChildInv DEF IInv
<1>4. ASSUME NEW w \in Waits,
             \/ \E t \in Tasks : Query(w, t) \/ \E c \in Conditions : GetLog(w, t, c)
             \/ Timeout(w) \/ Collect(w)
      PROVE  IInv'
    <2>1. NoMissedWakeup' /\ AnswersAreEarned'
        BY <1>4, RequestInv
    <2>2. UNCHANGED <<listed, task, child, cleanupTimer>>
        BY <1>4 DEF Query, GetLog, Timeout, Collect
    <2> QED
        BY <1>0, <2>1, <2>2 DEF IInv, AliveRuns, LivingChildIsListed
<1>5. CASE CleanupCompletedTasks
    BY <1>0, <1>5
       DEF CleanupCompletedTasks, Finished, IInv, NoMissedWakeup, AnswersAreEarned,
           AliveRuns, LivingChildIsListed
<1>6. CASE Dispose
    BY <1>0, <1>6, DisposeInv DEF IInv
<1>7. CASE UNCHANGED vars
    BY <1>0, <1>7
       DEF vars, IInv, NoMissedWakeup, AnswersAreEarned, AliveRuns, LivingChildIsListed
<1> QED
    BY <1>1, <1>2, <1>3, <1>4, <1>5, <1>6, <1>7 DEF Next

LEMMA Invariance == SafeSpec => []IInv
BY InitHolds, NextInv, PTL DEF SafeSpec

\* Whatever lines, ends, time-outs and clean-ups come in between, a request
\* that waits is registered and what it waits for has not happened.
THEOREM WakeupsAreNotMissed == SafeSpec => []NoMissedWakeup
<1>1. IInv => NoMissedWakeup
    BY DEF IInv
<1> QED
    BY Invariance, <1>1, PTL

\* A request on a running task is answered only with what it asked for.
THEOREM AnswersAreNotEarly == SafeSpec => []AnswersAreEarned
<1>1. IInv => AnswersAreEarned
    BY DEF IInv
<1> QED
    BY Invariance, <1>1, PTL

\* The clean-up forgets no task whose child lives, unless a denied signal has
\* marked it as errored.
THEOREM LivingChildIsKept == SafeSpec => []LivingChildIsListed
<1>1. IInv => LivingChildIsListed
    BY DEF IInv
<1> QED
    BY Invariance, <1>1, PTL

-----------------------------------------------------------------------------
(***************************************************************************)
(* No silent loss.                                                         *)
(***************************************************************************)

\* The reply of wait w is built from its task as it is after the step.
Fresh(w) ==
    /\ wait'[w].task \in Tasks
    /\ \/ wait'[w].reply = Unknown
       \/ \E c \in Conditions, timedOut \in BOOLEAN :
              wait'[w].reply = LogResponse(task'[wait'[w].task], c, timedOut)

LEMMA EventReply ==
    ASSUME TypeOK, WaitsHaveTask, task' \in [Tasks -> Task],
           NEW who \in SUBSET Waits, \A w \in who : wait[w].task \in Tasks,
           Answer(who, task'), NEW w \in Waits, Answered(w)
    PROVE  Fresh(w)
<1>1. w \in who
    BY AnswerProperties DEF Answered
<1>2. wait'[w] = Done(w, task'[wait[w].task], FALSE)
    BY <1>1, AnswerProperties
<1>3. /\ wait'[w].task = wait[w].task /\ wait[w].cond \in Conditions
      /\ wait'[w].reply = LogResponse(task'[wait[w].task], wait[w].cond, FALSE)
    <2> HIDE DEF LogResponse
    <2> QED
        BY <1>2 DEF Done, TypeOK, Wait
<1> HIDE DEF LogResponse
<1> QED
    BY <1>1, <1>3 DEF Fresh

LEMMA AnsweredIsFresh ==
    ASSUME Typed, [Next]_vars, NEW w \in Waits, Answered(w)
    PROVE  Fresh(w)
<1>0. /\ TypeOK /\ WaitsHaveTask /\ task' \in [Tasks -> Task]
      /\ wait \in [Waits -> Wait]
    BY NextTyped DEF Typed, TypeOK
<1> HIDE DEF LogResponse
<1>1. ASSUME NEW t \in Tasks, Read(t) \/ ExitEvent(t) \/ ErrorEvent(t) \/ KillDenied(t)
      PROVE  Fresh(w)
    <2>1. \E who \in SUBSET Listeners(t) : Answer(who, task')
        BY <1>1 DEF Read, ExitEvent, ErrorEvent, KillDenied
    <2> QED
        BY <1>0, <2>1, EventReply DEF Listeners, TypeOK
<1>2. CASE Dispose
    <2>1. \E denied \in SUBSET listed :
             Answer({v \in listening : wait[v].task \in denied}, task')
        BY <1>2 DEF Dispose
    <2> QED
        BY <1>0, <2>1, EventReply DEF TypeOK
<1>3. ASSUME NEW v \in Waits, NEW t \in Tasks, Query(v, t) PROVE Fresh(w)
    <2>1. v = w
        BY <1>0, <1>3 DEF Query, Answered
    <2>2. /\ wait'[w].task = t /\ task' = task
          /\ wait'[w].reply = IF t \in listed THEN LogResponse(task[t], UntilEnd, FALSE)
                                               ELSE Unknown
        BY <1>0, <1>3, <2>1 DEF Query
    <2>3. UntilEnd \in Conditions
        BY DEF UntilEnd, Conditions
    <2> QED
        BY <2>2, <2>3 DEF Fresh
<1>4. ASSUME NEW v \in Waits, NEW t \in Tasks, NEW c \in Conditions, GetLog(v, t, c)
      PROVE  Fresh(w)
    <2>1. v = w
        BY <1>0, <1>4 DEF GetLog, Answered
    <2>2. /\ wait'[w].task = t /\ task' = task
          /\ wait'[w].reply \in {LogResponse(task[t], c, FALSE), Unknown}
        BY <1>0, <1>4, <2>1 DEF GetLog
    <2> QED
        BY <2>2 DEF Fresh
<1>5. ASSUME NEW v \in Waits, Timeout(v) PROVE Fresh(w)
    <2>1. v = w
        BY <1>0, <1>5 DEF Timeout, Answered
    <2>2. /\ wait'[w].task = wait[w].task /\ task' = task
          /\ wait'[w].reply = LogResponse(task[wait[w].task], wait[w].cond, TRUE)
        BY <1>0, <1>5, <2>1 DEF Timeout, Done
    <2>3. wait[w].task \in Tasks /\ wait[w].cond \in Conditions
        BY <1>0, <1>5, <2>1 DEF Timeout, WaitsHaveTask, Wait
    <2> QED
        BY <2>2, <2>3 DEF Fresh
<1>6. ASSUME NEW v \in Waits, Collect(v) PROVE FALSE
    BY <1>0, <1>6 DEF Collect, IdleWait, Answered
<1>7. wait' # wait
    BY DEF Answered
<1> QED
    BY <1>1, <1>2, <1>3, <1>4, <1>5, <1>6, <1>7
       DEF Next, vars, RunTask, Write, Ends, Expire, CleanupCompletedTasks

\* Lines are dropped only from a full buffer, and an answer that may lack
\* lines says so.
THEOREM LossIsAnnounced == SafeSpec => NoSilentLoss
<1> DEFINE Complete == \A w \in Waits :
              LET r == wait'[w].reply IN
              Answered(w) /\ r.status # "unknown" /\ ~r.truncated
              => r.lines = task'[wait'[w].task].pushed
<1>1. Typed /\ [Next]_vars => Complete
    <2> SUFFICES ASSUME Typed, [Next]_vars, NEW w \in Waits, Answered(w),
                        wait'[w].reply.status # "unknown", ~wait'[w].reply.truncated
                 PROVE  wait'[w].reply.lines = task'[wait'[w].task].pushed
        OBVIOUS
    <2>1. Typed' /\ Fresh(w)
        BY NextTyped, AnsweredIsFresh
    <2>2. wait'[w].reply # Unknown
        BY DEF Unknown
    <2>3. PICK c \in Conditions, timedOut \in BOOLEAN :
              wait'[w].reply = LogResponse(task'[wait'[w].task], c, timedOut)
        BY <2>1, <2>2 DEF Fresh
    <2> DEFINE m == task'[wait'[w].task]
    <2>4. m \in Task /\ Buffered(m)
        BY <2>1 DEF Fresh, Typed, TypeOK, AllBuffered, Buffered
    <2>5. /\ LogResponse(m, c, timedOut).lines = Len(m.output)
          /\ LogResponse(m, c, timedOut).truncated <=> Len(m.output) >= MaxOutputLines
        BY <2>4, ReplyProperties
    <2> HIDE DEF LogResponse
    <2> QED
        BY <2>3, <2>4, <2>5 DEF Buffered
<1>2. SafeSpec => []Typed
    BY InitTyped, NextTyped, PTL DEF SafeSpec
<1>3. Typed /\ [Next]_vars => [Complete]_vars
    BY <1>1
<1> QED
    BY <1>2, <1>3, PTL DEF SafeSpec, NoSilentLoss
=============================================================================
