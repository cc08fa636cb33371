---------------------------- MODULE TaskManager ----------------------------
(***************************************************************************)
(* The one-shot tasks of the procman daemon,                               *)
(* src/process-manager/task-manager.ts: run a command, capture its output, *)
(* answer requests for its log that may wait for lines, for a match, or    *)
(* for its end, and forget finished tasks after a while.                   *)
(*                                                                         *)
(* Every action is one turn of the event loop: a request, an event of the  *)
(* child or a timer.  A log request keeps the task it found, though the    *)
(* task may be forgotten meanwhile.                                        *)
(***************************************************************************)
EXTENDS Naturals, Sequences

CONSTANTS
    Tasks,          \* task ids
    Waits,          \* slots for concurrent requests of getTaskLog
    NoTask,
    MaxOutputLines, \* MAX_OUTPUT_LINES
    LineCounts,     \* the values of waitLines in requests
    MayDeny,        \* can kill() fail with EPERM?
    MaxLines        \* bound: lines a task writes

ASSUME TaskAssumption ==
    /\ NoTask \notin Tasks
    /\ MaxOutputLines \in Nat \ {0} /\ MaxLines \in Nat
    /\ LineCounts \subseteq Nat \ {0}
    /\ MayDeny \in BOOLEAN

VARIABLES
    listed,         \* the ids in the map `tasks'
    task,           \* Tasks -> ManagedTask
    child,          \* Tasks -> the ChildProcess and its output pipes
    wait,           \* Waits -> a call of getTaskLog
    listening,      \* the waits registered on the events of their task
    cleanupTimer    \* is the cleanup timer set?

vars == <<listed, task, child, wait, listening, cleanupTimer>>

-----------------------------------------------------------------------------
Statuses == {"running", "exited", "killed", "errored"}

\* finished_at: null, within COMPLETED_TASK_TTL_MS, or longer ago.
Ages == {"unfinished", "recent", "expired"}

\* A line matches the pattern of a wait or it does not.
Lines == {"match", "plain"}

\* `pushed' counts the lines ever put into the output, for the properties.
Task == [status : Statuses, process : BOOLEAN, age : Ages,
         output : Seq(Lines), pushed : Nat]

NewTask(spawned) ==
    [status |-> "running", process |-> spawned, age |-> "unfinished",
     output |-> <<>>, pushed |-> 0]

\* "unspawned" and "dead": the 'error' or 'exit' event is due.
Child == [state : {"none", "unspawned", "alive", "dead", "gone"},
          ending : {"code0", "failure", "signal"},
          pipe : Seq(Lines)]        \* written and not read yet

NewChild(s) == [state |-> s, ending |-> "code0", pipe |-> <<>>]

\* What a wait is for: a number of lines (0: none), a match, or in any case
\* the end of the task.
Conditions == [lines : {0} \cup LineCounts, match : BOOLEAN]

UntilEnd == [lines |-> 0, match |-> FALSE]

Reply == [timedOut : BOOLEAN, status : Statuses \cup {"unknown"},
          matched : BOOLEAN, truncated : BOOLEAN, lines : Nat]

Unknown == [timedOut |-> FALSE, status |-> "unknown", matched |-> FALSE,
            truncated |-> FALSE, lines |-> 0]

Wait == [at : {"idle", "waiting", "answered"}, task : Tasks \cup {NoTask},
         cond : Conditions, now : BOOLEAN, reply : Reply]

IdleWait == [at |-> "idle", task |-> NoTask, cond |-> UntilEnd, now |-> FALSE,
             reply |-> Unknown]

TypeOK ==
    /\ listed \subseteq Tasks
    /\ task \in [Tasks -> Task]
    /\ child \in [Tasks -> Child]
    /\ wait \in [Waits -> Wait]
    /\ listening \subseteq Waits
    /\ cleanupTimer \in BOOLEAN

-----------------------------------------------------------------------------
(***************************************************************************)
(* The output of a task and the answers of getTaskLog.                     *)
(***************************************************************************)

\* Every line read is pushed, and one is shifted out while the buffer is over
\* its limit; an error line may have put it over the limit by itself.
AfterRead(m, chunk) ==
    LET all == m.output \o chunk
        size == Len(m.output)
        kept == IF size > MaxOutputLines THEN size ELSE MaxOutputLines
        drop == IF Len(all) > kept THEN Len(all) - kept ELSE 0
    IN  [status |-> m.status, process |-> m.process, age |-> m.age,
         output |-> SubSeq(all, drop + 1, Len(all)),
         pushed |-> m.pushed + Len(chunk)]

HasMatch(output) == \E i \in 1..Len(output) : output[i] = "match"

\* Mutant of Met: the number of lines is off by one.
MetEarly(m, c) ==
    \/ c.lines > 0 /\ Len(m.output) + 1 >= c.lines
    \/ c.match /\ HasMatch(m.output)

\* onOutput: is the condition of a wait met?
Met(m, c) ==
    \/ c.lines > 0 /\ Len(m.output) >= c.lines
    \/ c.match /\ HasMatch(m.output)

\* Mutant of LogResponse: more than the limit is taken for truncated.
LogResponseOver(m, c, timedOut) ==
    [timedOut |-> timedOut, status |-> m.status,
     matched |-> c.match /\ HasMatch(m.output),
     truncated |-> Len(m.output) > MaxOutputLines, lines |-> Len(m.output)]

\* buildLogResponse
LogResponse(m, c, timedOut) ==
    [timedOut |-> timedOut, status |-> m.status,
     matched |-> c.match /\ HasMatch(m.output),
     truncated |-> Len(m.output) >= MaxOutputLines, lines |-> Len(m.output)]

Listeners(t) == {w \in listening : wait[w].task = t}

\* done(timedOut): wait w is answered with task m as it is now.
Done(w, m, timedOut) ==
    [at |-> "answered", task |-> wait[w].task, cond |-> wait[w].cond,
     now |-> wait[w].now, reply |-> LogResponse(m, wait[w].cond, timedOut)]

\* done(false) for the waits `who', with their tasks as they are in `tasks'.
Answer(who, tasks) ==
    wait' = [w \in Waits |->
               IF w \in who THEN Done(w, tasks[wait[w].task], FALSE) ELSE wait[w]]

-----------------------------------------------------------------------------
(***************************************************************************)
(* Running a task, and the events of its child.                            *)
(***************************************************************************)

\* An id stands for a new ManagedTask when nothing refers to its last one.
Unused(t) ==
    /\ t \notin listed /\ child[t].state \in {"none", "gone"}
    /\ \A w \in Waits : wait[w].task # t

\* runTask.  A spawn() that throws leaves the task in the map, running.
RunTask(t) ==
    /\ Unused(t)
    /\ listed' = listed \cup {t}
    /\ \E state \in {"none", "unspawned", "alive"} :
          /\ task' = [task EXCEPT ![t] = NewTask(state # "none")]
          /\ child' = [child EXCEPT ![t] = NewChild(state)]
    /\ UNCHANGED <<wait, listening, cleanupTimer>>

\* The child, an external program: it writes a line, it ends.
Write(t, line) ==
    /\ child[t].state = "alive"
    /\ task[t].pushed + Len(child[t].pipe) < MaxLines
    /\ child' = [child EXCEPT ![t].pipe = Append(@, line)]
    /\ UNCHANGED <<listed, task, wait, listening, cleanupTimer>>

Ends(t, ending) ==
    /\ child[t].state = "alive"
    /\ child' = [child EXCEPT ![t] = [state |-> "dead", ending |-> ending, pipe |-> @.pipe]]
    /\ UNCHANGED <<listed, task, wait, listening, cleanupTimer>>

\* A chunk is some lines, the last perhaps cut in two: each half is then a
\* line of its own.
Half(cut) == IF cut THEN <<"plain">> ELSE <<>>

Chunk(pipe, n, cut) == SubSeq(pipe, 1, n) \o Half(cut)

Rest(pipe, n, cut) == Half(cut) \o SubSeq(pipe, IF cut THEN n + 2 ELSE n + 1, Len(pipe))

\* 'data' on stdout or stderr.
Read(t) ==
    \E n \in 0..Len(child[t].pipe), cut \in BOOLEAN :
        LET pipe == child[t].pipe
            chunk == Chunk(pipe, n, cut)
            rest == Rest(pipe, n, cut)
            m == AfterRead(task[t], chunk)
            served == {w \in Listeners(t) : Met(m, wait[w].cond)}
        IN  /\ chunk # <<>>
            /\ cut => n < Len(pipe) /\ m.pushed + Len(rest) <= MaxLines
            /\ child' = [child EXCEPT ![t].pipe = rest]
            /\ task' = [task EXCEPT ![t] = m]
            /\ Answer(served, task')
            /\ listening' = listening \ served
            /\ UNCHANGED <<listed, cleanupTimer>>

Ending(e) ==
    IF e = "signal" THEN "killed" ELSE IF e = "code0" THEN "exited" ELSE "errored"

AfterExit(m, e) ==
    [status |-> Ending(e), process |-> FALSE, age |-> "recent",
     output |-> m.output, pushed |-> m.pushed]

\* The 'exit' handler.  The pipes may still hold output.
ExitEvent(t) ==
    /\ child[t].state = "dead"
    /\ child' = [child EXCEPT ![t].state = "gone"]
    /\ task' = [task EXCEPT ![t] = AfterExit(@, child[t].ending)]
    /\ Answer(Listeners(t), task')
    /\ listening' = listening \ Listeners(t)
    /\ UNCHANGED <<listed, cleanupTimer>>

\* Mutant of AfterError: finished_at is not set.
AfterErrorUnfinished(m) ==
    [status |-> "errored", process |-> m.process, age |-> m.age,
     output |-> Append(m.output, "plain"), pushed |-> m.pushed + 1]

\* The 'error' handler: the process stays set, the error becomes a line.
AfterError(m) ==
    [status |-> "errored", process |-> m.process, age |-> "recent",
     output |-> Append(m.output, "plain"), pushed |-> m.pushed + 1]

ErrorEvent(t) ==
    /\ child[t].state = "unspawned"
    /\ child' = [child EXCEPT ![t].state = "gone"]
    /\ task' = [task EXCEPT ![t] = AfterError(@)]
    /\ Answer(Listeners(t), task')
    /\ listening' = listening \ Listeners(t)
    /\ UNCHANGED <<listed, cleanupTimer>>

\* A kill() can be denied, which is an 'error' event too, while the child has
\* not been reaped.  Bound: MaxLines also bounds the error lines.
Deniable(t) ==
    /\ MayDeny /\ task[t].process /\ child[t].state \in {"alive", "dead"}
    /\ task[t].pushed + Len(child[t].pipe) < MaxLines

\* killTask, when it is denied; otherwise it does no more than signal.
KillDenied(t) ==
    /\ t \in listed /\ Deniable(t)
    /\ task' = [task EXCEPT ![t] = AfterError(@)]
    /\ Answer(Listeners(t), task')
    /\ listening' = listening \ Listeners(t)
    /\ UNCHANGED <<listed, child, cleanupTimer>>

-----------------------------------------------------------------------------
(***************************************************************************)
(* getTaskLog.                                                             *)
(***************************************************************************)

\* No such task, or no wait: the answer is at hand.
Query(w, t) ==
    /\ wait[w].at = "idle"
    /\ wait' = [wait EXCEPT ![w] =
                 [at |-> "answered", task |-> t, cond |-> UntilEnd, now |-> TRUE,
                  reply |-> IF t \in listed THEN LogResponse(task[t], UntilEnd, FALSE)
                                            ELSE Unknown]]
    /\ UNCHANGED <<listed, task, child, listening, cleanupTimer>>

\* Mutant of GetLog: the condition is not looked at before waiting.
GetLogUnchecked(w, t, c) ==
    /\ wait[w].at = "idle" /\ t \in listed
    /\ wait' = [wait EXCEPT ![w] =
                 [at |-> "waiting", task |-> t, cond |-> c, now |-> FALSE,
                  reply |-> Unknown]]
    /\ listening' = listening \cup {w}
    /\ UNCHANGED <<listed, task, child, cleanupTimer>>

\* Register, then answer at once or wait.
GetLog(w, t, c) ==
    LET met == task[t].status # "running" \/ Met(task[t], c) IN
    /\ wait[w].at = "idle" /\ t \in listed
    /\ wait' = [wait EXCEPT ![w] =
                 [at |-> IF met THEN "answered" ELSE "waiting",
                  task |-> t, cond |-> c, now |-> FALSE,
                  reply |-> IF met THEN LogResponse(task[t], c, FALSE) ELSE Unknown]]
    /\ listening' = IF met THEN listening ELSE listening \cup {w}
    /\ UNCHANGED <<listed, task, child, cleanupTimer>>

\* Mutant of Timeout: it only serves waits that are still registered.
TimeoutIfListening(w) ==
    /\ wait[w].at = "waiting" /\ w \in listening
    /\ wait' = [wait EXCEPT ![w] = Done(w, task[wait[w].task], TRUE)]
    /\ listening' = listening \ {w}
    /\ UNCHANGED <<listed, task, child, cleanupTimer>>

\* The timer of a wait: done(true).
Timeout(w) ==
    /\ wait[w].at = "waiting"
    /\ wait' = [wait EXCEPT ![w] = Done(w, task[wait[w].task], TRUE)]
    /\ listening' = listening \ {w}
    /\ UNCHANGED <<listed, task, child, cleanupTimer>>

\* The answer is sent; the slot is free for another request.
Collect(w) ==
    /\ wait[w].at = "answered"
    /\ wait' = [wait EXCEPT ![w] = IdleWait]
    /\ UNCHANGED <<listed, task, child, listening, cleanupTimer>>

-----------------------------------------------------------------------------
(***************************************************************************)
(* Forgetting tasks.                                                       *)
(***************************************************************************)
Expire(t) ==
    /\ task[t].age = "recent"
    /\ task' = [task EXCEPT ![t].age = "expired"]
    /\ UNCHANGED <<listed, child, wait, listening, cleanupTimer>>

\* Mutant of Finished: running tasks are forgotten too.
FinishedAny(t) == t \in listed

Finished(t) == t \in listed /\ task[t].status # "running" /\ task[t].age = "expired"

\* cleanupCompletedTasks, when it finds any.
CleanupCompletedTasks ==
    LET done == {t \in Tasks : Finished(t)} IN
    /\ cleanupTimer /\ done # {}
    /\ listed' = listed \ done
    /\ listening' = {w \in listening : wait[w].task \notin done}
    /\ UNCHANGED <<task, child, wait, cleanupTimer>>

\* dispose: SIGTERM to every child, some of them denied; every listener is
\* removed and the map is cleared.  Nothing stops later calls of runTask.
Dispose ==
    \E denied \in SUBSET {t \in listed : Deniable(t)} :
        LET served == {w \in listening : wait[w].task \in denied} IN
        /\ cleanupTimer' = FALSE
        /\ task' = [t \in Tasks |-> IF t \in denied THEN AfterError(task[t]) ELSE task[t]]
        /\ Answer(served, task')
        /\ listening' = {w \in listening : wait[w].task \notin listed}
        /\ listed' = {}
        /\ UNCHANGED child

-----------------------------------------------------------------------------
Init ==
    /\ listed = {}
    /\ task = [t \in Tasks |-> NewTask(FALSE)]
    /\ child = [t \in Tasks |-> NewChild("none")]
    /\ wait = [w \in Waits |-> IdleWait]
    /\ listening = {}
    /\ cleanupTimer = TRUE

Next ==
    \/ \E t \in Tasks :
          \/ RunTask(t) \/ Read(t) \/ ExitEvent(t) \/ ErrorEvent(t)
          \/ KillDenied(t) \/ Expire(t)
          \/ \E line \in Lines : Write(t, line)
          \/ \E ending \in {"code0", "failure", "signal"} : Ends(t, ending)
          \/ \E w \in Waits : Query(w, t) \/ \E c \in Conditions : GetLog(w, t, c)
    \/ \E w \in Waits : Timeout(w) \/ Collect(w)
    \/ CleanupCompletedTasks \/ Dispose

SafeSpec == Init /\ [][Next]_vars

\* Events and timers that are due are served.
Fairness ==
    /\ \A t \in Tasks : WF_vars(ExitEvent(t)) /\ WF_vars(ErrorEvent(t)) /\ WF_vars(Expire(t))
    /\ \A w \in Waits : WF_vars(Timeout(w))
    /\ WF_vars(CleanupCompletedTasks)

Spec == SafeSpec /\ Fairness

-----------------------------------------------------------------------------
(***************************************************************************)
(* Correctness.                                                            *)
(***************************************************************************)

\* No wake-up is missed: while a request waits on a task in the map it is
\* registered, the task is running, and its condition is not met yet.  Only a
\* dispose leaves requests waiting on a forgotten task, for their time-out.
NoMissedWakeup ==
    \A w \in Waits : wait[w].at = "waiting" =>
        LET t == wait[w].task IN
        IF t \in listed
        THEN /\ w \in listening
             /\ task[t].status = "running"
             /\ ~Met(task[t], wait[w].cond)
        ELSE ~cleanupTimer /\ w \notin listening

\* An answer that is no time-out, for a task still running, was asked for:
\* it holds the number of lines or the match that was waited for.
AnswersAreEarned ==
    \A w \in Waits :
        LET r == wait[w].reply IN
        /\ wait[w].at = "answered" /\ ~wait[w].now
        /\ ~r.timedOut /\ r.status = "running"
        => \/ wait[w].cond.lines > 0 /\ r.lines >= wait[w].cond.lines
           \/ wait[w].cond.match /\ r.matched

Answered(w) == wait[w].at # "answered" /\ wait'[w].at = "answered"

\* Output is never dropped silently: an answer not marked as truncated holds
\* every line read from the task so far.
NoSilentLoss ==
    [][ \A w \in Waits :
          LET r == wait'[w].reply IN
          Answered(w) /\ r.status # "unknown" /\ ~r.truncated
          => r.lines = task'[wait'[w].task].pushed ]_vars

\* While the cleanup timer runs, a living child belongs to a task in the map,
\* unless a denied signal has already marked that task as errored.
LivingChildIsListed ==
    \A t \in Tasks : child[t].state = "alive" /\ cleanupTimer =>
        t \in listed \/ task[t].status = "errored"

\* Every request is answered, also when its task is forgotten meanwhile.
EveryWaitEnds == \A w \in Waits : wait[w].at = "waiting" ~> wait[w].at = "answered"

\* A task that has ended is forgotten some time later, as long as the cleanup
\* timer runs.
EndedTasksAreForgotten ==
    \A t \in Tasks :
        t \in listed /\ child[t].state = "gone" ~> t \notin listed \/ ~cleanupTimer
=============================================================================
