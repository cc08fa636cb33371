-------------------------------- MODULE Logs --------------------------------
(***************************************************************************)
(* The log of one application: src/services/log-manager.ts, app-logger.ts, *)
(* log-buffer.ts, log-file-manager.ts and the handlers of                  *)
(* process-log-integration.ts.                                             *)
(*                                                                         *)
(* Output is cut into lines, lines are buffered, and a timer, a full       *)
(* buffer or a close flushes the buffer: every file gets its lines in one  *)
(* append, which is retried.  Nobody awaits the flush of a full buffer,    *)
(* the close of a logger that is replaced, or an earlier flush.            *)
(***************************************************************************)
EXTENDS Naturals, Sequences, SequencesExt, FiniteSets

CONSTANTS
    Loggers,        \* bound: the AppLogger objects made for the application
    NoLogger,
    MaxLines,       \* bound: the lines of output
    Sizes,          \* sizes of an entry
    MaxSize,        \* buffer.maxSize
    Threshold,      \* buffer.backpressureThreshold
    MaxRetries      \* file.maxRetries

\* What the log manager refuses to be configured without.
ValidLogManagerConfig ==
    /\ MaxSize \in Nat \ {0}
    /\ Threshold \in 1..MaxSize
    /\ MaxRetries \in Nat \ {0}

ASSUME LogAssumption ==
    /\ NoLogger \notin Loggers
    /\ MaxLines \in Nat
    /\ Sizes \subseteq Nat \ {0}
    /\ ValidLogManagerConfig

VARIABLES
    logger,         \* Loggers -> the state of an AppLogger
    current,        \* the entry of appLoggers
    phase,          \* of LogManager.close()
    calls,          \* the calls of flushBuffer() and close() that wait
    appends,        \* the appends under way
    file,           \* what the files hold
    lines,          \* the lines of output so far
    warned, failed, cleared,
                    \* the lines refused with a 'bufferWarning', lost with an
                    \* error event, and removed by clearLogs
    owed            \* the lines close() found in the buffer

vars == <<logger, current, phase, calls, appends, file, lines, warned, failed,
          cleared, owed>>

Streams == {"stdout", "stderr"}

Ids == 1..MaxLines

Line == [id : Ids, type : Streams, size : Sizes]

\* One log file, or one for each stream.
Files == {"log"} \cup Streams

Logger == [used : BOOLEAN, split : BOOLEAN, partial : SUBSET Streams,
           buffer : Seq(Line), pressed : BOOLEAN, timer : BOOLEAN]

Unused == [used |-> FALSE, split |-> FALSE, partial |-> {}, buffer |-> <<>>,
           pressed |-> FALSE, timer |-> FALSE]

\* An appendFile, together with the pause before it if it is a retry.
Appends == [file : Files, lines : Seq(Line), try : 1..MaxRetries]

IdsOf(s) == {s[i].id : i \in 1..Len(s)}

TypeOK ==
    /\ logger \in [Loggers -> Logger]
    /\ current \in Loggers \cup {NoLogger}
    /\ phase \in {"open", "closing", "closed"}
    /\ calls \subseteq [kind : {"flush", "close"}, of : Loggers,
                        due : SUBSET Ids]
    /\ appends \subseteq Appends
    /\ file \in [Files -> Seq([id : Ids, try : 1..MaxRetries])]
    /\ lines \in 0..MaxLines
    /\ warned \cup failed \cup cleared \cup owed \subseteq Ids

Init ==
    /\ logger = [l \in Loggers |-> Unused]
    /\ current = NoLogger
    /\ phase = "open"
    /\ calls = {} /\ appends = {}
    /\ file = [f \in Files |-> <<>>]
    /\ lines = 0
    /\ warned = {} /\ failed = {} /\ cleared = {} /\ owed = {}

-----------------------------------------------------------------------------
(***************************************************************************)
(* LogBuffer, as functions of the logger it belongs to.                    *)
(***************************************************************************)

BufferSize(buffer) == FoldSeq(LAMBDA x, sum : x.size + sum, 0, buffer)

\* determineTargetFiles
Target(g, x) == IF g.split THEN x.type ELSE "log"

\* The entries of a buffer that go to file f, in their order.
EntriesFor(g, f) ==
    LET upTo[i \in 0..Len(g.buffer)] ==
            IF i = 0 THEN <<>>
            ELSE IF Target(g, g.buffer[i]) = f THEN Append(upTo[i - 1], g.buffer[i])
            ELSE upTo[i - 1]
    IN  upTo[Len(g.buffer)]

\* groupEntriesByFile: one append for each file.
Batches(g) ==
    {[file |-> f, lines |-> EntriesFor(g, f), try |-> 1] :
        f \in {Target(g, g.buffer[i]) : i \in 1..Len(g.buffer)}}

\* Mutant of Emptied: what has been handed to the file stays in the buffer.
EmptiedLate(g) == [g EXCEPT !.pressed = FALSE, !.timer = FALSE]

\* flush(), up to its await; without entries it returns at once.
Emptied(g) ==
    IF g.buffer = <<>> THEN g
    ELSE [g EXCEPT !.buffer = <<>>, !.pressed = FALSE, !.timer = FALSE]

\* Mutant of Buffered: the timer is set before the flush of a full buffer,
\* which clears it.
BufferedUntimed(g, x) ==
    LET full == BufferSize(g.buffer) + x.size > MaxSize
        h == IF full THEN Emptied(g) ELSE g
        b == Append(h.buffer, x)
    IN  [h EXCEPT !.buffer = b, !.pressed = BufferSize(b) > Threshold,
                  !.timer = ~full]

\* addEntry() of an entry that is not refused.
Buffered(g, x) ==
    LET h == IF BufferSize(g.buffer) + x.size > MaxSize THEN Emptied(g) ELSE g
        b == Append(h.buffer, x)
    IN  [h EXCEPT !.buffer = b, !.pressed = BufferSize(b) > Threshold,
                  !.timer = TRUE]

\* What has been done so far in one turn of the event loop: to the logger, the
\* appends begun, and the lines refused.
Turn(g) == [g |-> g, batches |-> {}, refused |-> {}]

\* addToBufferAndEmitEvent.
AddEntry(t, x) ==
    IF t.g.pressed THEN [t EXCEPT !.refused = @ \cup {x.id}]
    ELSE [t EXCEPT !.g = Buffered(t.g, x),
                   !.batches = IF BufferSize(t.g.buffer) + x.size > MaxSize
                               THEN @ \cup Batches(t.g) ELSE @]

Flush(t) == [t EXCEPT !.g = Emptied(t.g), !.batches = @ \cup Batches(t.g)]

\* The next lines of output, of these streams, whatever their sizes.
NextLines(types) ==
    {[i \in 1..Len(types) |->
        [id |-> lines + i, type |-> types[i], size |-> size[i]]] :
            size \in [1..Len(types) -> Sizes]}

\* The entries of the lines that come up in one turn: none, that of a chunk, or
\* one for each stream.
AddEntries(t, s) ==
    CASE Len(s) = 0 -> t
      [] Len(s) = 1 -> AddEntry(t, s[1])
      [] OTHER -> AddEntry(AddEntry(t, s[1]), s[2])

\* flushPartialLines: the text after the last newline becomes a line, first of
\* the stream that the process wrote to first.
PartialLines(g) ==
    {AddEntries(Turn([g EXCEPT !.partial = {}]), s) :
        s \in UNION {NextLines(types) : types \in SetToSeqs(g.partial)}}

\* The end of a turn of logger l.
Done(l, t) ==
    /\ logger' = [logger EXCEPT ![l] = t.g]
    /\ appends' = appends \cup t.batches
    /\ warned' = warned \cup t.refused

InFlight == UNION {IdsOf(a.lines) : a \in appends}

-----------------------------------------------------------------------------
(***************************************************************************)
(* AppLogger and LogManager.                                               *)
(***************************************************************************)

\* captureProcessOutput: a chunk that ends a line, or not, and that leaves text
\* after it, or not.  Without a logger the output is dropped.
Capture(l, type, ends, rest) ==
    LET g == logger[l]
        h == [g EXCEPT !.partial = IF rest THEN @ \cup {type}
                                   ELSE IF ends THEN @ \ {type} ELSE @]
        new == IF ends THEN <<type>> ELSE <<>>
    IN  /\ lines + Len(new) + Cardinality(h.partial) <= MaxLines
        /\ \E s \in NextLines(new) : Done(l, AddEntries(Turn(h), s))
        /\ lines' = lines + Len(new)
        /\ UNCHANGED <<current, phase, calls, file, failed, cleared, owed>>

\* The handlers of 'process:stdout' and 'process:stderr'.
Output(type) ==
    /\ current # NoLogger
    /\ \E ends, rest \in BOOLEAN : Capture(current, type, ends, rest)

\* AppLogger.close(): the partial lines, then the flush it awaits.  The other
\* loggers are as in `rest'.
Close(l, rest) ==
    /\ \E t \in PartialLines(logger[l]) :
        /\ logger' = [rest EXCEPT ![l] = Flush(t).g]
        /\ appends' = appends \cup Flush(t).batches
        /\ warned' = warned \cup t.refused
        /\ calls' = calls \cup {[kind |-> "close", of |-> l,
                                 due |-> IdsOf(t.g.buffer)]}
    /\ lines' = lines + Cardinality(logger[l].partial)

\* setupAppLogs: the logger that is replaced is closed, which nobody awaits.
SetupAppLogs(l, split) ==
    LET rest == [logger EXCEPT ![l].used = TRUE, ![l].split = split] IN
    /\ phase = "open"
    /\ ~logger[l].used
    /\ current' = l
    /\ \/ current = NoLogger /\ logger' = rest
          /\ UNCHANGED <<calls, appends, lines, warned>>
       \/ current # NoLogger /\ Close(current, rest)
    /\ UNCHANGED <<phase, file, failed, cleared, owed>>

\* The handler of 'process:started': an application that has no logger gets
\* one, with one file.
Started(l) == current = NoLogger /\ SetupAppLogs(l, FALSE)

\* loadConfig: applications with log files of their own get a new one.
Load(l) == \E split \in BOOLEAN : SetupAppLogs(l, split)

\* flushTimer.
FlushTimer(l) ==
    /\ logger[l].timer
    /\ Done(l, Flush(Turn(logger[l])))
    /\ UNCHANGED <<current, phase, calls, file, lines, failed, cleared, owed>>

\* flushBuffer() awaits a flush ...
FlushBuffer ==
    LET g == logger[current] IN
    /\ current # NoLogger
    /\ \A c \in calls : c.kind # "flush"
    /\ Done(current, Flush(Turn(g)))
    /\ calls' = calls \cup {[kind |-> "flush", of |-> current,
                             due |-> IdsOf(g.buffer)]}
    /\ UNCHANGED <<current, phase, file, lines, failed, cleared, owed>>

\* ... and then turns the partial lines into entries.
FlushBufferEnd(c) ==
    /\ c.kind = "flush" /\ c.due \cap InFlight = {}
    /\ \E t \in PartialLines(logger[c.of]) : Done(c.of, t)
    /\ lines' = lines + Cardinality(logger[c.of].partial)
    /\ calls' = calls \ {c}
    /\ UNCHANGED <<current, phase, file, failed, cleared, owed>>

\* Mutant of CloseEnd: the flush of cleanup() is not awaited.
CloseEndEarly(c) ==
    /\ c.kind = "close"
    /\ calls' = calls \ {c}
    /\ logger' = [logger EXCEPT ![c.of].timer = FALSE]
    /\ UNCHANGED <<current, phase, appends, file, lines, warned, failed,
                   cleared, owed>>

\* The rest of LogBuffer.cleanup(): the timer is cleared, whatever has been
\* buffered during the await.
CloseEnd(c) ==
    /\ c.kind = "close" /\ c.due \cap InFlight = {}
    /\ calls' = calls \ {c}
    /\ logger' = [logger EXCEPT ![c.of].timer = FALSE]
    /\ UNCHANGED <<current, phase, appends, file, lines, warned, failed,
                   cleared, owed>>

-----------------------------------------------------------------------------
(***************************************************************************)
(* FileManager, and the rest of LogManager.                                *)
(***************************************************************************)

Copies(a) == [i \in 1..Len(a.lines) |-> [id |-> a.lines[i].id, try |-> a.try]]

\* writeToFileWithRetry: the append succeeds.
AppendDone(a) ==
    /\ file' = [file EXCEPT ![a.file] = @ \o Copies(a)]
    /\ appends' = appends \ {a}
    /\ UNCHANGED <<logger, current, phase, calls, lines, warned, failed,
                   cleared, owed>>

\* Mutant of AppendFails: the last failure is not reported.
AppendFailsSilent(a) ==
    /\ UNCHANGED file
    /\ appends' = (appends \ {a}) \cup
                    (IF a.try < MaxRetries THEN {[a EXCEPT !.try = @ + 1]} ELSE {})
    /\ UNCHANGED <<logger, current, phase, calls, lines, warned, failed,
                   cleared, owed>>

\* It fails, and may have written a part before.  After the last attempt an
\* event reports the loss: 'diskSpaceError', or 'error', which throws when
\* nobody listens to it, an exception that allSettled swallows.
AppendFails(a) ==
    /\ \E n \in 0..(Len(a.lines) - 1) :
        file' = [file EXCEPT ![a.file] = @ \o SubSeq(Copies(a), 1, n)]
    /\ \/ /\ a.try < MaxRetries
          /\ appends' = (appends \ {a}) \cup {[a EXCEPT !.try = @ + 1]}
          /\ UNCHANGED failed
       \/ /\ a.try = MaxRetries
          /\ appends' = appends \ {a}
          /\ failed' = failed \cup IdsOf(a.lines)
    /\ UNCHANGED <<logger, current, phase, calls, lines, warned, cleared, owed>>

\* clearLogs: the files of the current logger are emptied.  What is buffered or
\* on its way to them comes later.
ClearLogs ==
    LET mine == IF logger[current].split THEN Streams ELSE {"log"} IN
    /\ current # NoLogger
    /\ file' = [f \in Files |-> IF f \in mine THEN <<>> ELSE file[f]]
    /\ cleared' = cleared \cup UNION {IdsOf(file[f]) : f \in mine}
    /\ UNCHANGED <<logger, current, phase, calls, appends, lines, warned,
                   failed, owed>>

\* LogManager.close().
CloseAll ==
    /\ phase = "open"
    /\ phase' = "closing"
    /\ \/ /\ current = NoLogger
          /\ UNCHANGED <<logger, calls, appends, lines, warned, owed>>
       \/ /\ current # NoLogger
          /\ Close(current, logger)
          /\ owed' = UNION {c.due : c \in calls' \ calls}
    /\ UNCHANGED <<current, file, failed, cleared>>

\* The loggers of all applications are closed, one after the other.
CloseAllEnd ==
    /\ phase = "closing"
    /\ \A c \in calls : c.kind = "close" => c.of # current
    /\ phase' = "closed"
    /\ current' = NoLogger
    /\ UNCHANGED <<logger, calls, appends, file, lines, warned, failed,
                   cleared, owed>>

Next ==
    \/ \E type \in Streams : Output(type)
    \/ \E l \in Loggers : Started(l) \/ Load(l) \/ FlushTimer(l)
    \/ FlushBuffer
    \/ \E c \in calls : FlushBufferEnd(c) \/ CloseEnd(c)
    \/ \E a \in appends : AppendDone(a) \/ AppendFails(a)
    \/ ClearLogs \/ CloseAll \/ CloseAllEnd

\* Timers fire, and the file system answers, with success or an error.
Fairness ==
    /\ \A l \in Loggers : WF_vars(FlushTimer(l))
    /\ \A n \in Ids : WF_vars(\E a \in appends :
            n \in IdsOf(a.lines) /\ (AppendDone(a) \/ AppendFails(a)))

SafeSpec == Init /\ [][Next]_vars

Spec == SafeSpec /\ Fairness

-----------------------------------------------------------------------------
(***************************************************************************)
(* Properties.                                                             *)
(***************************************************************************)

\* A logger that close() was called on.
Shut(l) == logger[l].used /\ (l # current \/ phase # "open")

\* An open logger has a flush timer exactly while it has something to flush:
\* otherwise lines would wait in the buffer, and a logger under backpressure
\* would refuse all output, for ever.  addEntry, flush and cleanup each set or
\* clear the timer.
TimerArmed ==
    \A l \in Loggers :
        ~Shut(l) => (logger[l].timer <=> logger[l].buffer # <<>>)

\* A line is in the files once for each attempt to append it: a second copy
\* comes from a retry after an append that failed half-way, never from two
\* flushes that run at the same time.
NotRepeated ==
    \A f, g \in Files : \A i \in DOMAIN file[f], j \in DOMAIN file[g] :
        file[f][i] = file[g][j] => f = g /\ i = j

\* When LogManager.close() resolves, the lines it found in the buffer have been
\* written or reported, so that the daemon may exit: every await counts, from
\* the append up to the flush of cleanup().  (What an earlier flush is still
\* writing, one that a partial line brought about included, or came during the
\* close, may be lost.)
CloseFlushes == phase = "closed" => owed \cap InFlight = {}

\* Where each line is.
Buffers(ls) == UNION {IdsOf(logger[l].buffer) : l \in ls}

OnFile == UNION {{file[f][i].id : i \in DOMAIN file[f]} : f \in Files}

Fate(n) ==
    IF n > lines THEN "none"
    ELSE IF n \in warned THEN "refused"
    ELSE IF n \in Buffers({l \in Loggers : Shut(l)}) THEN "late"
    ELSE IF n \in InFlight \cup Buffers(Loggers) THEN "accepted"
    ELSE IF n \in failed THEN "failed"
    ELSE IF n \in OnFile THEN "written"
    ELSE IF n \in cleared THEN "cleared"
    ELSE "lost"

Sink == INSTANCE LogSink WITH Lines <- Ids, fate <- [n \in Ids |-> Fate(n)]

\* Every line of output is refused with a warning, written, or lost with an
\* error event, whatever flushes overlap, fail or are interrupted by a clear,
\* a reload or a close.
ImplementsLogSink == Sink!Spec
=============================================================================
