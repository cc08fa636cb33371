----------------------------- MODULE LogReader -----------------------------
(***************************************************************************)
(* How the last lines of a log file are read back: the reading half of     *)
(* src/services/app-logger.ts and log-file-manager.ts.  All of it runs in  *)
(* one turn of the event loop, on the file as it is then.                  *)
(*                                                                         *)
(* A large file is read in chunks from its end.  A chunk may begin in the  *)
(* middle of a line; the rest of that line is carried over to the chunk    *)
(* before it.                                                              *)
(***************************************************************************)
EXTENDS Naturals, Sequences, SequencesExt, FiniteSetsExt

CONSTANTS
    FileLines,      \* bound: the lines of a file
    LineLength,     \* bound: the characters of a line
    SmallFile       \* performance.smallFileThreshold

ASSUME ReaderAssumption == {FileLines, LineLength, SmallFile} \subseteq Nat \ {0}

Types == {"stdout", "stderr"}

\* Of the text of a file only this matters: where a line ends, and which line a
\* character belongs to.
Newline == 0

\* split('\n'): the parts, one character later.
Longer(parts, c) ==
    IF c = Newline THEN Append(parts, <<>>)
    ELSE [parts EXCEPT ![Len(parts)] = Append(@, c)]

Split(text) ==
    LET parts[i \in 1..Len(text) + 1] ==
            IF i = 1 THEN << <<>> >> ELSE Longer(parts[i - 1], text[i - 1])
    IN  parts[Len(text) + 1]

\* A part that is not blank goes before the lines, while they are too few.
Take(part, lines, maxLines) ==
    IF part # <<>> /\ Len(lines) < maxLines THEN <<part>> \o lines ELSE lines

\* All parts, from the last to the first.
TakeAll(parts, lines, maxLines) ==
    LET taken[i \in 1..Len(parts) + 1] ==
            IF i = 1 THEN lines
            ELSE Take(parts[Len(parts) - i + 2], taken[i - 1], maxLines)
    IN  taken[Len(parts) + 1]

-----------------------------------------------------------------------------
(***************************************************************************)
(* FileManager.                                                            *)
(***************************************************************************)

\* Mutant of ProcessBufferLines: the last part, which the chunk after this one
\* has already seen the end of, is taken for a line.
ProcessBufferLinesAll(buffer, lines, maxLines) ==
    TakeAll(Split(buffer), lines, maxLines)

\* The last part is skipped: it ends where the chunk after this one began.
ProcessBufferLines(buffer, lines, maxLines) ==
    TakeAll(Front(Split(buffer)), lines, maxLines)

ExtractPartialLine(buffer) == Head(Split(buffer))

ReadChunkBackward(text, position, chunkSize) ==
    SubSeq(text, position - Min({chunkSize, position}) + 1, position)

\* One turn of the loop of readLinesBackward.
ReadBackward(text, s, maxLines, chunkSize) ==
    IF s.position = 0 \/ Len(s.lines) >= maxLines THEN s
    ELSE LET chunk == ReadChunkBackward(text, s.position, chunkSize)
             buffer == chunk \o s.buffer
         IN  [position |-> s.position - Len(chunk),
              lines |-> ProcessBufferLines(buffer, s.lines, maxLines),
              buffer |-> ExtractPartialLine(buffer)]

\* A chunk has a character at least.
ReadLinesBackward(text, maxLines, chunkSize) ==
    LET loop[i \in 1..Len(text) + 1] ==
            IF i = 1
            THEN [position |-> Len(text), lines |-> <<>>, buffer |-> <<>>]
            ELSE ReadBackward(text, loop[i - 1], maxLines, chunkSize)
    IN  loop[Len(text) + 1].lines

\* maxLines is not 0: handleLogCommand asks for 100 lines instead.  (The slice(-0) of a
\* small file would be all of it.)
ReadTailLines(text, maxLines, chunkSize) ==
    IF Len(text) < SmallFile THEN TakeAll(Split(text), <<>>, maxLines)
    ELSE ReadLinesBackward(text, maxLines, chunkSize)

-----------------------------------------------------------------------------
(***************************************************************************)
(* AppLogger.  A log is its lines, each with a type and a length; the text *)
(* of line n is n, once for each character.                                *)
(***************************************************************************)

\* The text before each line, and that of all lines.
TextBefore(log) ==
    LET text[n \in 1..Len(log) + 1] ==
            IF n = 1 THEN <<>>
            ELSE text[n - 1] \o
                 Append([j \in 1..log[n - 1].length |-> n - 1], Newline)
    IN  text

Text(log) == TextBefore(log)[Len(log) + 1]

\* A part of a line is no JSON: it is skipped with a warning.
Entry(log, part) == Len(part) = log[part[1]].length

\* The entries found, one part later.
Parse(log, found, part, wanted) ==
    IF Entry(log, part) /\ log[part[1]].type \in wanted
    THEN Append(found, part[1]) ELSE found

ParseLogLines(log, parts, wanted) ==
    LET found[i \in 1..Len(parts) + 1] ==
            IF i = 1 THEN <<>>
            ELSE Parse(log, found[i - 1], parts[i - 1], wanted)
    IN  found[Len(parts) + 1]

ReadLogs(log, maxLines, wanted, chunkSize) ==
    ParseLogLines(log, ReadTailLines(Text(log), maxLines, chunkSize), wanted)

-----------------------------------------------------------------------------
\* The offset at which line n begins.
Offset(log, n) == Len(TextBefore(log)[n])

\* A chunk begins inside line n, or at its newline.
Cut(log, n, chunkSize) ==
    \E b \in (Offset(log, n) + 1)..(Offset(log, n) + log[n].length) :
        (Len(Text(log)) - b) % chunkSize = 0

BoundedLogs ==
    UNION {[1..n -> [type : Types, length : 1..LineLength]] : n \in 0..FileLines}

\* The reader returns lines of the file in their order, each once, of the types
\* asked for.  All that it loses of the last lines are those that a chunk of a
\* large file cuts in two: the code that carries a piece over never completes
\* the line.
LosesOnlyCutLines(log, maxLines, wanted, chunkSize) ==
    LET got == ReadLogs(log, maxLines, wanted, chunkSize)
        last == {n \in 1..Len(log) : n + maxLines > Len(log)}
        large == Len(Text(log)) >= SmallFile
    IN  /\ \A i, j \in 1..Len(got) : i < j => got[i] < got[j]
        /\ \A i \in 1..Len(got) : log[got[i]].type \in wanted
        /\ \A n \in last : log[n].type \in wanted =>
               n \in ToSet(got) \/ (large /\ Cut(log, n, chunkSize))

\* It does so for every small log, limit and chunk size.
TailLosesOnlyCutLines ==
    \A log \in BoundedLogs, maxLines, chunkSize \in 1..(FileLines + 1),
       wanted \in {Types, {"stdout"}} :
        LosesOnlyCutLines(log, maxLines, wanted, chunkSize)
=============================================================================
