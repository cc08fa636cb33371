---------------------------- MODULE LogProperties ----------------------------
(* What the reader of log files has to do, as an invariant of Logs. *)
EXTENDS Logs, LogReader

\* TailLosesOnlyCutLines, which is about no state: it is evaluated once, where
\* the run begins.  What the reader of log files (readTailLines) loses of the
\* last lines of a file are lines that a chunk cuts in two.
ReaderLosesOnlyCutLines == Init => TailLosesOnlyCutLines
=============================================================================
