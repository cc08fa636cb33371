------------------------------ MODULE LogSink ------------------------------
(***************************************************************************)
(* What the log manager promises for a line of output it was given: it is  *)
(* refused at once, or accepted; an accepted line ends in the log, or its  *)
(* loss is reported; what is in the log stays until the log is cleared.    *)
(* Nothing is promised for a line that comes late, while the manager is    *)
(* being closed.                                                           *)
(***************************************************************************)

CONSTANT Lines

VARIABLE fate       \* Lines -> what has become of the line

Fates == {"none", "refused", "accepted", "late", "written", "failed", "cleared"}

\* The steps of one line.
Moves ==
    {<<"none", "refused">>, <<"none", "accepted">>,
     <<"none", "late">>, <<"late", "accepted">>,
     <<"accepted", "written">>, <<"accepted", "failed">>,
     <<"written", "cleared">>}

Init == fate = [n \in Lines |-> "none"]

\* Some lines move on together: a batch that is written, a log that is cleared.
Next ==
    /\ fate' \in [Lines -> Fates]
    /\ \A n \in Lines : fate[n] # fate'[n] => <<fate[n], fate'[n]>> \in Moves

\* An accepted line is settled.
Settled == \A n \in Lines : fate[n] = "accepted" ~> fate[n] # "accepted"

SafeSpec == Init /\ [][Next]_fate

Spec == SafeSpec /\ Settled
=============================================================================
