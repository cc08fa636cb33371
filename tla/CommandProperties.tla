-------------------------- MODULE CommandProperties --------------------------
(***************************************************************************)
(* What the algorithms that commands use have to do.  These properties are *)
(* about no state; as invariants of Commands they are evaluated once, in   *)
(* the state in which the daemon has loaded nothing yet.                   *)
(***************************************************************************)
EXTENDS Commands, CommandLine

Fresh == Known = {} /\ Init

\* What the validator accepts is applied without an error, but for log files.
ConfigsApply == Fresh => ValidatedConfigsApply

\* Normalized and merged configurations are valid.
ConfigsStayValid == Fresh => DerivedConfigsStayValid

\* resolveDependencies orders each process after its dependencies, takes nothing
\* that is on a cycle, and, of lists without repetition, leaves nothing else.
GroupsAreOrdered == Fresh => DependenciesFirst

\* The exit codes of the command line tell the truth, and its targets mean what
\* they say.
CommandLineIsTrue == Fresh => ExitCodesAreTrue /\ TargetsAreTrue
=============================================================================
