----------------------------- MODULE MCCommands -----------------------------
(* Commands, and the algorithms they use, on small sets. *)
EXTENDS CommandProperties

MCProcs == {"a", "b"}

App(n, space, log) ==
    [GoodApp(n) EXCEPT !.namespace = space, !.log_file = log]

\* One process; two, the logs of the first in order, those of the second refused;
\* an invalid configuration.
MCContents ==
    <<<<App("a", "absent", "absent")>>,
      <<App("a", "other", "inside"), App("b", "other", "absolute")>>,
      <<App("a", "absent", "parent")>>>>

Named(n) == [kind |-> "name", of |-> n]

Space(n) == [kind |-> "space", of |-> n]

\* One process that is named twice; one that may not be there, and a namespace.
MCTargetLists == {<<Named("b"), Named("b")>>, <<Named("b"), Space("default")>>}
=============================================================================
