---------------------------- MODULE ProcessGroups ----------------------------
(***************************************************************************)
(* Groups of processes: src/process-manager/process-group-manager.ts.      *)
(* A batch is one operation on each process of a group, all at once; a     *)
(* group is a namespace or the targets of a command.  Dependencies give    *)
(* the order in which the levels of a group are to be started; nothing     *)
(* but a caller that asks for that order heeds it.                         *)
(***************************************************************************)
EXTENDS Naturals, Sequences, SequencesExt, FiniteSets

CONSTANT Members    \* bound: the processes of a group with dependencies

ASSUME MembersAssumption == IsFiniteSet(Members)

\* getProcessNamesByNamespace, over the namespaces of the known processes.
InNamespace(space, n) == {p \in DOMAIN space : space[p] = n}

Means(space, t, p) ==
    IF t.kind = "name" THEN p = t.of ELSE p \in InNamespace(space, t.of)

\* resolveTargetProcesses, on the daemon's side: how often each process is meant,
\* by names and by namespaces; without targets, all known processes are, once.
ResolveTargets(space, known, targets) ==
    [p \in DOMAIN space |->
        IF targets # <<>>
        THEN Cardinality({i \in DOMAIN targets : Means(space, targets[i], p)})
        ELSE IF p \in known THEN 1 ELSE 0]

\* The processes that are meant at all.
Meant(times) == {p \in DOMAIN times : times[p] > 0}

-----------------------------------------------------------------------------
(***************************************************************************)
(* resolveDependencies.  dependsOn[n] lists what n depends on.             *)
(***************************************************************************)

\* inDegree: a dependency that is listed twice counts twice.
InDegree(dependsOn, names, n) ==
    Cardinality({i \in DOMAIN dependsOn[n] : dependsOn[n][i] \in names})

\* Mutant of NextLevel: one dependency that has been started will do.
NextLevelOfAny(dependsOn, names, visited) ==
    {n \in names \ visited : ToSet(dependsOn[n]) \cap visited # {}}

\* The nodes whose degree comes to 0 once every visited node has taken its one
\* edge away.
NextLevel(dependsOn, names, visited) ==
    {n \in names \ visited :
        InDegree(dependsOn, names, n) = Cardinality(ToSet(dependsOn[n]) \cap visited)}

\* visited, before each level is taken.
Visited(dependsOn, names) ==
    LET visited[i \in 1..Cardinality(names) + 1] ==
            IF i = 1 THEN {}
            ELSE visited[i - 1] \cup NextLevel(dependsOn, names, visited[i - 1])
    IN  visited

\* startupOrder: level after level, until one is empty.
StartupOrder(dependsOn, names) ==
    LET visited == Visited(dependsOn, names)
        Level(i) == NextLevel(dependsOn, names, visited[i])
    IN  [i \in 1..Min({k \in DOMAIN visited : Level(k) = {}}) - 1 |-> Level(i)]

\* What no level could take.
Circular(dependsOn, names) ==
    names \ UNION ToSet(StartupOrder(dependsOn, names))

-----------------------------------------------------------------------------
\* The pairs <<n, d>> in which n depends on d.
Depends(dependsOn, names) ==
    {e \in names \X names : e[2] \in ToSet(dependsOn[e[1]])}

Doubled(dependsOn, names, n) ==
    Cardinality(ToSet(dependsOn[n]) \cap names) < InDegree(dependsOn, names, n)

\* The processes on a cycle, and those that depend on one of them: the largest
\* set in which each process depends on another of the set.
Cyclic(dependsOn, names) ==
    UNION {s \in SUBSET names :
            \A n \in s : \E d \in s : <<n, d>> \in Depends(dependsOn, names)}

\* The startup order of names holds no process twice, each one after all that it
\* depends on and as early as that allows, and none that a cycle holds up; where
\* no process lists a dependency twice, it holds all the others.
Ordered(dependsOn, names) ==
    LET order == StartupOrder(dependsOn, names)
        Level(n) == CHOOSE i \in 1..Len(order) : n \in order[i]
    IN  /\ Cyclic(dependsOn, names) \subseteq Circular(dependsOn, names)
        /\ (\A n \in names : ~Doubled(dependsOn, names, n)) =>
                Circular(dependsOn, names) \subseteq Cyclic(dependsOn, names)
        /\ \A i, j \in 1..Len(order) : i # j => order[i] \cap order[j] = {}
        /\ \A e \in Depends(dependsOn, names) :
            e[1] \notin Circular(dependsOn, names) => Level(e[2]) < Level(e[1])
        /\ \A i \in 2..Len(order) : \A n \in order[i] :
            \E d \in order[i - 1] : <<n, d>> \in Depends(dependsOn, names)

BoundedLists == UNION {[1..k -> Members] : k \in 0..2}

\* Every group is ordered so, whatever its processes depend on.
DependenciesFirst ==
    \A dependsOn \in [Members -> BoundedLists], names \in SUBSET Members :
        Ordered(dependsOn, names)
=============================================================================
