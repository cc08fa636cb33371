--------------------------- MODULE CommandsProofs ---------------------------
(***************************************************************************)
(* Proofs about Commands, for any number of processes, commands and        *)
(* contents of the configuration files: types; that the operations on a    *)
(* process run one at a time; that whoever is asked to stop has stopped    *)
(* when the command goes on; that what the validator accepts is applied;   *)
(* that every group is ordered by its dependencies; and that the command   *)
(* line tells the truth.                                                   *)
(***************************************************************************)
EXTENDS CommandProperties, SequenceTheorems, FiniteSetTheorems,
        WellFoundedInduction, TLAPS

\* The first operation in a line takes a step.
Advanced(line, step) == [line EXCEPT ![1].step = step]

\* The operations of a command that are not over, in a line.
Joined(line, c) == \E i \in 1..Len(line) : line[i].by = c

\* A command still has a process to stop, in its line.
ToStop(line, c) ==
    \E i \in 1..Len(line) : line[i].by = c /\ line[i].step \in {"stop", "stopping"}

\* The status is that of an operation under way.
Shows(shown, step) == \A s \in {"starting", "stopping"} : shown = s <=> step = s

\* The status of a process is that of its first operation, while this one is
\* under way; the others have not begun.
InOrder(line, shown) ==
    /\ \A step \in {"starting", "stopping"} :
            shown = step <=> line # <<>> /\ line[1].step = step
    /\ \A i \in 2..Len(line) : line[i].step \in {"start", "stop"}

\* The operations on a process, of all commands and timers, run one at a time:
\* it is "starting" or "stopping" exactly while the operation that has the lock
\* is, and no other has begun, be it of the same command, whose targets may mean
\* a process twice.
OneAtATime == \A p \in Procs : InOrder(queue[p], status[p])

DownIsDead == \A p \in Procs : status[p] \in S!Down => live[p] = {}

\* A command that is not waiting has no operation in any line.
AnsweredIsSettled ==
    \A c \in Calls : calls[c].phase # "waiting" =>
        calls[c].living = {} /\ \A p \in Procs : ~Joined(queue[p], c)

\* Whoever a command waits for, a child of its own time, it has still to stop.
LivingIsAwaited ==
    \A c \in Calls : \A p \in calls[c].living :
        live[p] # {} /\ ToStop(queue[p], c)

\* What a load applies has been validated.
HasLoaded(m) == m.phase = "applying" \/ (m.phase = "waiting" /\ m.kind = "load")

AppliesValid ==
    \A c \in Calls : HasLoaded(calls[c]) => calls[c].content \in ValidContents

CommandsInv ==
    /\ TypeOK /\ OneAtATime /\ DownIsDead
    /\ AnsweredIsSettled /\ LivingIsAwaited /\ AppliesValid

-----------------------------------------------------------------------------
(***************************************************************************)
(* Lines.                                                                  *)
(***************************************************************************)

\* An operation, n times, at the end of a line.
Lengthened(line, op, n) == line \o [i \in 1..n |-> op]

LEMMA LongerLine ==
    ASSUME NEW line \in Seq(Operation), NEW op \in Operation, NEW n \in Nat,
           NEW new, new = Lengthened(line, op, n)
    PROVE  /\ new \in Seq(Operation)
           /\ Len(line) \in Nat /\ Len(new) = Len(line) + n
           /\ \A i \in 1..Len(line) : new[i] = line[i]
           /\ \A i \in (Len(line) + 1)..Len(new) : new[i] = op
<1>1. PICK ops : ops = [i \in 1..n |-> op]
  OBVIOUS
<1>2. ops \in [1..n -> Operation] /\ \A i \in 1..n : ops[i] = op
  BY <1>1
<1>3. ops \in Seq(Operation) /\ DOMAIN ops = 1..n
  BY <1>2, SeqDef
<1>4. Len(ops) = n
  BY <1>3, LenProperties
<1>5. new = line \o ops
  BY <1>1 DEF Lengthened
<1>6. /\ new \in Seq(Operation) /\ Len(new) = Len(line) + n
      /\ \A i \in 1..(Len(line) + n) :
            new[i] = IF i <= Len(line) THEN line[i] ELSE ops[i - Len(line)]
  <2>1. /\ line \o ops \in Seq(Operation) /\ Len(line \o ops) = Len(line) + Len(ops)
        /\ \A i \in 1..(Len(line) + Len(ops)) : (line \o ops)[i] =
              IF i <= Len(line) THEN line[i] ELSE ops[i - Len(line)]
    BY <1>3, ConcatProperties
  <2> QED
    BY <1>4, <1>5, <2>1
<1>7. Len(line) \in Nat
  BY LenProperties
<1>8. ASSUME NEW i \in (Len(line) + 1)..Len(new)
      PROVE  new[i] = op
  <2>1. i - Len(line) \in 1..n /\ i \in 1..(Len(line) + n) /\ ~(i <= Len(line))
    BY <1>6, <1>7
  <2> QED
    BY <1>2, <1>6, <2>1
<1> QED
  BY <1>6, <1>7, <1>8

LEMMA TailLine ==
    ASSUME NEW line \in Seq(Operation), line # <<>>
    PROVE  /\ Tail(line) \in Seq(Operation)
           /\ Len(line) \in Nat \ {0} /\ Len(Tail(line)) = Len(line) - 1
           /\ \A i \in 1..Len(Tail(line)) : Tail(line)[i] = line[i + 1]
  OBVIOUS

LEMMA StepLine ==
    ASSUME NEW line \in Seq(Operation), line # <<>>,
           NEW step \in {"stop", "stopping", "start", "starting"},
           NEW new, new = Advanced(line, step)
    PROVE  /\ new \in Seq(Operation) /\ Len(new) = Len(line) /\ Len(line) \in Nat \ {0}
           /\ new # <<>>
           /\ new[1].step = step /\ new[1].by = line[1].by
           /\ \A i \in 2..Len(line) : new[i] = line[i]
<1>1. PICK op : op = [line[1] EXCEPT !.step = step]
  OBVIOUS
<1>2. line[1] \in Operation /\ Len(line) \in Nat \ {0}
  OBVIOUS
<1>3. op \in Operation /\ op.step = step /\ op.by = line[1].by
  BY <1>1, <1>2 DEF Operation
<1>4. new = [line EXCEPT ![1] = op]
  BY <1>1 DEF Advanced
<1>5. new \in Seq(Operation) /\ Len(new) = Len(line) /\ new[1] = op
      /\ \A i \in 2..Len(line) : new[i] = line[i]
  BY <1>2, <1>3, <1>4
<1> QED
  BY <1>2, <1>3, <1>5

LEMMA NoLonger ==
    ASSUME NEW line \in Seq(Operation), NEW op \in Operation
    PROVE  Lengthened(line, op, 0) = line
<1>1. PICK new : new = Lengthened(line, op, 0)
  OBVIOUS
<1>2. /\ new \in Seq(Operation) /\ Len(line) \in Nat /\ Len(new) = Len(line)
      /\ \A i \in 1..Len(line) : new[i] = line[i]
  BY <1>1, LongerLine
<1> QED
  BY <1>1, <1>2, SeqEqual

\* What becomes of a line that an operation joins, n times.
Joining(line, new, op, n, shown) ==
    /\ new \in Seq(Operation) /\ InOrder(new, shown)
    /\ \A c : ToStop(line, c) => ToStop(new, c)
    /\ \A c : Joined(new, c) => Joined(line, c) \/ (c = op.by /\ n > 0)
    /\ op.step = "stop" /\ n > 0 => ToStop(new, op.by)

LEMMA Joins ==
    ASSUME NEW line \in Seq(Operation), NEW op \in Operation, NEW n \in Nat,
           NEW shown, op.step \in {"start", "stop"}, InOrder(line, shown)
    PROVE  Joining(line, Lengthened(line, op, n), op, n, shown)
<1> SUFFICES ASSUME NEW new, new = Lengthened(line, op, n)
             PROVE  Joining(line, new, op, n, shown)
  OBVIOUS
<1>1. /\ new \in Seq(Operation) /\ Len(line) \in Nat /\ Len(new) = Len(line) + n
      /\ \A i \in 1..Len(line) : new[i] = line[i]
      /\ \A i \in (Len(line) + 1)..Len(new) : new[i] = op
  BY LongerLine
<1>2. \A i \in 1..Len(new) : i \in 1..Len(line) \/ i \in (Len(line) + 1)..Len(new)
  BY <1>1
<1>3. (new = <<>> <=> Len(new) = 0) /\ (line = <<>> <=> Len(line) = 0)
  BY <1>1
<1>4. InOrder(new, shown)
  <2>1. ASSUME NEW i \in 2..Len(new)
        PROVE  new[i].step \in {"start", "stop"}
    <3>1. i \in 1..Len(new) /\ (i \in 1..Len(line) => i \in 2..Len(line))
      BY <1>1
    <3> QED
      BY <1>1, <1>2, <3>1 DEF InOrder
  <2>2. CASE Len(line) > 0
    <3>1. line # <<>> /\ new # <<>> /\ new[1] = line[1]
      BY <1>1, <1>3, <2>2
    <3> QED
      BY <2>1, <3>1 DEF InOrder
  <2>3. CASE Len(line) = 0
    <3>1. line = <<>> /\ (new # <<>> => new[1] = op)
      BY <1>1, <1>3, <2>3
    <3> QED
      BY <2>1, <3>1 DEF InOrder
  <2> QED
    BY <1>1, <2>2, <2>3
<1>5. \A c : ToStop(line, c) => ToStop(new, c)
  <2>1. \A i \in 1..Len(line) : i \in 1..Len(new)
    BY <1>1
  <2> QED
    BY <1>1, <2>1 DEF ToStop
<1>6. \A c : Joined(new, c) => Joined(line, c) \/ (c = op.by /\ n > 0)
  <2>1. \A i \in (Len(line) + 1)..Len(new) : n > 0
    BY <1>1
  <2> QED
    BY <1>1, <1>2, <2>1 DEF Joined
<1>7. op.step = "stop" /\ n > 0 => ToStop(new, op.by)
  <2>1. n > 0 => Len(new) \in 1..Len(new) /\ Len(new) \in (Len(line) + 1)..Len(new)
    BY <1>1
  <2> QED
    BY <1>1, <2>1 DEF ToStop
<1> QED
  BY <1>1, <1>4, <1>5, <1>6, <1>7 DEF Joining

\* The first operation leaves; it was not one to stop for c.
LEMMA Leaves ==
    ASSUME NEW line \in Seq(Operation), line # <<>>, NEW shown, NEW was,
           InOrder(line, was), shown \notin {"starting", "stopping"}
    PROVE  /\ Tail(line) \in Seq(Operation)
           /\ InOrder(Tail(line), shown)
           /\ \A c : Joined(Tail(line), c) => Joined(line, c)
           /\ \A c : ToStop(line, c) =>
                \/ ToStop(Tail(line), c)
                \/ c = line[1].by /\ line[1].step \in {"stop", "stopping"}
<1>1. PICK new : new = Tail(line)
  OBVIOUS
<1>2. /\ new \in Seq(Operation) /\ Len(line) \in Nat \ {0} /\ Len(new) = Len(line) - 1
      /\ \A i \in 1..Len(new) : new[i] = line[i + 1]
  BY <1>1, TailLine
<1>3. new # <<>> => 1 \in 1..Len(new)
  BY <1>2
<1>4. \A i \in 1..Len(new) : i + 1 \in 2..Len(line) /\ i + 1 \in 1..Len(line)
  BY <1>2
<1>5. InOrder(new, shown)
  BY <1>2, <1>3, <1>4 DEF InOrder
<1>6. \A c : Joined(new, c) => Joined(line, c)
  BY <1>2, <1>4 DEF Joined
<1>7. ASSUME NEW c, ToStop(line, c)
      PROVE  ToStop(new, c) \/ (c = line[1].by /\ line[1].step \in {"stop", "stopping"})
  <2>1. PICK i \in 1..Len(line) : line[i].by = c /\ line[i].step \in {"stop", "stopping"}
    BY <1>7 DEF ToStop
  <2>2. CASE i = 1
    BY <2>1, <2>2
  <2>3. CASE i # 1
    <3>1. PICK j : j = i - 1
      OBVIOUS
    <3>2. j \in 1..Len(new) /\ j + 1 = i
      BY <1>2, <2>1, <2>3, <3>1
    <3>3. new[j] = line[i]
      BY <1>2, <3>2
    <3> QED
      BY <2>1, <3>2, <3>3 DEF ToStop
  <2> QED
    BY <2>2, <2>3
<1> QED
  BY <1>1, <1>2, <1>5, <1>6, <1>7

\* The first operation takes a step.
LEMMA Advances ==
    ASSUME NEW line \in Seq(Operation), line # <<>>, NEW was, InOrder(line, was),
           NEW step \in {"stop", "stopping", "start", "starting"},
           NEW shown, Shows(shown, step),
           NEW new, new = Advanced(line, step)
    PROVE  /\ new \in Seq(Operation)
           /\ InOrder(new, shown)
           /\ \A c : Joined(new, c) => Joined(line, c)
           /\ \A c : ToStop(line, c) =>
                \/ ToStop(new, c)
                \/ c = line[1].by /\ step \notin {"stop", "stopping"}
<1>1. /\ new \in Seq(Operation) /\ Len(new) = Len(line) /\ Len(line) \in Nat \ {0}
      /\ new # <<>>
      /\ new[1].step = step /\ new[1].by = line[1].by
      /\ \A i \in 2..Len(line) : new[i] = line[i]
  BY StepLine
<1>2. \A i \in 1..Len(line) : i = 1 \/ i \in 2..Len(line)
  BY <1>1
<1>3. \A i \in 1..Len(line) : new[i].by = line[i].by
  BY <1>1, <1>2
<1>4. InOrder(new, shown)
  BY <1>1 DEF InOrder, Shows
<1>5. \A c : Joined(new, c) => Joined(line, c)
  BY <1>1, <1>3 DEF Joined
<1>6. ASSUME NEW c, ToStop(line, c)
      PROVE  ToStop(new, c) \/ (c = line[1].by /\ step \notin {"stop", "stopping"})
  <2>1. PICK i \in 1..Len(line) : line[i].by = c /\ line[i].step \in {"stop", "stopping"}
    BY <1>6 DEF ToStop
  <2>2. CASE i = 1
    BY <1>1, <2>1, <2>2 DEF ToStop
  <2>3. CASE i # 1
    <3>1. i \in 2..Len(line) /\ new[i] = line[i]
      BY <1>1, <1>2, <2>1, <2>3
    <3> QED
      BY <1>1, <2>1, <3>1 DEF ToStop
  <2> QED
    BY <2>2, <2>3
<1> QED
  BY <1>1, <1>4, <1>5, <1>6

-----------------------------------------------------------------------------
(***************************************************************************)
(* A step of one process.                                                  *)
(***************************************************************************)

\* Of what commands know, at most that this child of theirs lives is forgotten.
Forgets(p) ==
    /\ calls' \in [Calls -> Command]
    /\ \A c \in Calls :
          /\ calls'[c].phase = calls[c].phase /\ calls'[c].kind = calls[c].kind
          /\ calls'[c].content = calls[c].content
          /\ calls'[c].living \subseteq calls[c].living
          /\ calls[c].living \subseteq calls'[c].living \cup {p}

LEMMA NothingForgotten ==
    ASSUME TypeOK, NEW p, UNCHANGED calls
    PROVE  Forgets(p)
  BY DEF TypeOK, Forgets

LEMMA OneForgets ==
    ASSUME TypeOK, NEW p \in Procs, NEW c \in Calls,
           calls' = [calls EXCEPT ![c].living = @ \ {p}]
    PROVE  Forgets(p) /\ p \notin calls'[c].living
<1>1. calls \in [Calls -> Command] /\ calls[c] \in Command
  BY DEF TypeOK
<1>2. PICK m : m = [calls[c] EXCEPT !.living = @ \ {p}]
  OBVIOUS
<1>3. m \in Command
  BY <1>1, <1>2 DEF Command
<1>4. /\ m.phase = calls[c].phase /\ m.kind = calls[c].kind
      /\ m.content = calls[c].content /\ m.living = calls[c].living \ {p}
  BY <1>1, <1>2 DEF Command
<1>5. calls' = [calls EXCEPT ![c] = m]
  BY <1>2
<1>6. /\ calls' \in [Calls -> Command] /\ calls'[c] = m
      /\ \A d \in Calls \ {c} : calls'[d] = calls[d]
  BY <1>1, <1>3, <1>5
<1> QED
  BY <1>4, <1>6 DEF Forgets

LEMMA AllForget ==
    ASSUME TypeOK, NEW p \in Procs,
           calls' = [c \in Calls |-> [calls[c] EXCEPT !.living = @ \ {p}]]
    PROVE  Forgets(p) /\ \A c \in Calls : p \notin calls'[c].living
<1>1. ASSUME NEW c \in Calls
      PROVE  /\ calls'[c] \in Command
             /\ calls'[c].phase = calls[c].phase /\ calls'[c].kind = calls[c].kind
             /\ calls'[c].content = calls[c].content
             /\ calls'[c].living = calls[c].living \ {p}
  <2>1. calls[c] \in Command /\ calls'[c] = [calls[c] EXCEPT !.living = @ \ {p}]
    BY DEF TypeOK
  <2> QED
    BY <2>1 DEF Command
<1>2. calls' = [c \in Calls |-> calls'[c]]
  OBVIOUS
<1> QED
  BY <1>1, <1>2 DEF Forgets

\* What a step of a process must not do, to its line and to its child.
LEMMA LineMoves ==
    ASSUME CommandsInv, NEW p \in Procs, NEW line \in Seq(Operation),
           UNCHANGED <<info, cache>>, timers' \in [Procs -> Nat],
           queue' = [queue EXCEPT ![p] = line],
           status' \in [Procs -> S!Statuses], live' \in [Procs -> SUBSET {1}],
           \A q \in Procs \ {p} : status'[q] = status[q] /\ live'[q] = live[q],
           status'[p] \in S!Down => live'[p] = {},
           InOrder(line, status'[p]),
           \A c \in Calls : Joined(line, c) => Joined(queue[p], c),
           Forgets(p),
           \A c \in Calls : p \in calls'[c].living =>
                live'[p] # {} /\ ToStop(line, c)
    PROVE  CommandsInv'
<1>1. /\ queue' \in [Procs -> Seq(Operation)] /\ queue'[p] = line
      /\ \A q \in Procs \ {p} : queue'[q] = queue[q]
  BY DEF CommandsInv, TypeOK
<1>2. TypeOK'
  BY <1>1 DEF CommandsInv, TypeOK, Forgets, Known
<1>3. OneAtATime'
  BY <1>1 DEF CommandsInv, OneAtATime
<1>4. DownIsDead'
  BY DEF CommandsInv, DownIsDead
<1>5. AnsweredIsSettled'
  <2> SUFFICES ASSUME NEW c \in Calls, calls'[c].phase # "waiting"
               PROVE  calls'[c].living = {} /\ \A q \in Procs : ~Joined(queue'[q], c)
    BY DEF AnsweredIsSettled
  <2>1. calls[c].living = {} /\ \A q \in Procs : ~Joined(queue[q], c)
    BY DEF Forgets, CommandsInv, AnsweredIsSettled
  <2>2. calls'[c].living = {}
    BY <2>1 DEF Forgets
  <2>3. ASSUME NEW q \in Procs
        PROVE  ~Joined(queue'[q], c)
    <3>1. CASE q = p
      BY <1>1, <2>1, <3>1
    <3>2. CASE q # p
      BY <1>1, <2>1, <3>2
    <3> QED
      BY <3>1, <3>2
  <2> QED
    BY <2>2, <2>3
<1>6. LivingIsAwaited'
  <2> SUFFICES ASSUME NEW c \in Calls, NEW q \in calls'[c].living
               PROVE  live'[q] # {} /\ ToStop(queue'[q], c)
    BY DEF LivingIsAwaited
  <2>1. CASE q = p
    BY <1>1, <2>1
  <2>2. CASE q # p
    <3>1. q \in calls[c].living
      BY DEF Forgets
    <3>2. q \in Procs \ {p}
      BY <2>2, <3>1 DEF CommandsInv, TypeOK, Command
    <3> QED
      BY <1>1, <3>1, <3>2 DEF CommandsInv, LivingIsAwaited
  <2> QED
    BY <2>1, <2>2
<1>7. AppliesValid'
  BY DEF CommandsInv, AppliesValid, HasLoaded, Forgets
<1> QED
  BY <1>2, <1>3, <1>4, <1>5, <1>6, <1>7 DEF CommandsInv

-----------------------------------------------------------------------------
(***************************************************************************)
(* The first operation in a line.                                          *)
(***************************************************************************)

\* What every step of an operation on a process has in common.
Operates(p) ==
    /\ UNCHANGED <<info, cache, timers>>
    /\ status' \in [Procs -> S!Statuses] /\ live' \in [Procs -> SUBSET {1}]
    /\ \A q \in Procs \ {p} : status'[q] = status[q] /\ live'[q] = live[q]
    /\ status'[p] \in S!Down => live'[p] = {}
    /\ live[p] # {} => live'[p] # {}

\* An operation that succeeds leaves no child to stop behind; one that fails is
\* reported as failed.
LEMMA EndKeeps ==
    ASSUME CommandsInv, NEW p \in Procs, NEW ok \in BOOLEAN, queue[p] # <<>>,
           Operates(p), status'[p] \notin {"starting", "stopping"}, End(p, ok),
           ok => live[p] = {} \/ queue[p][1].step \notin {"stop", "stopping"}
    PROVE  CommandsInv'
<1>1. queue[p] \in Seq(Operation) /\ InOrder(queue[p], status[p])
  BY DEF CommandsInv, TypeOK, OneAtATime
<1>2. PICK line : line = Tail(queue[p])
  OBVIOUS
<1>3. /\ line \in Seq(Operation)
      /\ InOrder(line, status'[p])
      /\ \A c : Joined(line, c) => Joined(queue[p], c)
      /\ \A c : ToStop(queue[p], c) =>
            \/ ToStop(line, c)
            \/ c = queue[p][1].by /\ queue[p][1].step \in {"stop", "stopping"}
  BY <1>1, <1>2, Leaves
<1>4. queue' = [queue EXCEPT ![p] = line]
  BY <1>2 DEF End
<1>5. queue[p][1].by \in Calls \cup {Timer}
  <2>1. queue[p][1] \in Operation
    BY <1>1
  <2> QED
    BY <2>1 DEF Operation
<1>6. Timer \notin Calls
  BY DEF Timer, Calls
<1>7. /\ Forgets(p)
      /\ ok \/ \A c \in Calls : c = queue[p][1].by => p \notin calls'[c].living
  <2>1. CASE ok \/ queue[p][1].by = Timer
    <3>1. UNCHANGED calls
      BY <2>1 DEF End
    <3> QED
      BY <1>6, <2>1, <3>1, NothingForgotten DEF CommandsInv
  <2>2. CASE ~ok /\ queue[p][1].by # Timer
    <3>1. PICK c \in Calls : c = queue[p][1].by
      BY <1>5, <2>2
    <3>2. calls' = [calls EXCEPT ![c].living = @ \ {p}]
      BY <2>2, <3>1 DEF End
    <3>3. Forgets(p) /\ p \notin calls'[c].living
      BY <3>2, OneForgets DEF CommandsInv
    <3> QED
      BY <3>1, <3>3
  <2> QED
    BY <2>1, <2>2
<1>8. ASSUME NEW c \in Calls, p \in calls'[c].living
      PROVE  live'[p] # {} /\ ToStop(line, c)
  <2>1. p \in calls[c].living
    BY <1>7, <1>8 DEF Forgets
  <2>2. live[p] # {} /\ ToStop(queue[p], c)
    BY <2>1 DEF CommandsInv, LivingIsAwaited
  <2> QED
    BY <1>3, <1>7, <1>8, <2>2 DEF Operates
<1>9. timers' \in [Procs -> Nat]
  BY DEF Operates, CommandsInv, TypeOK
<1> QED
  BY <1>3, <1>4, <1>7, <1>8, <1>9, LineMoves DEF Operates

\* The operation goes on; a stop that is over has stopped the child.
LEMMA ToKeeps ==
    ASSUME CommandsInv, NEW p \in Procs, queue[p] # <<>>, Operates(p),
           NEW step \in {"stop", "stopping", "start", "starting"}, To(p, step),
           Shows(status'[p], step),
           step \notin {"stop", "stopping"} => live[p] = {}
    PROVE  CommandsInv'
<1>1. queue[p] \in Seq(Operation) /\ InOrder(queue[p], status[p])
  BY DEF CommandsInv, TypeOK, OneAtATime
<1>2. PICK line, shown : line = Advanced(queue[p], step) /\ shown = status'[p]
  OBVIOUS
<1>8. Shows(shown, step)
  BY <1>2
<1>3. /\ line \in Seq(Operation)
      /\ InOrder(line, shown)
      /\ \A c : Joined(line, c) => Joined(queue[p], c)
      /\ \A c : ToStop(queue[p], c) =>
            \/ ToStop(line, c)
            \/ c = queue[p][1].by /\ step \notin {"stop", "stopping"}
  BY <1>1, <1>2, <1>8, Advances
<1>4. queue' = [queue EXCEPT ![p] = line]
  BY <1>2 DEF To, Advanced
<1>5. Forgets(p)
  BY NothingForgotten DEF To, CommandsInv
<1>6. ASSUME NEW c \in Calls, p \in calls'[c].living
      PROVE  live'[p] # {} /\ ToStop(line, c)
  <2>1. p \in calls[c].living
    BY <1>6 DEF To
  <2>2. live[p] # {} /\ ToStop(queue[p], c)
    BY <2>1 DEF CommandsInv, LivingIsAwaited
  <2> QED
    BY <1>3, <2>2 DEF Operates
<1>7. timers' \in [Procs -> Nat]
  BY DEF Operates, CommandsInv, TypeOK
<1> QED
  BY <1>2, <1>3, <1>4, <1>5, <1>6, <1>7, LineMoves DEF Operates

LEMMA AfterStopKeeps ==
    ASSUME CommandsInv, NEW p \in Procs, NEW ok \in BOOLEAN, queue[p] # <<>>,
           Operates(p), status'[p] \notin {"starting", "stopping"}, AfterStop(p, ok),
           ok => live[p] = {}
    PROVE  CommandsInv'
<1>1. CASE ok /\ queue[p][1].kind = "restart"
  <2>1. To(p, "start") /\ live[p] = {}
    BY <1>1 DEF AfterStop
  <2>2. Shows(status'[p], "start")
    BY DEF Shows
  <2> QED
    BY <2>1, <2>2, ToKeeps
<1>2. CASE ~(ok /\ queue[p][1].kind = "restart")
  <2>1. End(p, ok)
    BY <1>2 DEF AfterStop
  <2> QED
    BY <2>1, EndKeeps
<1> QED
  BY <1>1, <1>2

\* Of an operation that is there: its step is shown, or it has not begun.
LEMMA DoingShows ==
    ASSUME CommandsInv, NEW p \in Procs, NEW step, Doing(p, step)
    PROVE  /\ queue[p] # <<>> /\ queue[p][1].step = step
           /\ status \in [Procs -> S!Statuses] /\ live \in [Procs -> SUBSET {1}]
           /\ status[p] \in S!Down => live[p] = {}
           /\ step \in {"starting", "stopping"} => status[p] = step
           /\ step \notin {"starting", "stopping"} =>
                status[p] \notin {"starting", "stopping"}
  BY DEF Doing, CommandsInv, TypeOK, OneAtATime, InOrder, DownIsDead

LEMMA StopOpKeeps ==
    ASSUME CommandsInv, NEW p \in Procs, StopOp(p)
    PROVE  CommandsInv'
<1>1. /\ Doing(p, "stop") /\ UNCHANGED <<info, cache, timers>>
      /\ queue[p] # <<>>
      /\ status \in [Procs -> S!Statuses] /\ live \in [Procs -> SUBSET {1}]
      /\ status[p] \in S!Down => live[p] = {}
      /\ status[p] \notin {"starting", "stopping"}
  BY DoingShows DEF StopOp
<1>2. CASE /\ p \notin Known \/ status[p] \in S!Down
           /\ AfterStop(p, p \in Known) /\ UNCHANGED <<status, live>>
  <2>1. PICK ok \in BOOLEAN : ok <=> p \in Known
    <3>1. (p \in Known) \in BOOLEAN
      OBVIOUS
    <3> QED
      BY <3>1
  <2>2. Operates(p) /\ status'[p] \notin {"starting", "stopping"}
    BY <1>1, <1>2 DEF Operates
  <2>3. AfterStop(p, ok) /\ (ok => live[p] = {})
    BY <1>1, <1>2, <2>1
  <2> QED
    BY <1>1, <2>2, <2>3, AfterStopKeeps
<1>3. CASE p \in Known /\ S!Stop(p) /\ To(p, "stopping")
  <2>1. status' = [status EXCEPT ![p] = "stopping"] /\ UNCHANGED live
    BY <1>3 DEF S!Stop
  <2>2. Operates(p) /\ Shows(status'[p], "stopping")
    BY <1>1, <2>1 DEF Operates, Shows, S!Statuses, S!Down
  <2> QED
    BY <1>1, <1>3, <2>2, ToKeeps
<1> QED
  BY <1>2, <1>3 DEF StopOp

LEMMA StopEndsKeeps ==
    ASSUME CommandsInv, NEW p \in Procs, StopEnds(p)
    PROVE  CommandsInv'
<1>1. /\ Doing(p, "stopping") /\ UNCHANGED <<info, cache, timers>>
      /\ queue[p] # <<>> /\ S!Notice(p) /\ AfterStop(p, TRUE)
      /\ status \in [Procs -> S!Statuses] /\ live \in [Procs -> SUBSET {1}]
  BY DoingShows DEF StopEnds
<1>2. live[p] = {} /\ UNCHANGED live
      /\ \/ status' = [status EXCEPT ![p] = "stopped"]
         \/ status' = [status EXCEPT ![p] = "errored"]
  BY <1>1 DEF S!Notice
<1>3. Operates(p) /\ status'[p] \notin {"starting", "stopping"}
  BY <1>1, <1>2 DEF Operates, S!Statuses, S!Down
<1> QED
  BY <1>1, <1>2, <1>3, AfterStopKeeps

LEMMA StartOpKeeps ==
    ASSUME CommandsInv, NEW p \in Procs, StartOp(p)
    PROVE  CommandsInv'
<1>1. /\ Doing(p, "start") /\ UNCHANGED <<info, cache, timers>>
      /\ queue[p] # <<>> /\ queue[p][1].step = "start"
      /\ status \in [Procs -> S!Statuses] /\ live \in [Procs -> SUBSET {1}]
      /\ status[p] \in S!Down => live[p] = {}
      /\ status[p] \notin {"starting", "stopping"}
  BY DoingShows DEF StartOp
<1>2. CASE End(p, FALSE) /\ UNCHANGED <<status, live>>
  <2>1. Operates(p) /\ status'[p] \notin {"starting", "stopping"}
    BY <1>1, <1>2 DEF Operates
  <2> QED
    BY <1>1, <1>2, <2>1, EndKeeps
<1>3. CASE p \in Known /\ S!Start(p) /\ To(p, "starting")
  <2>1. /\ live[p] = {} /\ status' = [status EXCEPT ![p] = "starting"]
        /\ \E new \in SUBSET {1} : live' = [live EXCEPT ![p] = new]
    BY <1>3 DEF S!Start
  <2>2. /\ live' \in [Procs -> SUBSET {1}]
        /\ \A q \in Procs \ {p} : live'[q] = live[q]
    BY <1>1, <2>1
  <2>3. Operates(p) /\ Shows(status'[p], "starting")
    BY <1>1, <2>1, <2>2 DEF Operates, Shows, S!Statuses, S!Down
  <2> QED
    BY <1>1, <1>3, <2>1, <2>3, ToKeeps
<1> QED
  BY <1>2, <1>3 DEF StartOp

LEMMA StartEndsKeeps ==
    ASSUME CommandsInv, NEW p \in Procs, StartEnds(p)
    PROVE  CommandsInv'
<1>1. /\ Doing(p, "starting") /\ UNCHANGED <<info, cache, timers>>
      /\ queue[p] # <<>> /\ queue[p][1].step = "starting"
      /\ status \in [Procs -> S!Statuses] /\ live \in [Procs -> SUBSET {1}]
  BY DoingShows DEF StartEnds
<1>2. PICK ok \in BOOLEAN :
          /\ End(p, ok) /\ UNCHANGED live
          /\ \/ status' = [status EXCEPT ![p] = "online"]
             \/ status' = [status EXCEPT ![p] = "errored"] /\ live[p] = {}
  BY DEF StartEnds, S!Run, S!Fail
<1>3. Operates(p) /\ status'[p] \notin {"starting", "stopping"}
  BY <1>1, <1>2 DEF Operates, S!Statuses, S!Down
<1> QED
  BY <1>1, <1>2, <1>3, EndKeeps

-----------------------------------------------------------------------------
(***************************************************************************)
(* Children and timers.                                                    *)
(***************************************************************************)

LEMMA DieKeeps ==
    ASSUME CommandsInv, NEW p \in Procs, Die(p)
    PROVE  CommandsInv'
<1>1. /\ UNCHANGED <<info, cache, queue, timers, status>>
      /\ live' = [live EXCEPT ![p] = {}]
      /\ calls' = [c \in Calls |-> [calls[c] EXCEPT !.living = @ \ {p}]]
  BY DEF Die, S!Die
<1>2. /\ queue[p] \in Seq(Operation) /\ queue' = [queue EXCEPT ![p] = queue[p]]
      /\ InOrder(queue[p], status[p])
      /\ status' \in [Procs -> S!Statuses] /\ timers' \in [Procs -> Nat]
      /\ live \in [Procs -> SUBSET {1}]
  BY <1>1 DEF CommandsInv, TypeOK, OneAtATime
<1>3. Forgets(p) /\ \A c \in Calls : p \notin calls'[c].living
  BY <1>1, AllForget DEF CommandsInv
<1>4. /\ live' \in [Procs -> SUBSET {1}] /\ live'[p] = {}
      /\ \A q \in Procs \ {p} : status'[q] = status[q] /\ live'[q] = live[q]
  BY <1>1, <1>2
<1> QED
  BY <1>1, <1>2, <1>3, <1>4, LineMoves

LEMMA CrashKeeps ==
    ASSUME CommandsInv, NEW p \in Procs, Crash(p)
    PROVE  CommandsInv'
<1>1. /\ UNCHANGED <<info, cache, calls, queue, live>>
      /\ status[p] = "online" /\ live[p] = {}
      /\ \/ status' = [status EXCEPT ![p] = "stopped"]
         \/ status' = [status EXCEPT ![p] = "errored"]
      /\ timers' = timers \/ timers' = [timers EXCEPT ![p] = @ + 1]
  BY DEF Crash, S!Notice
<1>2. /\ queue[p] \in Seq(Operation) /\ queue' = [queue EXCEPT ![p] = queue[p]]
      /\ InOrder(queue[p], status[p])
      /\ status \in [Procs -> S!Statuses] /\ timers \in [Procs -> Nat]
      /\ live' \in [Procs -> SUBSET {1}]
  BY <1>1 DEF CommandsInv, TypeOK, OneAtATime
<1>3. /\ status' \in [Procs -> S!Statuses] /\ timers' \in [Procs -> Nat]
      /\ \A q \in Procs \ {p} : status'[q] = status[q] /\ live'[q] = live[q]
      /\ status'[p] \in {"stopped", "errored"}
  BY <1>1, <1>2 DEF S!Statuses, S!Down
<1>4. InOrder(queue[p], status'[p])
  BY <1>1, <1>2, <1>3 DEF InOrder
<1>5. Forgets(p)
  BY <1>1, NothingForgotten DEF CommandsInv
<1>6. \A c \in Calls : p \notin calls'[c].living
  BY <1>1 DEF CommandsInv, LivingIsAwaited
<1> QED
  BY <1>1, <1>2, <1>3, <1>4, <1>5, <1>6, LineMoves

LEMMA TimerKeeps ==
    ASSUME CommandsInv, NEW p \in Procs, TimerFires(p)
    PROVE  CommandsInv'
<1>1. PICK op : op = Begin(Timer, "start")
  OBVIOUS
<1>2. /\ UNCHANGED <<info, cache, calls, status, live>>
      /\ timers[p] > 0 /\ timers' = [timers EXCEPT ![p] = @ - 1]
      /\ queue' = Batch(Timer, "start", Once({p}))
  BY DEF TimerFires
<1>3. /\ queue \in [Procs -> Seq(Operation)] /\ op \in Operation
      /\ InOrder(queue[p], status[p])
      /\ status' \in [Procs -> S!Statuses] /\ timers \in [Procs -> Nat]
      /\ live' \in [Procs -> SUBSET {1}] /\ op.by = Timer /\ op.step = "start"
  BY <1>1, <1>2 DEF CommandsInv, TypeOK, OneAtATime, Operation, Batched, Begin
<1>4. PICK line : line = Lengthened(queue[p], op, 1)
  OBVIOUS
<1>5. /\ line \in Seq(Operation) /\ InOrder(line, status[p])
      /\ \A c : ToStop(queue[p], c) => ToStop(line, c)
      /\ \A c : Joined(line, c) => Joined(queue[p], c) \/ c = Timer
  <2>1. 1 \in Nat /\ 1 > 0
    OBVIOUS
  <2>2. queue[p] \in Seq(Operation)
    BY <1>3
  <2>3. /\ line \in Seq(Operation) /\ InOrder(line, status[p])
        /\ \A c : ToStop(queue[p], c) => ToStop(line, c)
        /\ \A c : Joined(line, c) => Joined(queue[p], c) \/ (c = op.by /\ 1 > 0)
    <3>1. Joining(queue[p], line, op, 1, status[p])
      BY <1>3, <1>4, <2>1, <2>2, Joins
    <3> QED
      BY <3>1 DEF Joining
  <2> QED
    BY <1>3, <2>3
<1>6. queue' = [queue EXCEPT ![p] = line]
  <2>1. ASSUME NEW q \in Procs
        PROVE  queue'[q] = IF q = p THEN line ELSE queue[q]
    <3>1. queue'[q] = Lengthened(queue[q], op, IF q \in {p} THEN 1 ELSE 0)
      BY <1>1, <1>2 DEF Batch, Once, Lengthened
    <3>2. CASE q = p
      BY <1>4, <3>1, <3>2
    <3>3. CASE q # p
      BY <1>3, <3>1, <3>3, NoLonger
    <3> QED
      BY <3>2, <3>3
  <2>2. DOMAIN queue' = Procs /\ queue' = [q \in Procs |-> queue'[q]]
    BY <1>2 DEF Batch
  <2> QED
    BY <1>3, <2>1, <2>2
<1>7. timers' \in [Procs -> Nat]
  BY <1>2, <1>3
<1>8. Timer \notin Calls
  BY DEF Timer, Calls
<1>9. Forgets(p)
  BY <1>2, NothingForgotten DEF CommandsInv
<1>10. ASSUME NEW c \in Calls, p \in calls'[c].living
       PROVE  live'[p] # {} /\ ToStop(line, c)
  BY <1>2, <1>5, <1>10 DEF CommandsInv, LivingIsAwaited
<1>11. status'[p] \in S!Down => live'[p] = {}
  BY <1>2 DEF CommandsInv, DownIsDead
<1>12. \A c \in Calls : Joined(line, c) => Joined(queue[p], c)
  BY <1>5, <1>8
<1>13. InOrder(line, status'[p])
  BY <1>2, <1>5
<1> QED
  BY <1>2, <1>3, <1>5, <1>6, <1>7, <1>9, <1>10, <1>11, <1>12, <1>13, LineMoves

-----------------------------------------------------------------------------
(***************************************************************************)
(* The handlers.                                                           *)
(***************************************************************************)

\* Lines in which only operations of c have come.
Queued(c) ==
    /\ queue' \in [Procs -> Seq(Operation)]
    /\ \A p \in Procs :
          /\ InOrder(queue'[p], status[p])
          /\ \A d \in Calls \ {c} :
                /\ ToStop(queue[p], d) => ToStop(queue'[p], d)
                /\ Joined(queue'[p], d) => Joined(queue[p], d)

LEMMA NothingQueued ==
    ASSUME CommandsInv, NEW c, UNCHANGED queue
    PROVE  Queued(c)
  BY DEF CommandsInv, TypeOK, OneAtATime, Queued

LEMMA BatchQueued ==
    ASSUME CommandsInv, NEW c \in Calls, calls[c].phase # "waiting",
           NEW kind \in Batched, NEW times \in [Procs -> Nat],
           queue' = Batch(c, kind, times)
    PROVE  /\ Queued(c)
           /\ \A p \in Procs : Joined(queue'[p], c) => p \in Meant(times)
           /\ kind # "start" =>
                \A p \in Procs : p \in Meant(times) => ToStop(queue'[p], c)
<1>1. PICK op : op = Begin(c, kind)
  OBVIOUS
<1>2. /\ op \in Operation /\ op.by = c /\ op.step \in {"start", "stop"}
      /\ kind # "start" => op.step = "stop"
  BY <1>1 DEF Operation, Begin
<1>3. /\ DOMAIN queue' = Procs /\ queue' = [p \in Procs |-> queue'[p]]
      /\ \A p \in Procs : queue'[p] = Lengthened(queue[p], op, times[p])
  BY <1>1 DEF Batch, Lengthened
<1>4. \A p \in Procs : p \in Meant(times) <=> times[p] > 0
  BY DEF Meant
<1>5. ASSUME NEW p \in Procs
      PROVE  /\ queue'[p] \in Seq(Operation) /\ InOrder(queue'[p], status[p])
             /\ \A d \in Calls \ {c} :
                   /\ ToStop(queue[p], d) => ToStop(queue'[p], d)
                   /\ Joined(queue'[p], d) => Joined(queue[p], d)
             /\ Joined(queue'[p], c) => p \in Meant(times)
             /\ kind # "start" /\ p \in Meant(times) => ToStop(queue'[p], c)
  <2>1. queue[p] \in Seq(Operation) /\ InOrder(queue[p], status[p])
    BY DEF CommandsInv, TypeOK, OneAtATime
  <2>2. ~Joined(queue[p], c)
    BY DEF CommandsInv, AnsweredIsSettled
  <2>3. times[p] \in Nat /\ queue'[p] = Lengthened(queue[p], op, times[p])
    BY <1>3
  <2>4. /\ queue'[p] \in Seq(Operation) /\ InOrder(queue'[p], status[p])
        /\ \A d : ToStop(queue[p], d) => ToStop(queue'[p], d)
        /\ \A d : Joined(queue'[p], d) =>
              Joined(queue[p], d) \/ (d = op.by /\ times[p] > 0)
        /\ op.step = "stop" /\ times[p] > 0 => ToStop(queue'[p], op.by)
    <3>1. Joining(queue[p], Lengthened(queue[p], op, times[p]), op, times[p], status[p])
      BY <1>2, <2>1, <2>3, Joins
    <3> QED
      BY <2>3, <3>1 DEF Joining
  <2> QED
    BY <1>2, <1>4, <2>2, <2>4
<1> QED
  BY <1>3, <1>5 DEF Queued

\* A command changes, and the lines with it.
LEMMA HandlerKeeps ==
    ASSUME CommandsInv, NEW c \in Calls, NEW m \in Command,
           calls' = [calls EXCEPT ![c] = m], UNCHANGED <<timers, status, live>>,
           DOMAIN info' = Procs, cache' \in [Files -> {0} \cup ValidContents],
           Queued(c),
           m.phase # "waiting" =>
                m.living = {} /\ \A p \in Procs : ~Joined(queue'[p], c),
           \A p \in m.living : live[p] # {} /\ ToStop(queue'[p], c),
           HasLoaded(m) => m.content \in ValidContents
    PROVE  CommandsInv'
<1>1. /\ calls' \in [Calls -> Command] /\ calls'[c] = m
      /\ \A d \in Calls \ {c} : calls'[d] = calls[d]
  BY DEF CommandsInv, TypeOK
<1>2. TypeOK'
  BY <1>1 DEF CommandsInv, TypeOK, Queued
<1>3. OneAtATime'
  BY DEF OneAtATime, Queued
<1>4. DownIsDead'
  BY DEF CommandsInv, DownIsDead
<1>5. AnsweredIsSettled'
  <2> SUFFICES ASSUME NEW d \in Calls, calls'[d].phase # "waiting"
               PROVE  calls'[d].living = {} /\ \A p \in Procs : ~Joined(queue'[p], d)
    BY DEF AnsweredIsSettled
  <2>1. CASE d = c
    BY <1>1, <2>1
  <2>2. CASE d # c
    BY <1>1, <2>2 DEF CommandsInv, AnsweredIsSettled, Queued
  <2> QED
    BY <2>1, <2>2
<1>6. LivingIsAwaited'
  <2> SUFFICES ASSUME NEW d \in Calls, NEW p \in calls'[d].living
               PROVE  live'[p] # {} /\ ToStop(queue'[p], d)
    BY DEF LivingIsAwaited
  <2>1. CASE d = c
    BY <1>1, <2>1
  <2>2. CASE d # c
    <3>1. p \in calls[d].living /\ p \in Procs
      BY <1>1, <2>2 DEF CommandsInv, TypeOK, Command
    <3> QED
      BY <2>2, <3>1 DEF CommandsInv, LivingIsAwaited, Queued
  <2> QED
    BY <2>1, <2>2
<1>7. AppliesValid'
  <2>1. \A d \in Calls : d = c \/ calls'[d] = calls[d]
    BY <1>1
  <2> QED
    BY <1>1, <2>1 DEF CommandsInv, AppliesValid
<1> QED
  BY <1>2, <1>3, <1>4, <1>5, <1>6, <1>7 DEF CommandsInv

LEMMA ResolvedTimes ==
    ASSUME NEW space, NEW known, NEW T, NEW targets \in Seq(T)
    PROVE  /\ ResolveTargets(space, known, targets) \in [DOMAIN space -> Nat]
           /\ Meant(ResolveTargets(space, known, targets)) =
                {p \in DOMAIN space :
                    IF targets = <<>> THEN p \in known
                    ELSE \E i \in DOMAIN targets : Means(space, targets[i], p)}
<1> DEFINE Meaning(p) == {i \in DOMAIN targets : Means(space, targets[i], p)}
<1>1. DOMAIN targets = 1..Len(targets) /\ Len(targets) \in Nat
  BY LenProperties
<1>2. IsFiniteSet(DOMAIN targets)
  BY <1>1, FS_Interval
<1>3. ASSUME NEW p
      PROVE  /\ Cardinality(Meaning(p)) \in Nat
             /\ Cardinality(Meaning(p)) > 0 <=> Meaning(p) # {}
  <2>1. IsFiniteSet(Meaning(p))
    BY <1>2, FS_Subset
  <2>2. Cardinality(Meaning(p)) \in Nat
        /\ (Cardinality(Meaning(p)) = 0 <=> Meaning(p) = {})
    BY <2>1, FS_CardinalityType, FS_EmptySet
  <2> HIDE DEF Meaning
  <2> QED
    BY <2>2
<1>4. PICK times : times = ResolveTargets(space, known, targets)
  OBVIOUS
<1>5. times = [p \in DOMAIN space |->
                  IF targets # <<>> THEN Cardinality(Meaning(p))
                  ELSE IF p \in known THEN 1 ELSE 0]
  BY <1>4 DEF ResolveTargets
<1>6. \A p : Meaning(p) # {} <=> \E i \in DOMAIN targets : Means(space, targets[i], p)
  OBVIOUS
<1> HIDE DEF Meaning
<1>7. times \in [DOMAIN space -> Nat]
  BY <1>3, <1>5
<1>8. \A p \in DOMAIN space :
        times[p] > 0 <=> IF targets = <<>> THEN p \in known ELSE Meaning(p) # {}
  BY <1>3, <1>5
<1>9. Meant(times) = {p \in DOMAIN space : times[p] > 0}
  BY <1>7 DEF Meant
<1> QED
  BY <1>4, <1>6, <1>7, <1>8, <1>9

LEMMA FreshCall ==
    ASSUME CommandsInv, NEW c \in Calls, NextCall(c)
    PROVE  /\ calls[c] \in Command /\ calls[c].phase # "waiting"
           /\ calls[c].living = {} /\ \A p \in Procs : ~Joined(queue[p], c)
<1>1. calls[c].phase = "idle"
  BY DEF NextCall, NoCall
<1>2. calls[c] \in Command
  BY DEF CommandsInv, TypeOK
<1> QED
  BY <1>1, <1>2 DEF CommandsInv, AnsweredIsSettled

LEMMA ReceiveKeeps ==
    ASSUME CommandsInv, NEW c \in Calls, NEW kind \in Batched,
           NEW targets \in TargetLists, Receive(c, kind, targets)
    PROVE  CommandsInv'
<1>1. PICK times, names : /\ times = ResolveTargets(info, Known, targets)
                          /\ names = Meant(times)
  OBVIOUS
<1>2. PICK m : m = [calls[c] EXCEPT
                      !.kind = kind,
                      !.phase = IF names = {} THEN "failed" ELSE "waiting",
                      !.living = IF kind = "start" THEN {} ELSE LivingOf(names)]
  OBVIOUS
<1>3. /\ NextCall(c) /\ calls' = [calls EXCEPT ![c] = m]
      /\ queue' = Batch(c, kind, times)
      /\ UNCHANGED <<info, cache, timers, status, live>>
  BY <1>1, <1>2 DEF Receive
<1>4. TypeOK /\ calls[c] \in Command /\ calls[c].phase # "waiting"
  BY <1>3, FreshCall DEF CommandsInv
<1>5. times \in [Procs -> Nat] /\ names \subseteq Procs
  <2>1. DOMAIN info = Procs
    BY <1>4 DEF TypeOK
  <2>2. targets \in Seq(Target)
    BY CommandsAssumption
  <2>3. times \in [Procs -> Nat]
    BY <1>1, <2>1, <2>2, ResolvedTimes
  <2> QED
    BY <1>1, <2>3 DEF Meant
<1>6. /\ LivingOf(names) \subseteq names /\ \A p \in LivingOf(names) : live[p] # {}
  BY DEF LivingOf
<1>7. m \in Command
  BY <1>2, <1>4, <1>5, <1>6 DEF Command, Batched, Phases
<1>8. /\ m.kind = kind /\ m.phase = (IF names = {} THEN "failed" ELSE "waiting")
      /\ m.living = IF kind = "start" THEN {} ELSE LivingOf(names)
  BY <1>2, <1>4 DEF Command
<1>9. /\ Queued(c)
      /\ \A p \in Procs : Joined(queue'[p], c) => p \in names
      /\ kind # "start" => \A p \in Procs : p \in names => ToStop(queue'[p], c)
  BY <1>1, <1>3, <1>4, <1>5, BatchQueued
<1>10. m.phase # "waiting" => m.living = {} /\ \A p \in Procs : ~Joined(queue'[p], c)
  BY <1>6, <1>8, <1>9
<1>11. \A p \in m.living : live[p] # {} /\ ToStop(queue'[p], c)
  BY <1>5, <1>6, <1>8, <1>9
<1>12. ~HasLoaded(m)
  BY <1>8 DEF Batched, HasLoaded
<1>13. DOMAIN info' = Procs /\ cache' \in [Files -> {0} \cup ValidContents]
  BY <1>3, <1>4 DEF TypeOK
<1> QED
  BY <1>3, <1>7, <1>9, <1>10, <1>11, <1>12, <1>13, HandlerKeeps

\* What leaves the lines, the processes and what has been loaded alone.
LEMMA SilentKeeps ==
    ASSUME CommandsInv, NEW c \in Calls, NEW m \in Command,
           calls' = [calls EXCEPT ![c] = m],
           UNCHANGED <<cache, queue, timers, status, live>>, DOMAIN info' = Procs,
           m.living = {}, m.phase # "waiting",
           \A p \in Procs : ~Joined(queue[p], c),
           m.phase = "applying" => m.content \in ValidContents
    PROVE  CommandsInv'
<1>1. Queued(c)
  BY NothingQueued
<1>2. cache' \in [Files -> {0} \cup ValidContents]
  BY DEF CommandsInv, TypeOK
<1>3. \A p \in Procs : ~Joined(queue'[p], c)
  OBVIOUS
<1>4. /\ m.phase # "waiting" =>
            m.living = {} /\ \A p \in Procs : ~Joined(queue'[p], c)
      /\ \A p \in m.living : live[p] # {} /\ ToStop(queue'[p], c)
  BY <1>3
<1>5. HasLoaded(m) => m.content \in ValidContents
  BY DEF HasLoaded
<1> QED
  BY <1>1, <1>2, <1>4, <1>5, HandlerKeeps

LEMMA ReceiveLoadKeeps ==
    ASSUME CommandsInv, NEW c \in Calls, NEW f \in Files, ReceiveLoad(c, f)
    PROVE  CommandsInv'
<1>1. PICK m : m = [calls[c] EXCEPT !.kind = "load", !.phase = "access", !.file = f]
  OBVIOUS
<1>2. /\ NextCall(c) /\ calls' = [calls EXCEPT ![c] = m]
      /\ UNCHANGED <<info, cache, queue, timers, status, live>>
  BY <1>1 DEF ReceiveLoad
<1>3. /\ calls[c] \in Command /\ calls[c].phase # "waiting" /\ DOMAIN info' = Procs
      /\ calls[c].living = {} /\ \A p \in Procs : ~Joined(queue[p], c)
  BY <1>2, FreshCall DEF CommandsInv, TypeOK
<1>4. m \in Command
  BY <1>1, <1>3 DEF Command, Phases
<1>5. m.living = {} /\ m.phase = "access"
  BY <1>1, <1>3 DEF Command
<1> QED
  BY <1>2, <1>3, <1>4, <1>5, SilentKeeps

LEMMA LoadRefusedKeeps ==
    ASSUME CommandsInv, NEW c \in Calls, LoadRefused(c)
    PROVE  CommandsInv'
<1>1. PICK m : m = [calls[c] EXCEPT !.phase = "failed"]
  OBVIOUS
<1>2. /\ calls[c].phase = "access" /\ calls' = [calls EXCEPT ![c] = m]
      /\ UNCHANGED <<info, cache, queue, timers, status, live>>
  BY <1>1 DEF LoadRefused
<1>3. /\ calls[c] \in Command /\ DOMAIN info' = Procs
      /\ calls[c].living = {} /\ \A p \in Procs : ~Joined(queue[p], c)
  BY <1>2 DEF CommandsInv, TypeOK, AnsweredIsSettled
<1>4. m \in Command
  BY <1>1, <1>3 DEF Command, Phases
<1>5. m.living = {} /\ m.phase = "failed"
  BY <1>1, <1>3 DEF Command
<1> QED
  BY <1>2, <1>3, <1>4, <1>5, SilentKeeps

LEMMA LoadReadKeeps ==
    ASSUME CommandsInv, NEW c \in Calls, NEW i \in DOMAIN Contents, LoadRead(c, i)
    PROVE  CommandsInv'
<1>1. PICK f, config :
          /\ f = calls[c].file /\ config = ConfigOf(f, i)
          /\ calls[c].phase = "access"
          /\ cache' = [cache EXCEPT
                          ![f] = IF config \in ValidContents THEN config ELSE @]
          /\ queue' = IF config \in ValidContents THEN Batch(c, "stop", Once(Known))
                      ELSE queue
          /\ calls' = [calls EXCEPT
                ![c].phase = IF ~(config \in ValidContents) THEN "failed"
                             ELSE IF Known = {} THEN "applying" ELSE "waiting",
                ![c].living = IF config \in ValidContents THEN LivingOf(Known)
                              ELSE {},
                ![c].content = IF config \in ValidContents THEN config ELSE 0,
                ![c].file = NoSpace]
          /\ UNCHANGED <<info, timers, status, live>>
  BY DEF LoadRead
<1>2. /\ calls[c] \in Command /\ DOMAIN info' = Procs
      /\ calls[c].living = {} /\ \A p \in Procs : ~Joined(queue[p], c)
      /\ cache \in [Files -> {0} \cup ValidContents]
  BY <1>1 DEF CommandsInv, TypeOK, AnsweredIsSettled
<1>3. ValidContents \subseteq 1..Len(Contents) /\ Len(Contents) \in Nat
  BY CommandsAssumption DEF ValidContents
<1>4. /\ Known \subseteq Procs /\ LivingOf(Known) \subseteq Known
      /\ \A p \in LivingOf(Known) : live[p] # {}
  BY DEF LivingOf, Known
<1>5. CASE config \in ValidContents
  <2>1. PICK phase : phase = IF Known = {} THEN "applying" ELSE "waiting"
    OBVIOUS
  <2>2. PICK m : m = [calls[c] EXCEPT !.phase = phase, !.living = LivingOf(Known),
                                      !.content = config, !.file = NoSpace]
    OBVIOUS
  <2>3. /\ calls' = [calls EXCEPT ![c] = m] /\ queue' = Batch(c, "stop", Once(Known))
        /\ cache' = [cache EXCEPT ![f] = config]
    BY <1>1, <1>5, <2>1, <2>2
  <2>4. m \in Command
    <3>1. /\ phase \in Phases /\ LivingOf(Known) \in SUBSET Procs
          /\ config \in 0..Len(Contents)
      BY <1>3, <1>4, <1>5, <2>1 DEF Phases
    <3> QED
      BY <1>2, <2>2, <3>1 DEF Command
  <2>5. m.phase = phase /\ m.living = LivingOf(Known) /\ m.content = config
    BY <1>2, <2>2 DEF Command
  <2>6. /\ Queued(c)
        /\ \A p \in Procs : Joined(queue'[p], c) => p \in Known
        /\ \A p \in Procs : p \in Known => ToStop(queue'[p], c)
    <3>1. Once(Known) \in [Procs -> Nat]
      BY DEF Once
    <3>2. Meant(Once(Known)) = Known
      BY <1>4 DEF Meant, Once
    <3> QED
      BY <1>1, <2>3, <3>1, <3>2, BatchQueued DEF Batched
  <2>7. cache' \in [Files -> {0} \cup ValidContents]
    BY <1>2, <1>5, <2>3
  <2>8. m.phase # "waiting" => m.living = {} /\ \A p \in Procs : ~Joined(queue'[p], c)
    BY <1>4, <2>1, <2>5, <2>6
  <2>9. \A p \in m.living : live[p] # {} /\ ToStop(queue'[p], c)
    BY <1>4, <2>5, <2>6
  <2> QED
    BY <1>1, <1>2, <1>5, <2>3, <2>4, <2>5, <2>6, <2>7, <2>8, <2>9, HandlerKeeps
<1>6. CASE config \notin ValidContents
  <2>1. PICK m : m = [calls[c] EXCEPT !.phase = "failed", !.living = {},
                                      !.content = 0, !.file = NoSpace]
    OBVIOUS
  <2>2. calls' = [calls EXCEPT ![c] = m] /\ UNCHANGED <<cache, queue>>
    BY <1>1, <1>2, <1>6, <2>1
  <2>3. m \in Command
    <3>1. "failed" \in Phases /\ 0 \in 0..Len(Contents)
      BY <1>3 DEF Phases
    <3> QED
      BY <1>2, <2>1, <3>1 DEF Command
  <2>4. m.phase = "failed" /\ m.living = {}
    BY <1>2, <2>1 DEF Command
  <2> QED
    BY <1>1, <1>2, <2>2, <2>3, <2>4, SilentKeeps
<1> QED
  BY <1>5, <1>6

LEMMA ProceedKeeps ==
    ASSUME CommandsInv, NEW c \in Calls, Proceed(c)
    PROVE  CommandsInv'
<1>1. PICK phase : phase = IF calls[c].kind = "load" THEN "applying" ELSE "done"
  OBVIOUS
<1>2. PICK m : m = [calls[c] EXCEPT !.phase = phase]
  OBVIOUS
<1>3. /\ calls[c].phase = "waiting" /\ ~InLine(c) /\ calls' = [calls EXCEPT ![c] = m]
      /\ UNCHANGED <<info, cache, queue, timers, status, live>>
  BY <1>1, <1>2 DEF Proceed
<1>4. calls[c] \in Command /\ DOMAIN info' = Procs
  BY <1>3 DEF CommandsInv, TypeOK
<1>5. \A p \in Procs : ~Joined(queue[p], c)
  BY <1>3 DEF InLine, Joined
<1>6. \A p \in Procs : ~ToStop(queue[p], c)
  BY <1>5 DEF Joined, ToStop
<1>7. calls[c].living = {}
  BY <1>4, <1>6 DEF CommandsInv, LivingIsAwaited, Command
<1>8. m \in Command
  BY <1>1, <1>2, <1>4 DEF Command, Phases
<1>9. m.phase = phase /\ m.living = {} /\ m.content = calls[c].content
  BY <1>2, <1>4, <1>7 DEF Command
<1>10. calls[c].kind = "load" => calls[c].content \in ValidContents
  BY <1>3 DEF CommandsInv, AppliesValid, HasLoaded
<1> QED
  BY <1>1, <1>3, <1>4, <1>5, <1>8, <1>9, <1>10, SilentKeeps

\* A set of numbers that is not empty has a smallest one.
LEMMA Least ==
    ASSUME NEW T \in SUBSET Nat, T # {}
    PROVE  \E z \in T : \A y \in T : z <= y
<1>1. PICK R : R = OpToRel(<, Nat)
  OBVIOUS
<1>2. \A x, y \in Nat : y < x => <<y, x>> \in R
  BY <1>1 DEF OpToRel
<1>3. IsWellFoundedOn(R, Nat)
  BY <1>1, NatLessThanWellFounded
<1>4. PICK x \in T : \A y \in T : ~(<<y, x>> \in R)
  BY <1>3, WFMin
<1>5. \A y \in T : x \in Nat /\ y \in Nat /\ ~(y < x)
  BY <1>2, <1>4
<1> QED
  BY <1>5

LEMMA Smallest ==
    ASSUME NEW T \in SUBSET Nat, T # {}
    PROVE  Min(T) \in T /\ \A y \in T : Min(T) <= y
  BY Least DEF Min

LEMMA ApplyKeeps ==
    ASSUME CommandsInv, NEW c \in Calls, Apply(c)
    PROVE  CommandsInv'
<1>1. PICK apps : apps = Contents[calls[c].content]
  OBVIOUS
<1>2. PICK rest : rest = {k \in calls[c].next..Len(apps) :
                             HasLogs(apps[k]) \/ ConfigureThrows(apps[k])}
                         \cup {Len(apps)}
  OBVIOUS
<1>3. PICK last, late, now :
          /\ last = Min(rest)
          /\ late \in BOOLEAN
          /\ calls[c].phase = "applying"
          /\ info' = Configured(now)
          /\ calls' = [calls EXCEPT ![c] =
                IF ~late /\ last < Len(apps) THEN [@ EXCEPT !.next = last + 1]
                ELSE [@ EXCEPT !.phase = IF late THEN "late" ELSE "done",
                               !.next = 1, !.content = 0]]
          /\ UNCHANGED <<cache, queue, timers, status, live>>
  BY <1>1, <1>2 DEF Apply
<1>4. /\ calls[c] \in Command /\ calls[c].content \in ValidContents
      /\ calls[c].living = {} /\ \A p \in Procs : ~Joined(queue[p], c)
  BY <1>3 DEF CommandsInv, TypeOK, AnsweredIsSettled, AppliesValid, HasLoaded
<1>5. DOMAIN info' = Procs
  BY <1>3 DEF Configured
<1>6. apps \in Seq(Applications)
  BY <1>1, <1>4, CommandsAssumption DEF ValidContents
<1>7. last \in Nat
  <2>1. Len(apps) \in Nat /\ calls[c].next \in Nat
    BY <1>4, <1>6 DEF Command
  <2>2. rest \subseteq (calls[c].next..Len(apps)) \cup {Len(apps)} /\ rest # {}
    BY <1>2
  <2>3. rest \in SUBSET Nat
    BY <2>1, <2>2
  <2> QED
    BY <1>3, <2>2, <2>3, Smallest
<1>8. CASE ~late /\ last < Len(apps)
  <2>1. PICK m : m = [calls[c] EXCEPT !.next = last + 1]
    OBVIOUS
  <2>2. calls' = [calls EXCEPT ![c] = m]
    BY <1>3, <1>8, <2>1
  <2>3. m \in Command
    BY <1>4, <1>7, <2>1 DEF Command
  <2>4. m.phase = "applying" /\ m.living = {} /\ m.content = calls[c].content
    BY <1>3, <1>4, <2>1 DEF Command
  <2> QED
    BY <1>3, <1>4, <1>5, <2>2, <2>3, <2>4, SilentKeeps
<1>9. CASE ~(~late /\ last < Len(apps))
  <2>1. PICK phase : phase = IF late THEN "late" ELSE "done"
    OBVIOUS
  <2>2. PICK m : m = [calls[c] EXCEPT !.phase = phase, !.next = 1, !.content = 0]
    OBVIOUS
  <2>3. calls' = [calls EXCEPT ![c] = m]
    BY <1>3, <1>9, <2>1, <2>2
  <2>4. 0 \in 0..Len(Contents) /\ phase \in Phases /\ 1 \in Nat \ {0}
    BY <2>1, CommandsAssumption DEF Phases
  <2>5. m \in Command
    BY <1>4, <2>2, <2>4 DEF Command
  <2>6. m.phase = phase /\ m.living = {}
    BY <1>4, <2>2 DEF Command
  <2> QED
    BY <1>3, <1>4, <1>5, <2>1, <2>3, <2>5, <2>6, SilentKeeps
<1> QED
  BY <1>8, <1>9

-----------------------------------------------------------------------------
(***************************************************************************)
(* The invariant, and the theorems.                                        *)
(***************************************************************************)

LEMMA InitHolds == Init => CommandsInv
<1> SUFFICES ASSUME Init PROVE CommandsInv
  OBVIOUS
<1>1. /\ DOMAIN info = Procs
      /\ \A p \in Procs : queue[p] = <<>>
      /\ queue = [p \in Procs |-> <<>>]
      /\ calls = [c \in Calls |-> NoCall]
      /\ timers = [p \in Procs |-> 0]
      /\ cache \in [Files -> {0} \cup ValidContents]
  BY DEF Init
<1>2. live \in [Procs -> SUBSET {1}]
  BY DEF Init
<1>3. /\ status \in [Procs -> S!Statuses]
      /\ \A p \in Procs : /\ status[p] = IF live[p] = {} THEN "stopped" ELSE "online"
                          /\ status[p] \notin {"starting", "stopping"}
  BY DEF Init, S!Statuses, S!Down
<1>4. NoCall \in Command
  BY CommandsAssumption DEF NoCall, Command, Phases
<1>5. TypeOK
  BY <1>1, <1>2, <1>3, <1>4 DEF TypeOK
<1>6. \A p \in Procs : Len(queue[p]) = 0
  BY <1>1
<1>7. OneAtATime
  BY <1>1, <1>3, <1>6 DEF OneAtATime, InOrder
<1>8. DownIsDead
  BY <1>3 DEF DownIsDead, S!Down
<1>9. \A c \in Calls : calls[c].living = {} /\ calls[c].phase = "idle"
  BY <1>1 DEF NoCall
<1>10. AnsweredIsSettled /\ LivingIsAwaited /\ AppliesValid
  BY <1>6, <1>9 DEF AnsweredIsSettled, LivingIsAwaited, AppliesValid, HasLoaded, Joined
<1> QED
  BY <1>5, <1>7, <1>8, <1>10 DEF CommandsInv

LEMMA NextKeeps == CommandsInv /\ [Next]_vars => CommandsInv'
<1> SUFFICES ASSUME CommandsInv, [Next]_vars
             PROVE  CommandsInv'
  OBVIOUS
<1>1. ASSUME NEW c \in Calls,
             \/ \E kind \in Batched, ts \in TargetLists : Receive(c, kind, ts)
             \/ \E f \in Files : ReceiveLoad(c, f)
             \/ \E i \in DOMAIN Contents : LoadRead(c, i)
             \/ LoadRefused(c) \/ Proceed(c) \/ Apply(c)
      PROVE  CommandsInv'
  BY <1>1, ReceiveKeeps, ReceiveLoadKeeps, LoadReadKeeps, LoadRefusedKeeps,
     ProceedKeeps, ApplyKeeps
<1>2. ASSUME NEW p \in Procs, Operate(p) \/ Die(p) \/ Crash(p) \/ TimerFires(p)
      PROVE  CommandsInv'
  BY <1>2, StopOpKeeps, StopEndsKeeps, StartOpKeeps, StartEndsKeeps, DieKeeps,
     CrashKeeps, TimerKeeps DEF Operate
<1>3. CASE UNCHANGED vars
  BY <1>3 DEF vars, CommandsInv, TypeOK, OneAtATime, DownIsDead, AnsweredIsSettled,
              LivingIsAwaited, AppliesValid, ValidContents
<1> QED
  BY <1>1, <1>2, <1>3 DEF Next

LEMMA Invariance == Spec => []CommandsInv
<1> QED
  BY InitHolds, NextKeeps, PTL DEF Spec, SafeSpec

\* Types, of any number of commands on any number of processes.
THEOREM TypeCorrect == Spec => []TypeOK
<1>1. CommandsInv => TypeOK
  BY DEF CommandsInv
<1> QED
  BY <1>1, Invariance, PTL

\* The lock of a process is respected by every command, batch and timer: a
\* status "starting" or "stopping" is that of the one operation that holds it.
THEOREM RunsOneAtATime == Spec => []OneAtATime
<1>1. CommandsInv => OneAtATime
  BY DEF CommandsInv
<1> QED
  BY <1>1, Invariance, PTL

\* When a load begins to apply the configuration, and when a stop or restart is
\* answered, no child that lived when its process was asked to stop is left,
\* but for those reported as failed; in whatever lines the operations waited.
THEOREM StopsBeforeGoingOn == Spec => []AskedToStopIsGone
<1>1. CommandsInv => AskedToStopIsGone
  BY DEF CommandsInv, AnsweredIsSettled, AskedToStopIsGone
<1> QED
  BY <1>1, Invariance, PTL

\* What a load applies is a content that the validator accepted, also when it
\* is what an earlier load of the file has left in the cache.
THEOREM AppliesWhatIsValid == Spec => []AppliesValid
<1>1. CommandsInv => AppliesValid
  BY DEF CommandsInv
<1> QED
  BY <1>1, Invariance, PTL
-----------------------------------------------------------------------------
(***************************************************************************)
(* Recursive functions: a chain of values exists.                          *)
(***************************************************************************)

\* g is a chain of length n in which each member is made from the one before.
Repeats(g, n, first, step) ==
    g[1] = first /\ \A k \in 2..n : g[k] = step[k - 1][g[k - 1]]

LEMMA Iterates ==
    ASSUME NEW X, NEW first \in X, NEW step \in [Nat -> [X -> X]], NEW n \in Nat \ {0}
    PROVE  \E g \in [1..n -> X] : Repeats(g, n, first, step)
<1> USE DEF Repeats
<1>1. PICK bad : bad = {m \in Nat \ {0} :
                            ~ \E g \in [1..m -> X] : Repeats(g, m, first, step)}
  OBVIOUS
<1>2. SUFFICES ASSUME bad # {} PROVE FALSE
  BY <1>1
<1>3. PICK m \in bad : \A k \in bad : m <= k
  BY <1>1, <1>2, Least
<1>4. m # 1
  <2>1. /\ [k \in 1..1 |-> first] \in [1..1 -> X]
        /\ Repeats([k \in 1..1 |-> first], 1, first, step)
    OBVIOUS
  <2> QED
    BY <1>1, <2>1
<1>5. m \in Nat \ {0, 1} /\ m - 1 \in Nat \ {0} /\ m - 1 \notin bad
  <2>1. m \in Nat \ {0, 1} /\ bad \subseteq Nat
    BY <1>1, <1>4
  <2>2. m - 1 \in Nat \ {0} /\ ~(m <= m - 1)
    BY <2>1
  <2> QED
    BY <1>3, <2>1, <2>2
<1>6. PICK g \in [1..(m - 1) -> X] : Repeats(g, m - 1, first, step)
  BY <1>1, <1>5
<1>7. PICK h : h = [k \in 1..m |-> IF k = m THEN step[m - 1][g[m - 1]] ELSE g[k]]
  OBVIOUS
<1>8. h \in [1..m -> X]
  <2>1. step[m - 1] \in [X -> X] /\ g[m - 1] \in X
    BY <1>5, <1>6
  <2>2. step[m - 1][g[m - 1]] \in X
    BY <2>1
  <2> QED
    BY <1>5, <1>6, <1>7, <2>2
<1>9. Repeats(h, m, first, step)
  <2>1. h[1] = first
    BY <1>5, <1>6, <1>7
  <2>2. ASSUME NEW k \in 2..m PROVE h[k] = step[k - 1][h[k - 1]]
    <3>1. CASE k = m
      BY <1>5, <1>7, <3>1
    <3>2. CASE k # m
      <4>1. /\ k \in 2..(m - 1) /\ k - 1 \in 1..(m - 1) /\ k - 1 # m
            /\ k \in 1..m /\ k - 1 \in 1..m
        BY <1>5, <3>2
      <4>2. g[k] = step[k - 1][g[k - 1]]
        BY <1>6, <4>1
      <4> QED
        BY <1>7, <3>2, <4>1, <4>2
    <3> QED
      BY <3>1, <3>2
  <2> QED
    BY <2>1, <2>2
<1> QED
  BY <1>1, <1>8, <1>9

-----------------------------------------------------------------------------
(***************************************************************************)
(* Configurations, of applications in which all fields hold anything.      *)
(***************************************************************************)

\* What was accepted is not refused when it is applied, but for its log files.
Applies(app) ==
    /\ ~ConfigureThrows(app)
    /\ MemoryLimit(app) \in {"none", "size"}
    /\ app.name # "long" => LoggerName(app.name) = app.name
    /\ \/ IsAppConfig(app)
       \/ \E f \in Fields : app[f] = "null"
       \/ \E f \in {"out_file", "error_file"} : ~IsString(app[f])

LEMMA Values ==
    ASSUME NEW app \in Applications
    PROVE  /\ app.name \in Anything \cup Names \cup {"padded", "odd"}
           /\ app.env \in Anything \cup {"badKey", "badValue", "variables"}
           /\ app.max_memory_restart \in
                Anything \cup {"unreadable", "tiny", "huge", "size"}
           /\ \A f \in Fields \ {"name", "env", "max_memory_restart"} :
                app[f] \in Anything \cup Paths
           /\ app = [f \in Fields |-> app[f]]
<1>1. \A f \in Fields : app[f] \in ValuesOf(f)
  BY DEF Applications
<1>2. {"name", "env", "max_memory_restart"} \subseteq Fields
  BY DEF Fields, Texts
<1> QED
  BY <1>1, <1>2 DEF ValuesOf, Applications

LEMMA AcceptedApplies ==
    ASSUME NEW app \in Applications, ValidateAppConfig(app)
    PROVE  Applies(app)
<1>1. app.name \in Names
  BY DEF ValidateAppConfig
<1>2. ~ConfigureThrows(app)
  <2>1. Optional(app["args"], IsString(app["args"]))
    BY DEF ValidateAppConfig, Texts
  <2> QED
    BY <1>1, <2>1 DEF ConfigureThrows, Optional, Given
<1>3. MemoryLimit(app) \in {"none", "size"}
  BY Values DEF ValidateAppConfig, MemoryLimit, Given, IsString, ValidMemorySize, Anything
<1>4. app.name # "long" => LoggerName(app.name) = app.name
  BY <1>1 DEF LoggerName, Names
<1>5. ASSUME \A f \in Fields : app[f] # "null",
             \A f \in {"out_file", "error_file"} : IsString(app[f])
      PROVE  IsAppConfig(app)
  <2>1. /\ IsString(app.name) /\ NotBlank(app.name)
        /\ IsString(app.script) /\ NotBlank(app.script)
    BY <1>1 DEF ValidateAppConfig, Names, IsString, NotBlank
  <2>2. \A f \in Texts : app[f] = "absent" \/ IsString(app[f])
    BY <1>5 DEF ValidateAppConfig, Optional, Fields
  <2>3. app["log_file"] = "absent" \/ IsString(app["log_file"])
    <3>1. Given(app["log_file"]) => IsString(app["log_file"])
      BY DEF ValidateAppConfig, ValidPath, SanitizeFilePath
    <3>2. app["log_file"] # "null"
      BY <1>5 DEF Fields, LogFiles
    <3> QED
      BY <3>1, <3>2 DEF Given, IsString
  <2>4. app.env \in {"absent", "object", "variables", "badKey"}
    BY <1>5 DEF ValidateAppConfig, ValidEnv, Fields
  <2> QED
    BY <1>5, <2>1, <2>2, <2>3, <2>4 DEF IsAppConfig, LogFiles
<1> QED
  BY <1>2, <1>3, <1>4, <1>5 DEF Applies

LEMMA GoodApplication ==
    ASSUME NEW n \in Names
    PROVE  GoodApp(n) \in Applications /\ GoodApp(n).name = n
<1>1. {"name", "script"} \subseteq Fields
  BY DEF Fields
<1>2. \A f \in Fields : GoodApp(n)[f] = IF f = "name" THEN n
                                        ELSE IF f = "script" THEN "other" ELSE "absent"
  BY DEF GoodApp
<1>3. \A f \in Fields : GoodApp(n)[f] \in ValuesOf(f)
  BY <1>2 DEF ValuesOf, Anything, Paths
<1>4. GoodApp(n) \in [Fields -> UNION {ValuesOf(f) : f \in Fields}]
  BY <1>3 DEF GoodApp
<1> QED
  BY <1>1, <1>2, <1>3, <1>4 DEF Applications

LEMMA Changed ==
    ASSUME NEW app \in Applications, NEW f \in Fields, NEW v \in ValuesOf(f)
    PROVE  [app EXCEPT ![f] = v] \in Applications
  BY DEF Applications

LEMMA BoundedAppsAreApplications == BoundedApps \subseteq Applications
<1> SUFFICES ASSUME NEW f \in Fields, NEW g \in Fields,
                    NEW v \in ValuesOf(f), NEW w \in ValuesOf(g)
             PROVE  [GoodApp("a") EXCEPT ![f] = v, ![g] = w] \in Applications
  BY DEF BoundedApps
<1>1. PICK app : app = [GoodApp("a") EXCEPT ![f] = v]
  OBVIOUS
<1>2. app \in Applications
  BY <1>1, GoodApplication, Changed DEF Names
<1>3. [app EXCEPT ![g] = w] \in Applications
  BY <1>2, Changed
<1> QED
  BY <1>1, <1>3

\* Whatever the validator accepts is applied: in every application that it
\* accepts, with anything in all of its fields at once, the checks that come
\* after the processes have been stopped find nothing but the paths of logs.
THEOREM AcceptedIsApplied ==
    /\ \A app \in Applications : ValidateAppConfig(app) => Applies(app)
    /\ ValidatedConfigsApply
    /\ Spec => []ConfigsApply
<1>1. BoundedApps \subseteq Applications
  BY BoundedAppsAreApplications
<1>2. ASSUME NEW n \in Names, NEW k \in Names,
             ValidateConfig(<<GoodApp(n), GoodApp(k)>>)
      PROVE  n # k
  <2>1. PICK apps : apps = <<GoodApp(n), GoodApp(k)>>
    OBVIOUS
  <2>2. Len(apps) = 2 /\ apps[1].name = n /\ apps[2].name = k
    BY <2>1, GoodApplication
  <2> QED
    BY <1>2, <2>1, <2>2 DEF ValidateConfig
<1>3. ValidatedConfigsApply
  BY <1>1, <1>2, AcceptedApplies DEF ValidatedConfigsApply, Applies
<1>4. ConfigsApply
  BY <1>3 DEF ConfigsApply
<1>5. \A app \in Applications : ValidateAppConfig(app) => Applies(app)
  BY AcceptedApplies
<1> QED
  BY <1>3, <1>4, <1>5, PTL

\* Normalizing keeps a configuration valid, and doing it again changes nothing.
THEOREM NormalizedStaysValid ==
    \A app \in Applications : ValidateAppConfig(app) /\ ~NormalizeThrows(app) =>
        LET new == NormalizeApp(app) IN
        ValidateAppConfig(new) /\ NormalizeApp(new) = new
<1> SUFFICES ASSUME NEW app \in Applications, ValidateAppConfig(app),
                    ~NormalizeThrows(app), NEW new, new = NormalizeApp(app)
             PROVE  ValidateAppConfig(new) /\ NormalizeApp(new) = new
  OBVIOUS
<1>1. {"name", "script", "env", "merge_logs"} \cup Texts \cup LogFiles = Fields
  BY DEF Fields
<1>2. /\ new = [f \in Fields |-> new[f]]
      /\ new["cwd"] = IF Given(app.cwd) THEN NormalizePath(app.cwd) ELSE "absolute"
      /\ new["env"] = IF Given(app.env) THEN app.env ELSE "object"
      /\ \A f \in LogFiles : new[f] = NormalizePath(app[f])
      /\ \A f \in Fields \ ({"cwd", "env"} \cup LogFiles) : new[f] = app[f]
  BY <1>1 DEF NormalizeApp, LogFiles, Texts
<1>3. new["cwd"] = "absolute" \/ (new["cwd"] = "odd" /\ app["cwd"] = "odd")
  BY <1>2 DEF NormalizePath
<1>4. new["cwd"] = "absolute"
  <2>1. Given(app["cwd"]) => ValidPath(app["cwd"])
    BY DEF ValidateAppConfig
  <2> QED
    BY <1>3, <2>1 DEF Given, ValidPath, SanitizeFilePath
<1>5. ValidateAppConfig(new)
  <2>1. /\ new.name = app.name /\ new.script = app.script
        /\ new.merge_logs = app.merge_logs
        /\ new.max_memory_restart = app.max_memory_restart
        /\ \A f \in Texts \ {"cwd"} : new[f] = app[f]
    BY <1>1, <1>2 DEF LogFiles, Texts
  <2>2. ValidEnv(new.env)
    BY <1>2 DEF ValidateAppConfig, ValidEnv, Given
  <2>3. ValidPath("absolute") /\ IsString("absolute")
    BY DEF ValidPath, SanitizeFilePath, IsString, NotBlank
  <2>4. \A f \in Texts : Optional(new[f], IsString(new[f]))
    BY <1>4, <2>1, <2>3 DEF ValidateAppConfig, Optional
  <2>5. Given(new["log_file"]) => ValidPath(new["log_file"])
    <3>1. new["log_file"] = NormalizePath(app["log_file"])
      BY <1>2 DEF LogFiles
    <3>2. Given(app["log_file"]) => ValidPath(app["log_file"])
      BY DEF ValidateAppConfig
    <3> QED
      BY <2>3, <3>1, <3>2 DEF NormalizePath
  <2>6. \A f \in {"cwd", "out_log", "error_log", "log_file"} :
            Given(new[f]) => ValidPath(new[f])
    BY <1>4, <2>1, <2>3, <2>5 DEF ValidateAppConfig, Texts
  <2> QED
    BY <2>1, <2>2, <2>4, <2>6 DEF ValidateAppConfig
<1>6. NormalizeApp(new) = new
  <2>1. \A f \in LogFiles : NormalizePath(new[f]) = new[f]
    BY <1>2 DEF NormalizePath, Given
  <2>2. NormalizePath("absolute") = "absolute" /\ Given("absolute")
    BY DEF NormalizePath, Given
  <2>3. (IF Given(new.env) THEN new.env ELSE "object") = new.env
    BY <1>2 DEF Given
  <2>4. \A f \in Fields : NormalizeApp(new)[f] = new[f]
    BY <1>4, <2>1, <2>2, <2>3 DEF NormalizeApp
  <2> QED
    BY <1>2, <2>4 DEF NormalizeApp
<1> QED
  BY <1>5, <1>6

LEMMA MergedIsTyped ==
    ASSUME NEW app \in Applications, NEW over \in Applications
    PROVE  MergeApp(app, over) \in Applications
<1>1. PICK new : new = MergeApp(app, over)
  OBVIOUS
<1>2. /\ new = [f \in Fields |-> new[f]]
      /\ new["env"] \in {"variables", "object"}
      /\ \A f \in Fields \ {"env"} : new[f] = app[f] \/ new[f] = over[f]
  BY <1>1 DEF MergeApp, Fields
<1>3. \A f \in Fields : app[f] \in ValuesOf(f) /\ over[f] \in ValuesOf(f)
  BY DEF Applications
<1>4. {"variables", "object"} \subseteq ValuesOf("env")
  BY DEF ValuesOf, Anything
<1>5. \A f \in Fields : new[f] \in ValuesOf(f)
  BY <1>2, <1>3, <1>4
<1>6. new \in [Fields -> UNION {ValuesOf(f) : f \in Fields}]
  BY <1>2, <1>5
<1> QED
  BY <1>1, <1>5, <1>6 DEF Applications

\* Merging keeps an application valid; the name is that of both.
LEMMA MergedIsValid ==
    ASSUME NEW app \in Applications, ValidateAppConfig(app),
           NEW over \in Applications, ValidateAppConfig(over), over.name = app.name
    PROVE  /\ MergeApp(app, over) \in Applications
           /\ ValidateAppConfig(MergeApp(app, over))
           /\ MergeApp(app, over).name = app.name
<1>1. PICK new : new = MergeApp(app, over)
  OBVIOUS
<1>2. /\ new = [f \in Fields |-> new[f]]
      /\ new["env"] \in {"variables", "object"}
      /\ \A f \in Fields \ {"env"} : new[f] = app[f] \/ new[f] = over[f]
  BY <1>1 DEF MergeApp, Fields
<1>3. {"name", "script", "env", "merge_logs"} \cup Texts \cup LogFiles = Fields
  BY DEF Fields
<1>4. new \in Applications
  BY <1>1, MergedIsTyped
<1>5. new.name = app.name
  BY <1>2, <1>3
<1>6. ValidateAppConfig(new)
  <2>1. \A f \in Fields \ {"env"} :
            (new[f] = app[f] \/ new[f] = over[f]) /\ f \in Fields
    BY <1>2
  <2>2. {"name", "script", "merge_logs", "max_memory_restart", "cwd", "out_log",
         "error_log", "log_file"} \cup Texts \subseteq Fields \ {"env"}
    BY DEF Fields, Texts, LogFiles
  <2>3. ValidEnv(new.env)
    BY <1>2 DEF ValidEnv
  <2>4. IsString(new.script) /\ NotBlank(new.script) /\ ValidPath(new.script)
    BY <2>1, <2>2 DEF ValidateAppConfig
  <2>5. \A f \in Texts : Optional(new[f], IsString(new[f]))
    BY <2>1, <2>2 DEF ValidateAppConfig
  <2>6. Optional(new.merge_logs, new.merge_logs = "boolean")
    BY <2>1, <2>2 DEF ValidateAppConfig
  <2>7. Given(new.max_memory_restart) => ValidMemorySize(new.max_memory_restart)
    BY <2>1, <2>2 DEF ValidateAppConfig
  <2>8. \A f \in {"cwd", "out_log", "error_log", "log_file"} :
            Given(new[f]) => ValidPath(new[f])
    BY <2>1, <2>2 DEF ValidateAppConfig
  <2>9. new.name \in Names
    BY <1>5 DEF ValidateAppConfig
  <2> QED
    BY <2>3, <2>4, <2>5, <2>6, <2>7, <2>8, <2>9 DEF ValidateAppConfig
<1> QED
  BY <1>1, <1>4, <1>5, <1>6

\* Applications that differ by name: the one of a name.
LEMMA AppOfName ==
    ASSUME NEW apps \in Seq(Applications), ValidateConfig(apps),
           NEW i \in 1..Len(apps)
    PROVE  AppOf(apps, apps[i].name) = apps[i]
<1>1. \A j \in 1..Len(apps) : apps[j].name = apps[i].name => j = i
  BY DEF ValidateConfig
<1>2. (CHOOSE j \in 1..Len(apps) : apps[j].name = apps[i].name) = i
  BY <1>1
<1> QED
  BY <1>2 DEF AppOf

\* new comes from apps: it has an application more or less of the names given,
\* and all others are as they were.
Comes(new, apps, names) ==
    /\ new \in Seq(Applications) /\ ValidateConfig(new)
    /\ NamesIn(new) = NamesIn(apps) \cup names
    /\ \A n \in NamesIn(apps) \ names : AppOf(new, n) = AppOf(apps, n)

LEMMA MergeOneKeeps ==
    ASSUME NEW apps \in Seq(Applications), ValidateConfig(apps),
           NEW over \in Applications, ValidateAppConfig(over)
    PROVE  Comes(MergeOne(apps, over), apps, {over.name})
<1>1. PICK new : new = MergeOne(apps, over)
  OBVIOUS
<1>2. PICK same : same = {i \in DOMAIN apps : apps[i].name = over.name}
  OBVIOUS
<1>3. /\ Len(apps) \in Nat \ {0} /\ DOMAIN apps = 1..Len(apps)
      /\ \A i \in 1..Len(apps) : apps[i] \in Applications /\ ValidateAppConfig(apps[i])
      /\ \A i, j \in 1..Len(apps) : apps[i].name = apps[j].name => i = j
  BY DEF ValidateConfig
<1>4. SUFFICES /\ new \in Seq(Applications) /\ Len(new) \in Nat \ {0}
               /\ \A i \in 1..Len(new) : ValidateAppConfig(new[i])
               /\ \A i, j \in 1..Len(new) : new[i].name = new[j].name => i = j
               /\ NamesIn(new) = NamesIn(apps) \cup {over.name}
               /\ \A i \in 1..Len(apps) : apps[i].name # over.name =>
                        i \in 1..Len(new) /\ new[i] = apps[i]
  <2>1. new # <<>>
    BY <1>4
  <2>2. ValidateConfig(new)
    BY <1>4, <2>1 DEF ValidateConfig
  <2>3. ASSUME NEW n \in NamesIn(apps) \ {over.name}
        PROVE  AppOf(new, n) = AppOf(apps, n)
    <3>1. PICK i \in 1..Len(apps) : apps[i].name = n
      BY DEF NamesIn
    <3>2. i \in 1..Len(new) /\ new[i] = apps[i]
      BY <1>4, <2>3, <3>1
    <3> QED
      BY <1>4, <2>2, <3>1, <3>2, AppOfName
  <2> QED
    BY <1>1, <1>4, <2>2, <2>3 DEF Comes
<1>5. CASE same = {}
  <2>1. new = Append(apps, over)
    BY <1>1, <1>2, <1>5 DEF MergeOne
  <2>2. PICK len : len = Len(apps)
    OBVIOUS
  <2>3. /\ new \in Seq(Applications) /\ Len(new) = len + 1
        /\ \A i \in 1..len : new[i] = apps[i]
        /\ new[len + 1] = over
    BY <1>3, <2>1, <2>2
  <2>4. \A i \in 1..len : new[i].name # over.name
    BY <1>2, <1>3, <1>5, <2>2, <2>3
  <2>5. \A i \in 1..len + 1 : i \in 1..len \/ i = len + 1
    BY <1>3, <2>2
  <2>6. \A i \in 1..Len(new) : ValidateAppConfig(new[i])
    BY <1>3, <2>2, <2>3, <2>5
  <2>7. \A i, j \in 1..Len(new) : new[i].name = new[j].name => i = j
    BY <1>3, <2>2, <2>3, <2>4, <2>5
  <2>8. NamesIn(new) = NamesIn(apps) \cup {over.name}
    <3>1. len + 1 \in 1..Len(new) /\ \A i \in 1..len : i \in 1..Len(new)
      BY <1>3, <2>2, <2>3
    <3> QED
      BY <2>2, <2>3, <2>5, <3>1 DEF NamesIn
  <2> QED
    BY <1>3, <2>2, <2>3, <2>6, <2>7, <2>8
<1>6. CASE same # {}
  <2>1. PICK at : at = Min(same)
    OBVIOUS
  <2>2. same \in SUBSET Nat
    BY <1>2, <1>3
  <2>3. at \in 1..Len(apps) /\ apps[at].name = over.name
    BY <1>2, <1>3, <1>6, <2>1, <2>2, Smallest
  <2>4. PICK m : m = MergeApp(apps[at], over)
    OBVIOUS
  <2>5. m \in Applications /\ ValidateAppConfig(m) /\ m.name = over.name
    BY <1>3, <2>3, <2>4, MergedIsValid
  <2>6. new = [apps EXCEPT ![at] = m]
    BY <1>1, <1>2, <1>6, <2>1, <2>4 DEF MergeOne
  <2>7. /\ new \in Seq(Applications) /\ Len(new) = Len(apps) /\ new[at] = m
        /\ \A i \in 1..Len(apps) : i # at => new[i] = apps[i]
    BY <1>3, <2>3, <2>5, <2>6
  <2>8. \A i \in 1..Len(apps) : new[i].name = apps[i].name
    BY <2>3, <2>5, <2>7
  <2>9. NamesIn(new) = NamesIn(apps) \cup {over.name}
    BY <2>3, <2>7, <2>8 DEF NamesIn
  <2>10. \A i \in 1..Len(new) : ValidateAppConfig(new[i])
    BY <1>3, <2>5, <2>7
  <2>11. \A i, j \in 1..Len(new) : new[i].name = new[j].name => i = j
    BY <1>3, <2>7, <2>8
  <2> QED
    BY <1>3, <2>3, <2>7, <2>9, <2>10, <2>11
<1> QED
  BY <1>5, <1>6

\* The configurations between the base and the merged one.
LEMMA MergeSteps ==
    ASSUME NEW base \in Seq(Applications), NEW override \in Seq(Applications)
    PROVE  \E g \in [1..Len(override) + 1 -> Seq(Applications)] :
                /\ g[1] = base
                /\ \A k \in 2..Len(override) + 1 :
                        g[k] = MergeOne(g[k - 1], override[k - 1])
                /\ MergeConfigs(base, override) = g[Len(override) + 1]
<1>1. PICK max : max = Len(override) + 1
  OBVIOUS
<1>2. max \in Nat \ {0} /\ Len(override) \in Nat
  BY <1>1
<1>3. PICK X : X = Seq(Applications)
  OBVIOUS
<1>4. ASSUME NEW apps \in X, NEW over \in Applications
      PROVE  MergeOne(apps, over) \in X
  <2>1. PICK same : same = {i \in DOMAIN apps : apps[i].name = over.name}
    OBVIOUS
  <2>2. CASE same = {}
    BY <1>3, <2>1, <2>2 DEF MergeOne
  <2>3. CASE same # {}
    <3>1. PICK at : at = Min(same)
      OBVIOUS
    <3>2. same \in SUBSET Nat /\ same \subseteq 1..Len(apps)
      BY <1>3, <2>1
    <3>3. at \in 1..Len(apps)
      <4>1. at \in same
        BY <2>3, <3>1, <3>2, Smallest
      <4> QED
        BY <3>2, <4>1
    <3>4. MergeOne(apps, over) = [apps EXCEPT ![at] = MergeApp(apps[at], over)]
      BY <2>1, <2>3, <3>1 DEF MergeOne
    <3>5. MergeApp(apps[at], over) \in Applications
      BY <1>3, <3>3, MergedIsTyped
    <3> QED
      BY <1>3, <3>3, <3>4, <3>5
  <2> QED
    BY <2>2, <2>3
<1>5. PICK step : step = [k \in Nat |-> [apps \in X |->
                            IF k \in 1..Len(override) THEN MergeOne(apps, override[k])
                            ELSE apps]]
  OBVIOUS
<1>6. step \in [Nat -> [X -> X]]
  <2>1. \A k \in 1..Len(override) : override[k] \in Applications
    OBVIOUS
  <2> QED
    BY <1>4, <1>5, <2>1
<1>7. PICK g \in [1..max -> X] : Repeats(g, max, base, step)
  BY <1>2, <1>3, <1>6, Iterates
<1>8. g[1] = base /\ \A k \in 2..max : g[k] = MergeOne(g[k - 1], override[k - 1])
  <2>1. ASSUME NEW k \in 2..max PROVE g[k] = MergeOne(g[k - 1], override[k - 1])
    <3>1. k - 1 \in Nat /\ k - 1 \in 1..Len(override) /\ k - 1 \in 1..max
      BY <1>1, <1>2
    <3>2. g[k] = step[k - 1][g[k - 1]] /\ g[k - 1] \in X
      BY <1>7, <3>1 DEF Repeats
    <3> QED
      BY <1>5, <3>1, <3>2
  <2> QED
    BY <1>7, <2>1 DEF Repeats
<1> DEFINE Is(h) == h = [k \in 1..max |->
              IF k = 1 THEN base ELSE MergeOne(h[k - 1], override[k - 1])]
<1>9. Is(g)
  <2>1. \A k \in 1..max : k = 1 \/ k \in 2..max
    BY <1>2
  <2> QED
    BY <1>7, <1>8, <2>1
<1>10. ASSUME NEW h, Is(h) PROVE h = g
  <2>1. h = [k \in 1..max |-> h[k]] /\ g = [k \in 1..max |-> g[k]]
    BY <1>7, <1>10
  <2>2. /\ h[1] = base
        /\ \A k \in 2..max : h[k] = MergeOne(h[k - 1], override[k - 1])
    <3>1. 1 \in 1..max /\ \A k \in 2..max : k \in 1..max /\ k # 1
      BY <1>2
    <3>2. \A k \in 1..max : h[k] =
              IF k = 1 THEN base ELSE MergeOne(h[k - 1], override[k - 1])
      BY <1>10, Zenon
    <3> QED
      BY <3>1, <3>2
  <2>3. PICK bad : bad = {k \in 1..max : h[k] # g[k]}
    OBVIOUS
  <2>4. bad = {}
    <3>1. SUFFICES ASSUME bad # {} PROVE FALSE
      OBVIOUS
    <3>2. bad \in SUBSET Nat
      BY <1>2, <2>3
    <3>3. PICK k \in bad : \A j \in bad : k <= j
      BY <3>1, <3>2, Least
    <3>4. k \in 2..max /\ k - 1 \in 1..max /\ ~(k <= k - 1)
      BY <1>2, <1>8, <2>2, <2>3
    <3>5. h[k - 1] = g[k - 1]
      BY <2>3, <3>3, <3>4
    <3> QED
      BY <1>8, <2>2, <2>3, <3>4, <3>5
  <2> QED
    BY <2>1, <2>3, <2>4
<1>11. MergeConfigs(base, override) = (CHOOSE h : Is(h))[max]
  BY <1>1 DEF MergeConfigs
<1>12. (CHOOSE h : Is(h)) = g
  <2> HIDE DEF Is
  <2> QED
    BY <1>9, <1>10, Zenon
<1> QED
  BY <1>1, <1>3, <1>8, <1>11, <1>12

\* Merging any valid configurations gives a valid one.  It has the names of both,
\* and the applications of the base that the other one does not name are in it
\* as they were: so comparing reports the names of the other one, and no others.
THEOREM MergedStaysValid ==
    ASSUME NEW base \in Seq(Applications), ValidateConfig(base),
           NEW override \in Seq(Applications), ValidateConfig(override)
    PROVE  LET merged == MergeConfigs(base, override)
               diff == CompareConfigs(base, merged)
           IN  /\ ValidateConfig(merged)
               /\ NamesIn(merged) = NamesIn(base) \cup NamesIn(override)
               /\ diff.removed = {}
               /\ diff.added = NamesIn(override) \ NamesIn(base)
               /\ diff.modified \subseteq NamesIn(override)
<1>1. PICK max : max = Len(override)
  OBVIOUS
<1>2. /\ max \in Nat
      /\ \A i \in 1..max : override[i] \in Applications /\ ValidateAppConfig(override[i])
  BY <1>1 DEF ValidateConfig
<1>3. PICK g \in [1..max + 1 -> Seq(Applications)] :
        /\ g[1] = base
        /\ \A k \in 2..max + 1 : g[k] = MergeOne(g[k - 1], override[k - 1])
        /\ MergeConfigs(base, override) = g[max + 1]
  BY <1>1, MergeSteps
<1> DEFINE Earlier(k) == {override[i].name : i \in 1..k - 1}
<1>4. \A k \in 1..max + 1 : Comes(g[k], base, Earlier(k))
  <2>1. PICK bad : bad = {k \in 1..max + 1 : ~Comes(g[k], base, Earlier(k))}
    OBVIOUS
  <2>2. SUFFICES ASSUME bad # {} PROVE FALSE
    BY <2>1
  <2>3. bad \in SUBSET Nat
    BY <1>2, <2>1
  <2>4. PICK k \in bad : \A j \in bad : k <= j
    BY <2>2, <2>3, Least
  <2>5. Comes(base, base, {})
    BY DEF Comes
  <2>6. Earlier(1) = {}
    OBVIOUS
  <2>7. k # 1
    BY <1>3, <2>1, <2>5, <2>6
  <2>8. /\ k \in 2..max + 1 /\ k - 1 \in 1..max /\ k - 1 \in 1..max + 1
        /\ ~(k <= k - 1) /\ 1..k - 1 = (1..(k - 1) - 1) \cup {k - 1}
    BY <1>2, <2>1, <2>7
  <2>9. Comes(g[k - 1], base, Earlier(k - 1))
    BY <2>1, <2>4, <2>8
  <2>10. PICK over : over = override[k - 1]
    OBVIOUS
  <2>11. over \in Applications /\ ValidateAppConfig(over)
    BY <1>2, <2>8, <2>10
  <2>12. Comes(g[k], g[k - 1], {over.name})
    <3>1. PICK apps : apps = g[k - 1]
      OBVIOUS
    <3>2. apps \in Seq(Applications) /\ ValidateConfig(apps)
      BY <2>9, <3>1 DEF Comes
    <3>3. g[k] = MergeOne(apps, over)
      BY <1>3, <2>8, <2>10, <3>1
    <3>4. Comes(MergeOne(apps, over), apps, {over.name})
      BY <2>11, <3>2, MergeOneKeeps
    <3> QED
      BY <3>1, <3>3, <3>4
  <2>13. Earlier(k) = Earlier(k - 1) \cup {over.name}
    BY <2>8, <2>10
  <2>14. Comes(g[k], base, Earlier(k))
    <3> HIDE DEF Earlier
    <3> QED
      BY <2>9, <2>12, <2>13 DEF Comes
  <2> QED
    BY <2>1, <2>14
<1>5. Earlier(max + 1) = NamesIn(override) /\ max + 1 \in 1..max + 1
  BY <1>1, <1>2 DEF NamesIn
<1>6. Comes(MergeConfigs(base, override), base, NamesIn(override))
  BY <1>3, <1>4, <1>5
<1> QED
  BY <1>6 DEF Comes, CompareConfigs

\* So do the configurations that the runs look at.
THEOREM DerivedStaysValid ==
    DerivedConfigsStayValid /\ (Spec => []ConfigsStayValid)
<1>1. ASSUME NEW n \in Names, NEW app \in ValidApps(n)
      PROVE  app \in Applications /\ ValidateAppConfig(app) /\ app.name = n
  <2>1. ValidateAppConfig(app)
    BY DEF ValidApps
  <2>2. PICK f \in Fields \ {"name"} :
            \E v \in ValuesOf(f) : app = [GoodApp(n) EXCEPT ![f] = v]
    BY DEF ValidApps
  <2>3. PICK v \in ValuesOf(f) : app = [GoodApp(n) EXCEPT ![f] = v]
    BY <2>2
  <2>4. app \in Applications
    BY <2>3, GoodApplication, Changed
  <2>5. app.name = GoodApp(n).name
    BY <2>3 DEF GoodApp
  <2> QED
    BY <2>1, <2>4, <2>5, GoodApplication
<1>2. ASSUME NEW app \in ValidApps("a"), NEW n \in {"a", "b"}, NEW over \in ValidApps(n),
             NEW base, base = <<app, GoodApp("long")>>,
             NEW merged, merged = MergeConfigs(base, <<over>>),
             NEW diff, diff = CompareConfigs(base, merged)
      PROVE  /\ ValidateConfig(merged)
             /\ diff.removed = {}
             /\ diff.added \cup diff.modified \subseteq {over.name}
             /\ over.name \notin NamesIn(base) => diff.added = {over.name}
  <2>1. /\ app \in Applications /\ ValidateAppConfig(app) /\ app.name = "a"
        /\ over \in Applications /\ ValidateAppConfig(over)
    BY <1>1 DEF Names
  <2>2. PICK good : good = GoodApp("long")
    OBVIOUS
  <2>3. good \in Applications /\ good.name = "long" /\ ValidateAppConfig(good)
    <3>1. good \in Applications /\ good.name = "long" /\ good.script = "other"
      BY <2>2, GoodApplication DEF Names, GoodApp, Fields
    <3>2. \A f \in Fields \ {"name", "script"} : good[f] = "absent"
      BY <2>2 DEF GoodApp
    <3>3. ValidateAppConfig(good)
      BY <3>1, <3>2 DEF ValidateAppConfig, Names, Fields, Texts, LogFiles, IsString,
         NotBlank, ValidPath, SanitizeFilePath, Optional, ValidEnv, Given
    <3> QED
      BY <3>1, <3>3
  <2>4. base \in Seq(Applications) /\ ValidateConfig(base)
    <3>1. Len(base) = 2 /\ base[1] = app /\ base[2] = good /\ base \in Seq(Applications)
      BY <1>2, <2>1, <2>2, <2>3
    <3>2. \A i \in 1..2 : i = 1 \/ i = 2
      OBVIOUS
    <3>3. base # <<>>
      BY <1>2
    <3> QED
      BY <2>1, <2>3, <3>1, <3>2, <3>3 DEF ValidateConfig
  <2>5. PICK override : override = <<over>>
    OBVIOUS
  <2>6. /\ override \in Seq(Applications) /\ ValidateConfig(override)
        /\ NamesIn(override) = {over.name}
    <3>1. Len(override) = 1 /\ override[1] = over /\ override \in Seq(Applications)
      BY <2>1, <2>5
    <3>2. \A i \in 1..1 : i = 1
      OBVIOUS
    <3>3. 1 \in 1..1
      OBVIOUS
    <3>4. override # <<>>
      BY <2>5
    <3>5. ValidateConfig(override)
      BY <2>1, <3>1, <3>2, <3>4 DEF ValidateConfig
    <3> QED
      BY <3>1, <3>2, <3>3, <3>5 DEF NamesIn
  <2>7. /\ ValidateConfig(merged)
        /\ NamesIn(merged) = NamesIn(base) \cup NamesIn(override)
        /\ diff.removed = {}
        /\ diff.added = NamesIn(override) \ NamesIn(base)
        /\ diff.modified \subseteq NamesIn(override)
    <3>1. merged = MergeConfigs(base, override)
      BY <1>2, <2>5
    <3>2. diff = CompareConfigs(base, merged)
      BY <1>2
    <3> QED
      BY <2>4, <2>6, <3>1, <3>2, MergedStaysValid, Zenon
  <2> QED
    BY <2>6, <2>7
<1>3. \A app \in BoundedApps :
        LET new == NormalizeApp(app) IN
        ValidateAppConfig(app) /\ ~NormalizeThrows(app) =>
            ValidateAppConfig(new) /\ NormalizeApp(new) = new
  BY BoundedAppsAreApplications, NormalizedStaysValid
<1>4. DerivedConfigsStayValid
  BY <1>2, <1>3 DEF DerivedConfigsStayValid
<1>5. ConfigsStayValid
  BY <1>4 DEF ConfigsStayValid
<1> QED
  BY <1>4, <1>5, PTL

-----------------------------------------------------------------------------
(***************************************************************************)
(* Groups with dependencies.                                               *)
(***************************************************************************)

\* A level holds the processes that list nothing twice and of which all
\* dependencies have been taken.
LEMMA LevelTakes ==
    ASSUME NEW D, NEW names, IsFiniteSet(names),
           NEW dependsOn, \A m \in names : dependsOn[m] \in Seq(D),
           NEW visited \in SUBSET names, NEW n \in names
    PROVE  n \in NextLevel(dependsOn, names, visited) <=>
              /\ n \notin visited /\ ~Doubled(dependsOn, names, n)
              /\ ToSet(dependsOn[n]) \cap names \subseteq visited
<1>1. PICK list \in Seq(D) : list = dependsOn[n]
  OBVIOUS
<1>2. PICK listed : listed = {i \in DOMAIN list : list[i] \in names}
  OBVIOUS
<1>3. PICK wanted : wanted = ToSet(list) \cap names
  OBVIOUS
<1>4. PICK taken : taken = ToSet(list) \cap visited
  OBVIOUS
<1>5. IsFiniteSet(listed)
  <2>1. Len(list) \in Nat /\ DOMAIN list = 1..Len(list)
    OBVIOUS
  <2>2. IsFiniteSet(1..Len(list))
    BY <2>1, FS_Interval
  <2> QED
    BY <1>2, <2>1, <2>2, FS_Subset
<1>6. IsFiniteSet(wanted) /\ Cardinality(wanted) <= Cardinality(listed)
  <2>1. [i \in listed |-> list[i]] \in Surjection(listed, wanted)
    BY <1>2, <1>3 DEF Surjection, ToSet
  <2> QED
    BY <1>5, <2>1, FS_Surjection
<1>7. /\ IsFiniteSet(taken) /\ Cardinality(taken) <= Cardinality(wanted)
      /\ Cardinality(taken) = Cardinality(wanted) => taken = wanted
  <2>1. taken \subseteq wanted
    BY <1>3, <1>4
  <2> QED
    BY <1>6, <2>1, FS_Subset
<1>8. {Cardinality(listed), Cardinality(wanted), Cardinality(taken)} \subseteq Nat
  BY <1>5, <1>6, <1>7, FS_CardinalityType
<1>9. Cardinality(listed) = Cardinality(taken) <=>
        Cardinality(wanted) = Cardinality(listed) /\ taken = wanted
  BY <1>6, <1>7, <1>8
<1>10. Doubled(dependsOn, names, n) <=> Cardinality(wanted) # Cardinality(listed)
  BY <1>1, <1>2, <1>3, <1>6, <1>8 DEF Doubled, InDegree
<1>11. taken = wanted <=> ToSet(list) \cap names \subseteq visited
  BY <1>3, <1>4
<1>12. n \in NextLevel(dependsOn, names, visited) <=>
         n \notin visited /\ Cardinality(listed) = Cardinality(taken)
  BY <1>1, <1>2, <1>4 DEF NextLevel, InDegree
<1> QED
  BY <1>1, <1>9, <1>10, <1>11, <1>12

LEMMA VisitedSteps ==
    ASSUME NEW names, IsFiniteSet(names), NEW dependsOn
    PROVE  LET max == Cardinality(names) + 1
               v == Visited(dependsOn, names)
           IN  /\ Cardinality(names) \in Nat
               /\ v \in [1..max -> SUBSET names] /\ v[1] = {}
               /\ \A k \in 2..max :
                    v[k] = v[k - 1] \cup NextLevel(dependsOn, names, v[k - 1])
<1>1. PICK max : max = Cardinality(names) + 1
  OBVIOUS
<1>2. Cardinality(names) \in Nat /\ max \in Nat \ {0}
  BY <1>1, FS_CardinalityType
<1>3. PICK more : more = [v \in SUBSET names |-> v \cup NextLevel(dependsOn, names, v)]
  OBVIOUS
<1>4. more \in [SUBSET names -> SUBSET names]
  BY <1>3 DEF NextLevel
<1>5. PICK g \in [1..max -> SUBSET names] :
        g[1] = {} /\ \A k \in 2..max : g[k] = more[g[k - 1]]
  <2>1. PICK X : X = SUBSET names
    OBVIOUS
  <2>2. PICK first : first = {}
    OBVIOUS
  <2>3. PICK step : step = [i \in Nat |-> more]
    OBVIOUS
  <2>4. first \in X /\ step \in [Nat -> [X -> X]]
    BY <1>4, <2>1, <2>2, <2>3
  <2>5. PICK g \in [1..max -> X] : Repeats(g, max, first, step)
    BY <1>2, <2>4, Iterates
  <2>6. \A k \in 2..max : step[k - 1] = more
    BY <1>2, <2>3
  <2> QED
    BY <2>1, <2>2, <2>5, <2>6 DEF Repeats
<1> DEFINE Is(h) == h = [k \in 1..max |->
              IF k = 1 THEN {} ELSE h[k - 1] \cup NextLevel(dependsOn, names, h[k - 1])]
<1>6. Is(g)
  <2>1. ASSUME NEW k \in 1..max
        PROVE  g[k] = IF k = 1 THEN {}
                      ELSE g[k - 1] \cup NextLevel(dependsOn, names, g[k - 1])
    <3>1. CASE k = 1
      BY <1>5, <3>1
    <3>2. CASE k # 1
      <4>1. k \in 2..max /\ k - 1 \in 1..max
        BY <1>2, <3>2
      <4> QED
        BY <1>3, <1>5, <3>2, <4>1
    <3> QED
      BY <3>1, <3>2
  <2> QED
    BY <1>5, <2>1
<1>7. Visited(dependsOn, names) = CHOOSE h : Is(h)
  BY <1>1 DEF Visited
<1>8. PICK v : v = Visited(dependsOn, names)
  OBVIOUS
<1>9. Is(v)
  <2> HIDE DEF Is
  <2> QED
    BY <1>6, <1>7, <1>8, Zenon
<1>10. /\ v[1] = {}
       /\ \A k \in 2..max : v[k] = v[k - 1] \cup NextLevel(dependsOn, names, v[k - 1])
  <2>1. 1 \in 1..max /\ \A k \in 2..max : k \in 1..max /\ k # 1
    BY <1>2
  <2>2. \A k \in 1..max : v[k] =
            IF k = 1 THEN {} ELSE v[k - 1] \cup NextLevel(dependsOn, names, v[k - 1])
    BY <1>9, Zenon
  <2> QED
    BY <2>1, <2>2
<1>11. \A k \in 1..max : v[k] \in SUBSET names
  <2>1. PICK bad : bad = {k \in 1..max : v[k] \notin SUBSET names}
    OBVIOUS
  <2>2. SUFFICES ASSUME bad # {} PROVE FALSE
    BY <2>1
  <2>3. PICK k \in bad : \A j \in bad : k <= j
    <3>1. bad \in SUBSET Nat
      BY <1>2, <2>1
    <3> QED
      BY <2>2, <3>1, Least
  <2>4. k \in 2..max /\ k - 1 \in 1..max /\ k - 1 \notin bad
    <3>1. k \in 1..max /\ k # 1
      BY <1>2, <1>10, <2>1
    <3>2. k \in 2..max /\ k - 1 \in 1..max /\ ~(k <= k - 1)
      BY <1>2, <3>1
    <3> QED
      BY <2>3, <3>2
  <2> QED
    BY <1>10, <2>1, <2>3, <2>4 DEF NextLevel
<1>12. v \in [1..max -> SUBSET names]
  BY <1>9, <1>11
<1> QED
  BY <1>1, <1>2, <1>8, <1>10, <1>12

\* A group of n processes has at most n levels that are not empty.
LEMMA LevelsEnd ==
    ASSUME NEW names, IsFiniteSet(names), NEW dependsOn
    PROVE  \E k \in 1..Cardinality(names) + 1 :
                NextLevel(dependsOn, names, Visited(dependsOn, names)[k]) = {}
<1>1. PICK v : v = Visited(dependsOn, names)
  OBVIOUS
<1>2. PICK max : max = Cardinality(names) + 1
  OBVIOUS
<1>3. /\ Cardinality(names) \in Nat /\ max \in Nat \ {0}
      /\ v \in [1..max -> SUBSET names] /\ v[1] = {}
      /\ \A k \in 2..max : v[k] = v[k - 1] \cup NextLevel(dependsOn, names, v[k - 1])
  BY <1>1, <1>2, VisitedSteps
<1>4. SUFFICES ASSUME \A k \in 1..max : NextLevel(dependsOn, names, v[k]) # {}
               PROVE  FALSE
  BY <1>1, <1>2
<1>5. \A k \in 1..max : IsFiniteSet(v[k]) /\ Cardinality(v[k]) \in Nat
  <2>1. ASSUME NEW k \in 1..max
        PROVE  IsFiniteSet(v[k]) /\ Cardinality(v[k]) \in Nat
    <3>1. v[k] \in SUBSET names
      BY <1>3
    <3> QED
      BY <3>1, FS_Subset, FS_CardinalityType
  <2> QED
    BY <2>1
<1>6. PICK bad : bad = {k \in 1..max : Cardinality(v[k]) < k - 1}
  OBVIOUS
<1>7. bad = {}
  <2>1. SUFFICES ASSUME bad # {} PROVE FALSE
    OBVIOUS
  <2>2. bad \in SUBSET Nat
    BY <1>3, <1>6
  <2>3. PICK k \in bad : \A j \in bad : k <= j
    BY <2>1, <2>2, Least
  <2>4. k \in 2..max /\ k - 1 \in 1..max /\ ~(k <= k - 1) /\ Cardinality(v[k]) < k - 1
    BY <1>3, <1>5, <1>6, <2>3
  <2>5. Cardinality(v[k - 1]) >= (k - 1) - 1
    BY <1>5, <1>6, <2>3, <2>4
  <2>6. v[k - 1] \in SUBSET v[k] /\ v[k] # v[k - 1]
    BY <1>3, <1>4, <2>4 DEF NextLevel
  <2>7. k \in 1..max /\ IsFiniteSet(v[k])
    BY <1>3, <1>5, <2>4
  <2>8. /\ Cardinality(v[k - 1]) <= Cardinality(v[k])
        /\ Cardinality(v[k]) # Cardinality(v[k - 1])
    BY <2>6, <2>7, FS_Subset
  <2> QED
    BY <1>3, <1>5, <2>4, <2>5, <2>7, <2>8
<1>8. Cardinality(v[max]) >= max - 1 /\ v[max] \in SUBSET names
  BY <1>3, <1>5, <1>6, <1>7
<1>9. v[max] = names
  BY <1>2, <1>3, <1>5, <1>8, FS_Subset
<1>10. NextLevel(dependsOn, names, names) = {}
  BY DEF NextLevel
<1> QED
  BY <1>3, <1>4, <1>9, <1>10

\* The levels of the order: what is taken by each, and that no more is left.
LEMMA OrderLevels ==
    ASSUME NEW names, IsFiniteSet(names), NEW dependsOn
    PROVE  \E last \in 0..Cardinality(names) :
                /\ StartupOrder(dependsOn, names) =
                      [i \in 1..last |-> NextLevel(dependsOn, names,
                                            Visited(dependsOn, names)[i])]
                /\ NextLevel(dependsOn, names, Visited(dependsOn, names)[last + 1]) = {}
<1>1. PICK v : v = Visited(dependsOn, names)
  OBVIOUS
<1>2. DOMAIN v = 1..Cardinality(names) + 1 /\ Cardinality(names) \in Nat
  BY <1>1, VisitedSteps
<1>3. PICK ends : ends = {k \in DOMAIN v : NextLevel(dependsOn, names, v[k]) = {}}
  OBVIOUS
<1>4. ends # {} /\ ends \in SUBSET Nat
  <2>1. \E k \in 1..Cardinality(names) + 1 : NextLevel(dependsOn, names, v[k]) = {}
    BY <1>1, LevelsEnd
  <2>2. ends # {}
    BY <1>2, <1>3, <2>1
  <2>3. ends \subseteq 1..Cardinality(names) + 1
    BY <1>2, <1>3
  <2> QED
    BY <1>2, <2>2, <2>3
<1>5. Min(ends) \in ends
  BY <1>4, Smallest
<1>6. StartupOrder(dependsOn, names) =
        [i \in 1..Min(ends) - 1 |-> NextLevel(dependsOn, names, v[i])]
  BY <1>1, <1>3 DEF StartupOrder
<1>7. PICK last : last = Min(ends) - 1
  OBVIOUS
<1>8. last \in 0..Cardinality(names) /\ last + 1 = Min(ends)
  BY <1>2, <1>3, <1>5, <1>7
<1> QED
  BY <1>1, <1>3, <1>5, <1>6, <1>7, <1>8

\* All sets of a chain up to the j-th are in this one, and what it holds has come
\* with one of the levels before it.
Grown(v, order, j) ==
    /\ \A i \in 1..j : v[i] \subseteq v[j]
    /\ \A n \in v[j] : \E i \in 1..j - 1 : n \in order[i]

\* A chain of sets that takes a level at each step.
LEMMA ChainGrows ==
    ASSUME NEW last \in Nat, NEW v, NEW order, v[1] = {},
           \A k \in 1..last : v[k + 1] = v[k] \cup order[k]
    PROVE  \A j \in 1..last + 1 : Grown(v, order, j)
<1> USE DEF Grown
<1>1. PICK bad : bad = {j \in 1..last + 1 : ~Grown(v, order, j)}
  OBVIOUS
<1>2. SUFFICES ASSUME bad # {} PROVE FALSE
  BY <1>1
<1>3. bad \in SUBSET Nat
  BY <1>1
<1>4. PICK j \in bad : \A k \in bad : j <= k
  BY <1>2, <1>3, Least
<1>5. j \in 1..last + 1 /\ ~Grown(v, order, j)
  BY <1>1, <1>4
<1>6. j # 1
  BY <1>5
<1>7. /\ j \in 2..last + 1 /\ j - 1 \in 1..last /\ j - 1 \in 1..last + 1
      /\ ~(j <= j - 1) /\ (j - 1) + 1 = j
  BY <1>5, <1>6
<1>8. Grown(v, order, j - 1)
  BY <1>1, <1>4, <1>7
<1>9. v[j] = v[j - 1] \cup order[j - 1]
  BY <1>7
<1>10. \A i \in 1..j : v[i] \subseteq v[j]
  <2>1. ASSUME NEW i \in 1..j PROVE v[i] \subseteq v[j]
    <3>1. i = j \/ i \in 1..(j - 1)
      BY <1>7
    <3> QED
      BY <1>8, <1>9, <3>1
  <2> QED
    BY <2>1
<1>11. \A n \in v[j] : \E i \in 1..j - 1 : n \in order[i]
  <2>1. ASSUME NEW n \in v[j] PROVE \E i \in 1..j - 1 : n \in order[i]
    <3>1. CASE n \in order[j - 1]
      BY <1>7, <3>1
    <3>2. CASE n \in v[j - 1]
      <4>1. PICK i \in 1..(j - 1) - 1 : n \in order[i]
        BY <1>8, <3>2
      <4> QED
        BY <1>7, <4>1
    <3> QED
      BY <1>9, <3>1, <3>2
  <2> QED
    BY <2>1
<1> QED
  BY <1>5, <1>10, <1>11

\* resolveDependencies is right for every finite group, and whatever its
\* processes list, themselves and processes out of the group included.
THEOREM OrdersEveryGroup ==
    ASSUME NEW D, NEW names, IsFiniteSet(names),
           NEW dependsOn, \A n \in names : dependsOn[n] \in Seq(D)
    PROVE  Ordered(dependsOn, names)
<1>1. PICK v : v = Visited(dependsOn, names)
  OBVIOUS
<1>2. PICK order : order = StartupOrder(dependsOn, names)
  OBVIOUS
<1>3. PICK last \in 0..Cardinality(names) :
        /\ order = [i \in 1..last |-> NextLevel(dependsOn, names, v[i])]
        /\ NextLevel(dependsOn, names, v[last + 1]) = {}
  BY <1>1, <1>2, OrderLevels
<1>4. /\ Cardinality(names) \in Nat /\ v[1] = {}
      /\ v \in [1..Cardinality(names) + 1 -> SUBSET names]
      /\ \A k \in 2..Cardinality(names) + 1 :
            v[k] = v[k - 1] \cup NextLevel(dependsOn, names, v[k - 1])
  BY <1>1, VisitedSteps
<1>5. last \in Nat /\ last + 1 \in 1..Cardinality(names) + 1
  BY <1>3, <1>4
<1>6. \A k \in 1..last + 1 : v[k] \in SUBSET names
  <2>1. \A k \in 1..last + 1 : k \in 1..Cardinality(names) + 1
    BY <1>4, <1>5
  <2> QED
    BY <1>4, <2>1
<1>7. Len(order) = last /\ DOMAIN order = 1..last
  <2>1. order \in [1..last -> SUBSET names]
    BY <1>3, <1>5 DEF NextLevel
  <2>2. order \in Seq(SUBSET names)
    BY <1>5, <2>1
  <2> QED
    BY <1>5, <2>1, <2>2
<1>8. \A k \in 1..last : v[k + 1] = v[k] \cup order[k]
  <2>1. ASSUME NEW k \in 1..last PROVE v[k + 1] = v[k] \cup order[k]
    <3>1. k + 1 \in 2..Cardinality(names) + 1 /\ (k + 1) - 1 = k
      BY <1>4, <1>5
    <3>2. v[k + 1] = v[k] \cup NextLevel(dependsOn, names, v[k])
      BY <1>4, <3>1
    <3> QED
      BY <1>3, <3>2
  <2> QED
    BY <2>1
<1>9. \A j \in 1..last + 1 :
        /\ \A i \in 1..j : v[i] \subseteq v[j]
        /\ \A n \in v[j] : \E i \in 1..j - 1 : n \in order[i]
  <2>1. \A j \in 1..last + 1 : Grown(v, order, j)
    BY <1>4, <1>5, <1>8, ChainGrows
  <2> QED
    BY <2>1 DEF Grown
<1>10. \A i \in 1..last : \A n \in names :
        n \in order[i] <=> /\ n \notin v[i] /\ ~Doubled(dependsOn, names, n)
                           /\ ToSet(dependsOn[n]) \cap names \subseteq v[i]
  <2>1. ASSUME NEW i \in 1..last, NEW n \in names
        PROVE  n \in order[i] <=>
                 /\ n \notin v[i] /\ ~Doubled(dependsOn, names, n)
                 /\ ToSet(dependsOn[n]) \cap names \subseteq v[i]
    <3>1. v[i] \in SUBSET names
      BY <1>5, <1>6
    <3> QED
      BY <1>3, <3>1, LevelTakes
  <2> QED
    BY <2>1
<1>11. \A i \in 1..last : order[i] \subseteq names
  BY <1>3 DEF NextLevel
<1>12. UNION ToSet(order) = v[last + 1]
  <2>1. ASSUME NEW i \in 1..last PROVE order[i] \subseteq v[last + 1]
    <3>1. i + 1 \in 1..last + 1 /\ last + 1 \in 1..last + 1
      BY <1>5
    <3>2. v[i + 1] \subseteq v[last + 1]
      BY <1>5, <1>9, <3>1
    <3> QED
      BY <1>8, <3>2
  <2>2. ToSet(order) = {order[i] : i \in 1..last}
    BY <1>7 DEF ToSet
  <2> QED
    BY <1>5, <1>9, <2>1, <2>2
<1>13. Circular(dependsOn, names) = names \ v[last + 1]
  BY <1>2, <1>12 DEF Circular
<1>14. ASSUME \A n \in names : ~Doubled(dependsOn, names, n)
       PROVE  names \ v[last + 1] \subseteq Cyclic(dependsOn, names)
  <2>1. PICK left : left = names \ v[last + 1]
    OBVIOUS
  <2>2. ASSUME NEW n \in left
        PROVE  \E d \in left : <<n, d>> \in Depends(dependsOn, names)
    <3>1. n \in names /\ n \notin v[last + 1] /\ v[last + 1] \in SUBSET names
      BY <1>5, <1>6, <2>1, <2>2
    <3>2. n \notin NextLevel(dependsOn, names, v[last + 1])
      BY <1>3
    <3>3. ~(ToSet(dependsOn[n]) \cap names \subseteq v[last + 1])
      BY <1>14, <3>1, <3>2, LevelTakes
    <3> QED
      BY <2>1, <3>1, <3>3 DEF Depends
  <2>3. left \in SUBSET names
    BY <2>1
  <2> QED
    BY <2>1, <2>2, <2>3 DEF Cyclic
<1>15. Cyclic(dependsOn, names) \subseteq names \ v[last + 1]
  <2>1. SUFFICES ASSUME NEW s \in SUBSET names,
                        \A n \in s :
                            \E d \in s : <<n, d>> \in Depends(dependsOn, names)
                 PROVE  s \subseteq names \ v[last + 1]
    BY DEF Cyclic
  <2>2. PICK taken : taken = {k \in 1..last : order[k] \cap s # {}}
    OBVIOUS
  <2>3. taken = {}
    <3>1. SUFFICES ASSUME taken # {} PROVE FALSE
      OBVIOUS
    <3>2. taken \in SUBSET Nat
      BY <2>2
    <3>3. PICK k \in taken : \A j \in taken : k <= j
      BY <3>1, <3>2, Least
    <3>4. k \in 1..last /\ k \in 1..last + 1
      BY <1>5, <2>2, <3>3
    <3>5. PICK n \in order[k] : n \in s
      BY <2>2, <3>3
    <3>6. ToSet(dependsOn[n]) \cap names \subseteq v[k]
      BY <1>10, <2>1, <3>4, <3>5
    <3>7. PICK d \in s : <<n, d>> \in Depends(dependsOn, names)
      BY <2>1, <3>5
    <3>8. d \in v[k]
      BY <3>6, <3>7 DEF Depends
    <3>9. PICK i \in 1..k - 1 : d \in order[i]
      BY <1>9, <3>4, <3>8
    <3>10. i \in taken /\ ~(k <= i)
      BY <1>5, <2>2, <3>4, <3>7, <3>9
    <3> QED
      BY <3>3, <3>10
  <2>4. v[last + 1] \cap s = {}
    BY <1>5, <1>9, <2>2, <2>3
  <2> QED
    BY <2>1, <2>4
<1>16. \A i, j \in 1..last : i # j => order[i] \cap order[j] = {}
  <2>1. ASSUME NEW i \in 1..last, NEW j \in 1..last, i < j
        PROVE  order[i] \cap order[j] = {}
    <3>1. i + 1 \in 1..j /\ j \in 1..last + 1
      BY <1>5, <2>1
    <3>2. order[i] \subseteq v[i + 1] /\ v[i + 1] \subseteq v[j]
      BY <1>8, <1>9, <2>1, <3>1
    <3> QED
      BY <1>10, <1>11, <2>1, <3>2
  <2>2. \A i, j \in 1..last : i # j => i < j \/ j < i
    BY <1>5
  <2> QED
    BY <2>1, <2>2
<1>17. ASSUME NEW e \in Depends(dependsOn, names), e[1] \notin Circular(dependsOn, names)
       PROVE  (CHOOSE i \in 1..last : e[2] \in order[i])
                < (CHOOSE i \in 1..last : e[1] \in order[i])
  <2>1. e[1] \in names /\ e[2] \in ToSet(dependsOn[e[1]]) \cap names
    BY <1>17 DEF Depends
  <2>2. e[1] \in v[last + 1]
    BY <1>13, <1>17, <2>1
  <2>3. PICK i \in 1..last : e[1] \in order[i]
    BY <1>5, <1>9, <2>2
  <2>4. e[2] \in v[i]
    BY <1>10, <2>1, <2>3
  <2>5. PICK j \in 1..i - 1 : e[2] \in order[j]
    BY <1>5, <1>9, <2>3, <2>4
  <2>6. j \in 1..last /\ j < i
    BY <1>5, <2>3, <2>5
  <2>7. (CHOOSE k \in 1..last : e[1] \in order[k]) = i
    BY <1>16, <2>3
  <2>8. (CHOOSE k \in 1..last : e[2] \in order[k]) = j
    BY <1>16, <2>5, <2>6
  <2> QED
    BY <2>6, <2>7, <2>8
<1>18. ASSUME NEW i \in 2..last, NEW n \in order[i]
       PROVE  \E d \in order[i - 1] : <<n, d>> \in Depends(dependsOn, names)
  <2>1. i \in 1..last /\ i - 1 \in 1..last /\ (i - 1) + 1 = i /\ n \in names
    BY <1>5, <1>11
  <2>2. /\ n \notin v[i] /\ ~Doubled(dependsOn, names, n)
        /\ ToSet(dependsOn[n]) \cap names \subseteq v[i]
    BY <1>10, <1>18, <2>1
  <2>3. v[i] = v[i - 1] \cup order[i - 1]
    BY <1>8, <2>1
  <2>4. n \notin order[i - 1] /\ n \notin v[i - 1]
    BY <2>2, <2>3
  <2>5. ~(ToSet(dependsOn[n]) \cap names \subseteq v[i - 1])
    BY <1>10, <2>1, <2>2, <2>4
  <2>6. PICK d \in ToSet(dependsOn[n]) \cap names : d \in order[i - 1]
    BY <2>2, <2>3, <2>5
  <2> QED
    BY <2>1, <2>6 DEF Depends
<1>19. /\ Cyclic(dependsOn, names) \subseteq Circular(dependsOn, names)
       /\ (\A n \in names : ~Doubled(dependsOn, names, n)) =>
            Circular(dependsOn, names) \subseteq Cyclic(dependsOn, names)
  BY <1>13, <1>14, <1>15
<1>20. 1..last = 1..Len(order) /\ 2..last = 2..Len(order)
  BY <1>7
<1> QED
  BY <1>2, <1>16, <1>17, <1>18, <1>19, <1>20 DEF Ordered

\* So is every group that the runs look at.
THEOREM OrdersDependencies ==
    DependenciesFirst /\ (Spec => []GroupsAreOrdered)
<1>1. DependenciesFirst
  <2> SUFFICES ASSUME NEW dependsOn \in [Members -> BoundedLists],
                      NEW names \in SUBSET Members
               PROVE  Ordered(dependsOn, names)
    BY DEF DependenciesFirst
  <2>1. IsFiniteSet(names)
    BY MembersAssumption, FS_Subset
  <2>2. ASSUME NEW n \in names PROVE dependsOn[n] \in Seq(Members)
    <3>1. PICK k \in 0..2 : dependsOn[n] \in [1..k -> Members]
      BY DEF BoundedLists
    <3> QED
      BY <3>1
  <2> QED
    BY <2>1, <2>2, OrdersEveryGroup
<1>2. GroupsAreOrdered
  BY <1>1 DEF GroupsAreOrdered
<1> QED
  BY <1>1, <1>2, PTL

-----------------------------------------------------------------------------
(***************************************************************************)
(* The command line.                                                       *)
(***************************************************************************)

\* What an attempt that meets m comes to.
LEMMA ExecuteCommandTells ==
    ASSUME NEW m \in Meets
    PROVE  /\ ExecuteCommand(m) = "answered" <=> m \in {"done", "partly"}
           /\ ExecuteCommand(m) = "noDaemon" <=> m = "absent"
           /\ ExecuteCommand(m) = "crash" <=> m = "refused"
           /\ ExecuteCommand(m) # "notReady"
           /\ m \in {"done", "partly"} => Connects(m)
           /\ m \in {"absent", "slow", "refused"} <=> ~Connects(m)
  BY DEF Meets, ExecuteCommand, SendCommand, Connects

\* A wait of load that gives up, has not met a daemon that does what it is asked.
LEMMA WaitTells ==
    ASSUME NEW ms \in Seq(Meets)
    PROVE  /\ WaitForDaemonReady(ms) \in {"answered", "crash", "notReady"}
           /\ WaitForDaemonReady(ms) = "notReady" => "done" \notin ToSet(ms)
<1>1. PICK ends : ends = {i \in DOMAIN ms : ms[i] \in {"done", "partly", "refused"}}
  OBVIOUS
<1>2. WaitForDaemonReady(ms) =
        IF ends = {} THEN "notReady" ELSE ExecuteCommand(ms[Min(ends)])
  BY <1>1 DEF WaitForDaemonReady
<1>3. ASSUME ends # {}
      PROVE  ExecuteCommand(ms[Min(ends)]) \in {"answered", "crash"}
  <2>1. ends \in SUBSET Nat
    BY <1>1
  <2>2. Min(ends) \in ends
    BY <1>3, <2>1, Smallest
  <2>3. ms[Min(ends)] \in Meets /\ ms[Min(ends)] \in {"done", "partly", "refused"}
    BY <1>1, <2>2
  <2> QED
    BY <2>3, ExecuteCommandTells
<1>4. ends = {} => "done" \notin ToSet(ms)
  BY <1>1 DEF ToSet
<1> QED
  BY <1>2, <1>3, <1>4

\* The exit codes of the command line tell the truth, whatever a command meets
\* and however often load looks whether its daemon is up.
THEOREM ExitCodesTellTheTruth == ExitCodesAreTrue
<1> SUFFICES ASSUME NEW o \in Options, NEW m \in Meets, NEW first \in Meets,
                    NEW b \in BOOLEAN
             PROVE
        /\ \A r \in {Start(o, m), Stop(o, m), Restart(o, m), Exit(m), List(m),
                     ClearLog(o, m), Log(o, b, m), TaskStatus(m), TaskList(m),
                     TaskKill(m), TaskLog(o.all, b, m), Run(o, first, m)} :
            /\ r.code = 0 => m \in {"done", "partly", "absent"}
            /\ r.code = 0 /\ m # "absent" => r.sent
            /\ r.code = 1 => ~(r.sent /\ m \in {"done", "partly"})
            /\ ~r.spawned
        /\ \A ms \in Attempts :
            LET r == Load(b, first, ms, m) IN
            /\ r.code = 0 => \/ r.sent /\ m \in {"done", "partly"}
                             \/ r.spawned /\ "done" \notin ToSet(ms)
            /\ r.code = 1 => ~(r.sent /\ m \in {"done", "partly"})
            /\ r.spawned => first \in {"absent", "slow"}
  BY DEF ExitCodesAreTrue
<1>1. Usage.code = 1 /\ ~Usage.sent /\ ~Usage.spawned
  BY DEF Usage
<1>2. /\ ~Strict(m).spawned /\ (Strict(m).sent <=> Connects(m))
      /\ Strict(m).code = IF m \in {"done", "partly"} THEN 0 ELSE 1
  BY ExecuteCommandTells DEF Strict, Ended
<1>3. /\ ~Forgiving(m).spawned /\ (Forgiving(m).sent <=> Connects(m))
      /\ Forgiving(m).code = IF m \in {"done", "partly", "absent"} THEN 0 ELSE 1
  BY ExecuteCommandTells DEF Forgiving, Ended
<1>4. ASSUME NEW r \in {Start(o, m), Stop(o, m), Restart(o, m), Exit(m), List(m),
                     ClearLog(o, m), Log(o, b, m), TaskStatus(m), TaskList(m),
                     TaskKill(m), TaskLog(o.all, b, m), Run(o, first, m)}
      PROVE  r \in {Usage, Strict(m), Forgiving(m)}
  BY DEF Start, Stop, Restart, Exit, List, ClearLog, Log, StreamLogs, TaskStatus,
         TaskList, TaskKill, TaskLog, Run
<1>5. ASSUME NEW r \in {Usage, Strict(m), Forgiving(m)}
      PROVE  /\ r.code = 0 => m \in {"done", "partly", "absent"}
             /\ r.code = 0 /\ m # "absent" => r.sent
             /\ r.code = 1 => ~(r.sent /\ m \in {"done", "partly"})
             /\ ~r.spawned
  BY <1>1, <1>2, <1>3, ExecuteCommandTells
<1>6. ASSUME NEW ms \in Attempts, NEW r, r = Load(b, first, ms, m)
      PROVE  /\ r.code = 0 => \/ r.sent /\ m \in {"done", "partly"}
                              \/ r.spawned /\ "done" \notin ToSet(ms)
             /\ r.code = 1 => ~(r.sent /\ m \in {"done", "partly"})
             /\ r.spawned => first \in {"absent", "slow"}
  <2>1. ms \in Seq(Meets)
    <3>1. PICK k \in 0..MaxAttempts : ms \in [1..k -> Meets]
      BY DEF Attempts
    <3>2. k \in Nat
      BY <3>1, MaxAttemptsAssumption
    <3> QED
      BY <3>1, <3>2
  <2>2. PICK waited : waited = WaitForDaemonReady(ms)
    OBVIOUS
  <2>3. /\ waited \in {"answered", "crash", "notReady"}
        /\ waited = "notReady" => "done" \notin ToSet(ms)
    BY <2>1, <2>2, WaitTells
  <2>4. CASE ~b \/ first = "refused"
    BY <1>1, <1>6, <2>4 DEF Load
  <2>5. CASE ~(~b \/ first = "refused") /\ Connects(first)
    BY <1>2, <1>6, <2>5, ExecuteCommandTells DEF Load
  <2>6. CASE ~(~b \/ first = "refused") /\ ~Connects(first)
    <3>1. first \in {"absent", "slow"}
      BY <2>6, ExecuteCommandTells
    <3>2. CASE waited = "notReady"
      <4>1. r = [sent |-> FALSE, spawned |-> TRUE, code |-> 0]
        BY <1>6, <2>2, <2>6, <3>2 DEF Load
      <4> QED
        BY <2>3, <3>1, <3>2, <4>1
    <3>3. CASE waited = "crash"
      <4>1. r = [Usage EXCEPT !.spawned = TRUE]
        BY <1>6, <2>2, <2>6, <3>3 DEF Load
      <4> QED
        BY <3>1, <4>1 DEF Usage
    <3>4. CASE waited = "answered"
      <4>1. r = [Strict(m) EXCEPT !.spawned = TRUE]
        BY <1>6, <2>2, <2>6, <3>4 DEF Load
      <4>2. r.code = Strict(m).code /\ r.sent = Strict(m).sent
        BY <4>1 DEF Strict, Ended
      <4> QED
        BY <1>2, <3>1, <4>2, ExecuteCommandTells
    <3> QED
      BY <2>3, <3>2, <3>3, <3>4
  <2> QED
    BY <2>4, <2>5, <2>6
<1> QED
  BY <1>4, <1>5, <1>6

\* The targets that a command sends mean to the daemon what they mean to the
\* user, for any processes in any of the namespaces.
THEOREM TargetsMeanTheSame == TargetsAreTrue
<1> SUFFICES ASSUME NEW o \in Options, NEW space \in [Members -> {"n1", "n2"}],
                    Start(o, "done").sent
             PROVE  Meant(ResolveTargets(space, Members, Targets(o))) =
                        IF o.all THEN Members
                        ELSE IF o.args # <<>>
                             THEN {o.args[i].of : i \in DOMAIN o.args}
                        ELSE Shown(space, o.namespace)
  BY DEF TargetsAreTrue
<1>1. /\ o.all \in BOOLEAN /\ o.args \in Seq(Arguments)
      /\ \A i \in DOMAIN o.args : o.args[i] \in Arguments
  <2>1. PICK k \in 0..2 : o.args \in [1..k -> Arguments]
    BY DEF Options
  <2> QED
    BY <2>1 DEF Options
<1>2. ASSUME NEW T, NEW targets \in Seq(T)
      PROVE  Meant(ResolveTargets(space, Members, targets)) =
                {p \in Members :
                    IF targets = <<>> THEN p \in Members
                    ELSE \E i \in DOMAIN targets : Means(space, targets[i], p)}
  <2>1. DOMAIN space = Members
    OBVIOUS
  <2> QED
    BY <2>1, ResolvedTimes
<1>3. CASE o.all
  <2>1. Targets(o) = <<>> /\ <<>> \in Seq(Arguments)
    BY <1>3 DEF Targets
  <2> QED
    BY <1>2, <1>3, <2>1
<1>4. CASE ~o.all /\ o.args # <<>>
  <2>1. Targets(o) = o.args
    BY <1>4 DEF Targets
  <2>2. \A i \in DOMAIN o.args : o.args[i].kind = "name" /\ o.args[i].of \in Members
    BY <1>1 DEF Arguments
  <2>3. \A p : \A i \in DOMAIN o.args : Means(space, o.args[i], p) <=> p = o.args[i].of
    BY <2>2 DEF Means
  <2>4. Meant(ResolveTargets(space, Members, o.args)) =
            {p \in Members : \E i \in DOMAIN o.args : Means(space, o.args[i], p)}
    BY <1>1, <1>2, <1>4
  <2>5. Meant(ResolveTargets(space, Members, o.args)) =
            {o.args[i].of : i \in DOMAIN o.args}
    <3>1. \A p : (\E i \in DOMAIN o.args : Means(space, o.args[i], p))
                   <=> \E i \in DOMAIN o.args : p = o.args[i].of
      BY <2>3
    <3>2. {p \in Members : \E i \in DOMAIN o.args : Means(space, o.args[i], p)}
            = {p \in Members : \E i \in DOMAIN o.args : p = o.args[i].of}
      BY <3>1
    <3> QED
      BY <2>2, <2>4, <3>2
  <2> QED
    BY <1>4, <2>1, <2>5
<1>5. CASE ~o.all /\ o.args = <<>>
  <2>1. PICK t : t = [kind |-> "space", of |-> o.namespace]
    OBVIOUS
  <2>2. PICK ts \in Seq({t}) : ts = <<t>>
    <3>1. <<t>> \in Seq({t})
      OBVIOUS
    <3> QED
      BY <3>1, Zenon
  <2>3. Targets(o) = ts
    BY <1>1, <1>5, <2>1, <2>2 DEF Targets
  <2>4. Meant(ResolveTargets(space, Members, ts)) = {p \in Members : Means(space, t, p)}
    <3>1. ts # <<>> /\ DOMAIN ts = {1} /\ ts[1] = t
      BY <2>2
    <3>2. Meant(ResolveTargets(space, Members, ts)) =
            {p \in Members : \E i \in DOMAIN ts : Means(space, ts[i], p)}
      BY <1>2, <3>1
    <3> QED
      BY <3>1, <3>2
  <2>5. \A p : Means(space, t, p) <=> p \in InNamespace(space, o.namespace)
    BY <2>1 DEF Means
  <2> QED
    BY <1>5, <2>3, <2>4, <2>5 DEF InNamespace, Shown
<1> QED
  BY <1>1, <1>3, <1>4, <1>5

\* Both, for any group of processes and any number of attempts: what the run
\* checks of the command line.
THEOREM TellsTheTruth == Spec => []CommandLineIsTrue
<1>1. CommandLineIsTrue
  BY ExitCodesTellTheTruth, TargetsMeanTheSame DEF CommandLineIsTrue
<1> QED
  BY <1>1, PTL
=============================================================================
