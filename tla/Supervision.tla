----------------------------- MODULE Supervision -----------------------------
(***************************************************************************)
(* What supervising processes means, whatever the calls, locks, listeners  *)
(* and timers behind it: the status of a process is a truthful account of  *)
(* its child.  A child is started only where none lives; a process is      *)
(* "stopped" or "errored" only when its child is gone; and the end of a    *)
(* child is noticed.                                                       *)
(***************************************************************************)
EXTENDS Naturals

CONSTANTS Procs, Kids

VARIABLES
    status,     \* Procs -> the status shown to the user
    live        \* Procs -> the living children of a process

vars == <<status, live>>

Down == {"stopped", "errored"}

Statuses == Down \cup {"starting", "online", "stopping"}

Init ==
    /\ status = [p \in Procs |-> "stopped"]
    /\ live = [p \in Procs |-> {}]

\* A start: with a child, or without one when spawning fails at once.
Start(p) ==
    /\ status[p] \in Down /\ live[p] = {}
    /\ status' = [status EXCEPT ![p] = "starting"]
    /\ \E new \in {{}} \cup {{k} : k \in Kids} : live' = [live EXCEPT ![p] = new]

\* A start that fails before or after its child was asked for.
Fail(p) ==
    /\ status[p] \in Down \cup {"starting"} /\ live[p] = {}
    /\ status' = [status EXCEPT ![p] = "errored"]
    /\ UNCHANGED live

Run(p) ==
    /\ status[p] = "starting"
    /\ status' = [status EXCEPT ![p] = "online"]
    /\ UNCHANGED live

Die(p) ==
    /\ live[p] # {}
    /\ live' = [live EXCEPT ![p] = {}]
    /\ UNCHANGED status

Stop(p) ==
    /\ status[p] = "online"
    /\ status' = [status EXCEPT ![p] = "stopping"]
    /\ UNCHANGED live

\* The end of a child is noticed: a failure only if nobody asked for it.
Notice(p) ==
    /\ live[p] = {}
    /\ \/ status[p] \in {"online", "stopping"}
          /\ status' = [status EXCEPT ![p] = "stopped"]
       \/ status[p] = "online" /\ status' = [status EXCEPT ![p] = "errored"]
    /\ UNCHANGED live

Next ==
    \E p \in Procs :
        Start(p) \/ Fail(p) \/ Run(p) \/ Die(p) \/ Stop(p) \/ Notice(p)

\* A start is decided, a stop ends, a death is noticed.
Fairness ==
    \A p \in Procs :
        /\ WF_vars(Run(p) \/ (status[p] = "starting" /\ Fail(p)))
        /\ WF_vars(Notice(p))
        /\ WF_vars(status[p] = "stopping" /\ Die(p))

SafeSpec == Init /\ [][Next]_vars

Spec == SafeSpec /\ Fairness
=============================================================================
