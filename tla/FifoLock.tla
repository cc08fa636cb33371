------------------------------ MODULE FifoLock ------------------------------
(***************************************************************************)
(* What a keyed lock promises its callers, without saying how: for every   *)
(* key there is one line.  A caller joins at the end of one line, is       *)
(* served when it is at the head, and leaves from the head.                *)
(***************************************************************************)
EXTENDS Naturals, Sequences

CONSTANTS Keys, Callers

VARIABLES
    line,       \* Keys -> Seq(Callers)
    served      \* the callers now inside their operation

vars == <<line, served>>

InLine(c) == \E k \in Keys : \E i \in 1..Len(line[k]) : line[k][i] = c

Init == line = [k \in Keys |-> <<>>] /\ served = {}

Join(c, k) ==
    /\ ~InLine(c)
    /\ line' = [line EXCEPT ![k] = Append(@, c)]
    /\ UNCHANGED served

Serve(c, k) ==
    /\ line[k] # <<>> /\ Head(line[k]) = c
    /\ c \notin served
    /\ served' = served \cup {c}
    /\ UNCHANGED line

Leave(c, k) ==
    /\ line[k] # <<>> /\ Head(line[k]) = c
    /\ c \in served
    /\ line' = [line EXCEPT ![k] = Tail(@)]
    /\ served' = served \ {c}

Next == \E c \in Callers, k \in Keys : Join(c, k) \/ Serve(c, k) \/ Leave(c, k)

\* The head of a line is served, and leaves.
Fairness ==
    \A c \in Callers, k \in Keys : WF_vars(Serve(c, k)) /\ WF_vars(Leave(c, k))

Spec == Init /\ [][Next]_vars /\ Fairness
=============================================================================
