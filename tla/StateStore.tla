----------------------------- MODULE StateStore -----------------------------
(***************************************************************************)
(* What persistence promises: one stored state that is replaced as a       *)
(* whole, never by an older one, and a load that returns it or says that   *)
(* it could not, whatever crashes or fails in between.  All of this holds  *)
(* of saves one at a time; where two overlap, anything may be left behind, *)
(* until the next one.                                                     *)
(***************************************************************************)
EXTENDS Integers

CONSTANTS
    Nothing,    \* 0: no state was stored yet
    Torn        \* -1: what is stored is not a state

VARIABLES
    stored,     \* the number of the stored state
    loaded,     \* the result of the last load
    overlap     \* do two saves overlap?

vars == <<stored, loaded, overlap>>

Init == stored = Nothing /\ loaded = [state |-> Nothing, error |-> FALSE] /\ ~overlap

\* A save, or a part of it; overlaps begin and end.
Save ==
    /\ \/ stored' = stored
       \/ stored' \in Nat /\ stored' >= stored
       \/ overlap /\ stored' \in Nat \cup {Torn}
    /\ overlap' \in BOOLEAN
    /\ UNCHANGED loaded

\* What is torn is not loaded: an older state is, or none.
Load ==
    /\ \/ loaded'.error /\ loaded'.state = Nothing
       \/ ~loaded'.error /\ loaded'.state \in IF stored = Torn THEN Nat ELSE {stored}
    /\ UNCHANGED <<stored, overlap>>

Next == Load \/ Save

Spec == Init /\ [][Next]_vars
=============================================================================
