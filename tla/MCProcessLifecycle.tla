------------------------- MODULE MCProcessLifecycle -------------------------
(* ProcessLifecycle on small sets. *)
EXTENDS ProcessLifecycle, TLC

Symmetry == Permutations(Kids) \cup Permutations(Calls)
=============================================================================
