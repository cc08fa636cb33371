--------------------------- MODULE MCPersistence ---------------------------
(* Persistence on small sets: saves may overlap. *)
EXTENDS Persistence, TLC

Symmetry == Permutations(Savers)
=============================================================================
