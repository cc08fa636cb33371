--------------------------- MODULE MCTaskManager ---------------------------
(* TaskManager on small sets. *)
EXTENDS TaskManager
=============================================================================
