------------------------------- MODULE MCIpc --------------------------------
(* Ipc on small sets. *)
EXTENDS Ipc
=============================================================================
