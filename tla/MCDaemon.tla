------------------------------ MODULE MCDaemon ------------------------------
(* Daemon on small sets. *)
EXTENDS Daemon
=============================================================================
