------------------------------- MODULE MCLogs -------------------------------
(* Logs and the reader of their files, on small sets. *)
EXTENDS LogProperties
=============================================================================
