---------------------------- MODULE MCKeyedMutex ----------------------------
(* KeyedMutex on two keys and four concurrent calls. *)
EXTENDS KeyedMutex
=============================================================================
