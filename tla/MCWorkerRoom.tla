---------------------------- MODULE MCWorkerRoom ----------------------------
(* Two leaves, so that a ticketed join follows a leave. *)
EXTENDS WorkerRoom
=============================================================================
