--------------------------- MODULE MCWorkerSession --------------------------
(* A worker given to one client after another, within the bounds of the cfg. *)
EXTENDS WorkerSession
=============================================================================
