---------------------------- MODULE MCWorkerPool ----------------------------
(* Instances of WorkerPool for TLC. *)
EXTENDS WorkerPool, TLC

CONSTANTS c1, c2

OneClient == {c1}
TwoClients == {c1, c2}
NoClient == {}
ClientSymmetry == Permutations(TwoClients)
=============================================================================
