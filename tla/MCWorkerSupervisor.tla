------------------------- MODULE MCWorkerSupervisor -------------------------
(* The instance of WorkerSupervisor that TLC checks.                         *)
EXTENDS WorkerSupervisor, TLC

Symmetry == Permutations(Requests)
=============================================================================
