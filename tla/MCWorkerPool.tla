---------------------------- MODULE MCWorkerPool ----------------------------
(***************************************************************************)
(* Instances of WorkerPool for TLC.                                        *)
(***************************************************************************)
EXTENDS WorkerPool, TLC

CONSTANTS i1, r1, r2

\* Two releases built on one runtime image share the warm workers.
OneImage == [r \in Release |-> i1]

Symmetry == Permutations(Thread) \cup Permutations(Worker) \cup Permutations(Tenant)
=============================================================================
