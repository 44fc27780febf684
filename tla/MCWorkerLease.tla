---------------------------- MODULE MCWorkerLease ----------------------------
(* Small instances of WorkerLease for TLC. *)
EXTENDS WorkerLease, TLC

CONSTANTS e1, e2

MCSymmetry == Permutations(Executors)
==============================================================================
