---------------------------- MODULE MCFutexMutex ----------------------------
(* Small instances of FutexMutex for TLC. *)
EXTENDS FutexMutex, TLC

CONSTANTS t1, t2, t3, t4

Symmetry == Permutations(Threads)
=============================================================================
