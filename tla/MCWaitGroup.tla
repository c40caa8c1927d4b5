---------------------------- MODULE MCWaitGroup ----------------------------
(* Small instances of WaitGroup for TLC. *)
EXTENDS WaitGroup, TLC

CONSTANTS k1, k2, k3

Symmetry == Permutations(Tasks)
=============================================================================
