------------------------------ MODULE MCRwLock ------------------------------
(* A small instance of RwLock for TLC. *)
EXTENDS RwLock

CONSTANTS t1, t2, t3
=============================================================================
