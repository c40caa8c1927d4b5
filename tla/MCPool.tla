------------------------------- MODULE MCPool -------------------------------
(* Small instances of Pool for TLC. *)
EXTENDS Pool
CONSTANTS w1, w2, k1, k2
=============================================================================
