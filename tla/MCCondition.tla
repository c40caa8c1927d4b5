---------------------------- MODULE MCCondition ----------------------------
(* Small instances of Condition for TLC. *)
EXTENDS Condition

CONSTANTS w1, w2, s1
=============================================================================
