---------------------------- MODULE MCLinkQueue ----------------------------
(* Small instances of LinkQueue for TLC. *)
EXTENDS LinkQueue

CONSTANTS f1, f2, f3

\* with a cap of 4, f1 and f2 just fit together and f3 exceeds the cap alone
MCAirBytes == [f \in LinkFuncs |-> CASE f = f1 -> 2 [] f = f2 -> 2 [] OTHER -> 5]
=============================================================================
