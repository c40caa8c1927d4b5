------------------------- MODULE MCIncrementalUpdate -------------------------
(* Small instances of IncrementalUpdate for TLC. *)
EXTENDS IncrementalUpdate

CONSTANTS n, nty, m, f, g, T, c, s1, s2

MCKindOf == [u \in Units |-> CASE u \in {f, g} -> "func" [] u = T -> "type" [] u = c -> "comptime" [] OTHER -> "nav"]
MCValueOf == [t \in {nty} |-> n]
MCSourceOf == [u \in Units |-> IF u \in {f, c} THEN s1 ELSE s2]
MCOwnerOf == [u \in {f, g} |-> IF u = f THEN n ELSE m]
MCMayUse == {<<f, nty>>, <<n, T>>, <<T, n>>, <<f, g>>, <<g, f>>, <<c, n>>}
            \cap (Units \X Units)
=============================================================================
