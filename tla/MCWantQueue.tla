----------------------------- MODULE MCWantQueue -----------------------------
(* WantQueue with constants small enough for TLC: one work that two lists    *)
(* name by two texts and one alias.                                          *)
EXTENDS WantQueue, TLC

CONSTANTS c1, c2, r1

MCOwn == "listed" :> 1 @@ "exported" :> 2
MCAliases == [e \in {"listed", "exported"} |-> {"tt1"}]

Symmetric == Permutations({c1, c2})

=============================================================================
