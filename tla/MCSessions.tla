----------------------------- MODULE MCSessions -----------------------------
(* Sessions for TLC: the tokens are interchangeable. *)
EXTENDS Sessions, TLC

Symmetry == Permutations(Token)
=============================================================================
