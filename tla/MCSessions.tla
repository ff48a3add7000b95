----------------------------- MODULE MCSessions -----------------------------
(* Small instances of Sessions: calls and tokens are interchangeable. *)
EXTENDS Sessions, TLC

Symmetry == Permutations(Calls) \cup Permutations(Tokens)
=============================================================================
