-------------------------- MODULE MCThreadContext --------------------------
(* Model-checking instance of ThreadContext. *)
EXTENDS ThreadContext, TLC

Symmetry == Permutations(Hosts) \cup Permutations(Tebs)
=============================================================================
