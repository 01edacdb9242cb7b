---------------------------- MODULE MCLocalSlots ----------------------------
(* Model-checking instance of LocalSlots. *)
EXTENDS LocalSlots, TLC

Symmetry == Permutations(Threads)
=============================================================================
