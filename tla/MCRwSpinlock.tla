----------------------------- MODULE MCRwSpinlock -----------------------------
(* RwSpinlock for a few threads. *)
EXTENDS RwSpinlock, TLC

Symmetry == Permutations(Threads)
=============================================================================
